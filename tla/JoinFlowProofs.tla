---------------------------- MODULE JoinFlowProofs ----------------------------
(***************************************************************************)
(* Proofs about JoinFlow, for any bounds: its types, what localStorage     *)
(* holds of a room, that its page is shown to members only, and that the   *)
(* token remembered is the server's.                                       *)
(***************************************************************************)
EXTENDS JoinFlow, TLAPS

\* An entry has the three fields of RoomEntry that JoinFlow keeps.
IsEntry(e) == e = [kept |-> e.kept, token |-> e.token, prompt |-> e.prompt]
\* StorageFollows is inductive once both entries are known to be entries.
StorageInv == IsEntry(cache) /\ IsEntry(stored) /\ StorageFollows

\* saveRoom, deleteRoom and the loss of a token keep storage and memory together.
LEMMA SavesFollows ==
  ASSUME StorageInv, NEW entry, IsEntry(entry), Saves(entry)
  PROVE  StorageInv'
<1>1. CASE Differs(cache, entry)
  BY <1>1 DEF Saves, StorageInv, StorageFollows, IsEntry
<1>2. CASE ~Differs(cache, entry)
  BY <1>2 DEF Saves, StorageInv, StorageFollows, IsEntry, cacheVars
<1>3. QED BY <1>1, <1>2

LEMMA DeletesFollows ==
  ASSUME Deletes
  PROVE  StorageInv'
BY DEF Deletes, NoEntry, StorageInv, StorageFollows, IsEntry

LEMMA ForgetsTokenFollows ==
  ASSUME StorageInv, ForgetsToken
  PROVE  StorageInv'
<1>1. cache' = [kept |-> cache.kept, token |-> None, prompt |-> cache.prompt] /\ stored' = stored
  BY DEF ForgetsToken, StorageInv, IsEntry
<1>2. [stored EXCEPT !.token = None] = [kept |-> stored.kept, token |-> None, prompt |-> stored.prompt]
  BY DEF StorageInv, IsEntry
<1>3. cache.kept = stored.kept /\ cache.prompt = stored.prompt
  BY <1>2 DEF StorageInv, StorageFollows
<1>4. QED BY <1>1, <1>2, <1>3 DEF StorageInv, StorageFollows, IsEntry

\* Whoever leaves both alone.
LEMMA CacheUnchanged ==
  ASSUME StorageInv, UNCHANGED cacheVars
  PROVE  StorageInv'
BY DEF cacheVars, StorageInv, StorageFollows, IsEntry

-----------------------------------------------------------------------------
(* The steps of the tab and of the server *)

LEMMA ServerStepFollows ==
  ASSUME StorageInv, ServerStep
  PROVE  StorageInv'
<1>1. UNCHANGED cacheVars
  BY DEF ServerStep, Serve, Lapse, cleanExpiredRoomMemory, cleanupUser, cleanEmptyRooms, cacheVars
<1>2. QED BY <1>1, CacheUnchanged

LEMMA HomeStepFollows ==
  ASSUME StorageInv, HomeStep
  PROVE  StorageInv'
<1>1. CASE onCreateRoom \/ OpenRoom \/ \E link \in BOOLEAN : OpenJoin(link)
  <2>1. UNCHANGED cacheVars BY <1>1 DEF onCreateRoom, OpenRoom, OpenJoin
  <2>2. QED BY <2>1, CacheUnchanged
<1>2. CASE onClearCachedRooms
  BY <1>2, DeletesFollows DEF onClearCachedRooms
<1>3. QED BY <1>1, <1>2 DEF HomeStep

LEMMA JoinStepFollows ==
  ASSUME StorageInv, JoinStep
  PROVE  StorageInv'
<1>1. UNCHANGED cacheVars BY DEF JoinStep, Types, onJoinRoom, Validates, TimerFires
<1>2. QED BY <1>1, CacheUnchanged

LEMMA HearStepFollows ==
  ASSUME StorageInv, HearStep
  PROVE  StorageInv'
<1>1. CASE OnCached
  BY <1>1, DeletesFollows, CacheUnchanged DEF OnCached
<1>2. CASE OnCreated
  <2>1. PICK token : Saves([kept |-> TRUE, token |-> token, prompt |-> FALSE])
    BY <1>2 DEF OnCreated
  <2>2. QED BY <2>1, SavesFollows DEF IsEntry
<1>3. CASE OnValid
  BY <1>3, ForgetsTokenFollows, CacheUnchanged DEF OnValid
<1>4. CASE OnJoined
  <2>1. PICK token : Saves(Joined(token)) BY <1>4 DEF OnJoined
  <2>2. QED BY <2>1, SavesFollows DEF Joined, IsEntry
<1>5. CASE OnGuard \/ OnExists \/ OnJoinRefused \/ HearsLate
  <2>1. UNCHANGED cacheVars BY <1>5 DEF OnGuard, OnExists, OnJoinRefused, HearsLate
  <2>2. QED BY <2>1, CacheUnchanged
<1>6. QED BY <1>1, <1>2, <1>3, <1>4, <1>5 DEF HearStep

LEMMA LeaveStepFollows ==
  ASSUME StorageInv, LeaveStep
  PROVE  StorageInv'
<1>1. CASE LeaveJoin \/ reconnect
  <2>1. UNCHANGED cacheVars BY <1>1 DEF LeaveJoin, reconnect
  <2>2. QED BY <2>1, CacheUnchanged
<1>2. CASE Reload
  <2>1. cache' = Loaded /\ stored' = Loaded BY <1>2 DEF Reload
  <2>2. IsEntry(Loaded) BY DEF Loaded, NoEntry, StorageInv, IsEntry
  <2>3. QED BY <2>1, <2>2 DEF StorageInv, StorageFollows, IsEntry
<1>3. ASSUME NEW prevent \in BOOLEAN, LeaveRoom(prevent)
      PROVE  StorageInv'
  <2>1. CASE cache.prompt
    BY <1>3, <2>1, CacheUnchanged DEF LeaveRoom
  <2>2. CASE ~cache.prompt
    <3>1. Saves([cache EXCEPT !.prompt = prevent]) BY <1>3, <2>2 DEF LeaveRoom
    <3>2. IsEntry([cache EXCEPT !.prompt = prevent]) BY DEF StorageInv, IsEntry
    <3>3. QED BY <3>1, <3>2, SavesFollows
  <2>3. QED BY <2>1, <2>2
<1>4. QED BY <1>1, <1>2, <1>3 DEF LeaveStep

\* localStorage lags behind the memory by a refused token at most, whatever
\* numbers of tokens, join pages and messages: whenever a page saves an entry
\* (join-room.component.ts:136-141 included) what a reload brings back is it.
THEOREM StorageKeepsUp == Spec => []StorageFollows
<1>1. Init => StorageInv
  BY DEF Init, NoEntry, StorageInv, StorageFollows, IsEntry
<1>2. StorageInv /\ [Next]_joinVars => StorageInv'
  <2> SUFFICES ASSUME StorageInv, [Next]_joinVars PROVE StorageInv'
    OBVIOUS
  <2>1. CASE ServerStep BY <2>1, ServerStepFollows
  <2>2. CASE HomeStep BY <2>2, HomeStepFollows
  <2>3. CASE JoinStep BY <2>3, JoinStepFollows
  <2>4. CASE HearStep BY <2>4, HearStepFollows
  <2>5. CASE LeaveStep BY <2>5, LeaveStepFollows
  <2>6. CASE (\E a \in asked : Timeout(a[1], a[2])) \/ UNCHANGED joinVars
    <3>1. UNCHANGED cacheVars BY <2>6 DEF Timeout, joinVars
    <3>2. QED BY <3>1, CacheUnchanged
  <2>7. QED BY <2>1, <2>2, <2>3, <2>4, <2>5, <2>6 DEF Next
<1>3. StorageInv => StorageFollows BY DEF StorageInv
<1>4. QED BY <1>1, <1>2, <1>3, PTL DEF Spec

-----------------------------------------------------------------------------
(* Queues, and the steps with a case distinction *)

\* The last two forms of a queue: one message longer, and without its first.
LEMMA Longer ==
  ASSUME NEW S, NEW q \in Seq(S), NEW e \in S
  PROVE  /\ Append(q, e) \in Seq(S) /\ DOMAIN Append(q, e) = 1 .. Len(q) + 1
         /\ \A k \in DOMAIN Append(q, e) :
              \/ k \in DOMAIN q /\ Append(q, e)[k] = q[k]
              \/ k = Len(q) + 1 /\ Append(q, e)[k] = e
OBVIOUS

LEMMA Shorter ==
  ASSUME NEW S, NEW q \in Seq(S), q # <<>>
  PROVE  /\ Tail(q) \in Seq(S) /\ Head(q) = q[1] /\ Head(q) \in S /\ 1 \in DOMAIN q
         /\ DOMAIN Tail(q) = 1 .. Len(q) - 1
         /\ \A k \in DOMAIN Tail(q) : k \in Nat /\ k + 1 \in DOMAIN q /\ Tail(q)[k] = q[k + 1]
OBVIOUS

LEMMA Handled ==
  ASSUME NEW m, m.kind \in Kinds, Handles(m)
  PROVE  \/ m.kind = "create" /\ createRoom(m)
         \/ m.kind \in {"cached", "exists"} /\ roomExists(m)
         \/ m.kind = "valid" /\ usernameValid(m)
         \/ m.kind = "join" /\ joinRoom(m)
         \/ m.kind = "guard" /\ guard(m)
         \/ m.kind = "leave" /\ leaveRoom(m)
<1>1. CASE m.kind = "create" BY <1>1 DEF Handles
<1>2. CASE m.kind \in {"cached", "exists"} BY <1>2 DEF Handles
<1>3. CASE m.kind = "valid" BY <1>3 DEF Handles
<1>4. CASE m.kind = "join" BY <1>4 DEF Handles
<1>5. CASE m.kind = "guard" BY <1>5 DEF Handles
<1>6. CASE m.kind = "leave" BY <1>6 DEF Handles
<1> QED
  BY <1>1, <1>2, <1>3, <1>4, <1>5, <1>6 DEF Kinds

LEMMA GuardHeard ==
  ASSUME OnGuard
  PROVE  \/ Answer.is = "ok" /\ page' = "room" /\ asked' = Heard /\ UNCHANGED <<wire, forms>>
         \/ Answer.is # "ok" /\ ShowsJoin(FALSE, Heard)
         \/ Answer.is # "ok" /\ asked' = Heard /\ UNCHANGED <<wire, pageVars>>
         \/ Answer.is # "ok" /\ ShowsHome(Heard) /\ UNCHANGED forms
<1>1. CASE Answer.is = "ok" BY <1>1 DEF OnGuard
<1>2. CASE Answer.is = "stranger" BY <1>2 DEF OnGuard
<1>3. CASE Answer.is # "ok" /\ Answer.is # "stranger" BY <1>3 DEF OnGuard
<1> QED
  BY <1>1, <1>2, <1>3

-----------------------------------------------------------------------------
(* Types *)

ServerTypes ==
  /\ room \in {"none", "open", "gone"} /\ member \in {"no", "this", "old"}
  /\ issued \in 0 .. MaxTokens /\ lapsed \in 0 .. issued /\ memory \in 0 .. issued
MessageTypes == wire \in Seq(Request) /\ replies \in Seq(Reply) /\ asked \subseteq Asked
TabTypes ==
  /\ cache \in Entry \cup {NoEntry} /\ stored \in Entry \cup {NoEntry}
  /\ page \in {"home", "join", "room"} /\ missed \in BOOLEAN
  /\ forms \in Seq(Form) /\ Len(forms) <= MaxForms

LEMMA ServerTyped ==
  ASSUME ServerTypes, MessageTypes, [Next]_joinVars
  PROVE  ServerTypes'
<1>1. CASE Serve
  <2>1. PICK m \in Request : Handles(m) /\ lapsed' = lapsed
    BY <1>1, Shorter DEF Serve, MessageTypes
  <2>2. m.kind \in Kinds
    BY DEF Request
  <2>3. /\ room' = room \/ room' = "open"
        /\ member' \in {member, "no", "this"}
        /\ \/ issued' = issued /\ memory' = memory
           \/ issued < MaxTokens /\ issued' = issued + 1 /\ memory' = issued + 1
    BY <2>1, <2>2, Handled
    DEF createRoom, roomExists, usernameValid, joinRoom, guard, leaveRoom, Refuses, Grants
  <2> QED
    BY <2>1, <2>3, JoinBoundsAssumption DEF ServerTypes
<1>2. CASE Lapse \/ cleanExpiredRoomMemory \/ cleanupUser \/ cleanEmptyRooms
  BY <1>2 DEF Lapse, cleanExpiredRoomMemory, cleanupUser, cleanEmptyRooms, None, ServerTypes
<1>3. CASE HomeStep
  BY <1>3 DEF HomeStep, onCreateRoom, onClearCachedRooms, OpenRoom, OpenJoin, serverVars, ServerTypes
<1>4. CASE JoinStep
  BY <1>4 DEF JoinStep, Types, onJoinRoom, Validates, TimerFires, serverVars, ServerTypes
<1>5. CASE HearStep
  BY <1>5 DEF HearStep, OnCached, OnCreated, OnGuard, OnExists, OnValid, OnJoined, OnJoinRefused,
              HearsLate, Hears, serverVars, ServerTypes
<1>6. CASE LeaveStep
  BY <1>6 DEF LeaveStep, LeaveJoin, LeaveRoom, reconnect, Reload, NewSocket, serverVars, ServerTypes
<1>7. CASE (\E a \in asked : Timeout(a[1], a[2])) \/ UNCHANGED joinVars
  BY <1>7 DEF Timeout, joinVars, serverVars, ServerTypes
<1> QED
  BY <1>1, <1>2, <1>3, <1>4, <1>5, <1>6, <1>7 DEF Next, ServerStep

LEMMA EntryFields ==
  ASSUME NEW e \in Entry \cup {NoEntry}
  PROVE  e.token \in {None} \cup Tokens /\ e.kept \in BOOLEAN /\ e.prompt \in BOOLEAN
<1>1. CASE e \in Entry
  BY <1>1 DEF Entry
<1>2. CASE e = NoEntry
  BY <1>2 DEF NoEntry
<1> QED
  BY <1>1, <1>2

LEMMA CacheToken ==
  ASSUME TabTypes
  PROVE  /\ cache.token \in {None} \cup Tokens /\ stored.token \in {None} \cup Tokens
         /\ cache.kept \in BOOLEAN /\ cache.prompt \in BOOLEAN
         /\ \A f \in DOMAIN forms : forms[f] \in Form /\ f \in Nat /\ f \in 0 .. MaxForms
         /\ Len(forms) \in Nat /\ MaxForms \in Nat /\ DOMAIN forms = 1 .. Len(forms)
<1>1. /\ cache.token \in {None} \cup Tokens /\ stored.token \in {None} \cup Tokens
      /\ cache.kept \in BOOLEAN /\ cache.prompt \in BOOLEAN
  BY EntryFields DEF TabTypes
<1> QED
  BY <1>1, JoinBoundsAssumption DEF TabTypes

LEMMA AsksTyped ==
  ASSUME MessageTypes, NEW kind \in Kinds, NEW f \in 0 .. MaxForms,
         NEW token \in {None} \cup Tokens, Asks(kind, f, token)
  PROVE  wire' \in Seq(Request) /\ <<kind, f>> \in Asked
<1>1. [kind |-> kind, form |-> f, token |-> token] \in Request
  BY DEF Request
<1> QED
  BY <1>1, Longer DEF Asks, MessageTypes, Asked

LEMMA ShowsHomeTyped ==
  ASSUME MessageTypes, NEW pending \in SUBSET Asked, ShowsHome(pending)
  PROVE  wire' \in Seq(Request) /\ asked' \subseteq Asked
<1>1. "cached" \in Kinds /\ 0 \in 0 .. MaxForms /\ None \in {None} \cup Tokens
  BY JoinBoundsAssumption DEF Kinds
<1>2. CASE Asks("cached", 0, None) /\ asked' = pending \cup {<<"cached", 0>>}
  BY <1>1, <1>2, AsksTyped
<1>3. CASE asked' = pending /\ wire' = wire
  BY <1>3 DEF MessageTypes
<1> QED
  BY <1>2, <1>3 DEF ShowsHome

LEMMA ShowsJoinTyped ==
  ASSUME MessageTypes, TabTypes, NEW pending \in SUBSET Asked, NEW link \in BOOLEAN,
         ShowsJoin(link, pending)
  PROVE  /\ wire' \in Seq(Request) /\ asked' \subseteq Asked /\ page' = "join"
         /\ forms' \in Seq(Form) /\ Len(forms') <= MaxForms
<1>1. /\ "exists" \in Kinds /\ None \in {None} \cup Tokens
      /\ Len(forms) + 1 \in 0 .. MaxForms
  BY CacheToken DEF Kinds, ShowsJoin
<1>2. wire' \in Seq(Request) /\ <<"exists", Len(forms) + 1>> \in Asked
  BY <1>1, AsksTyped DEF ShowsJoin
<1>3. asked' \subseteq Asked
  BY <1>2 DEF ShowsJoin
<1>4. NewForm(link) \in Form
  BY DEF NewForm, Form
<1>5. forms' \in Seq(Form) /\ Len(forms') = Len(forms) + 1
  BY <1>4 DEF TabTypes, ShowsJoin
<1> QED
  BY <1>1, <1>2, <1>3, <1>5, JoinBoundsAssumption DEF ShowsJoin

LEMMA HeardTyped ==
  ASSUME MessageTypes, NEW kind, Hears(kind)
  PROVE  /\ Answer \in Reply /\ Answer.kind \in Kinds /\ Answer.form \in 0 .. MaxForms
         /\ Answer.token \in {None} \cup Tokens /\ replies' \in Seq(Reply)
         /\ Heard \in SUBSET Asked
<1>1. Answer \in Reply /\ replies' \in Seq(Reply)
  BY Shorter DEF MessageTypes, Hears, Answer
<1>2. Answer.kind \in Kinds /\ Answer.form \in 0 .. MaxForms /\ Answer.token \in {None} \cup Tokens
  BY <1>1 DEF Reply
<1> QED
  BY <1>1, <1>2 DEF MessageTypes, Heard

LEMMA RepliesTyped ==
  ASSUME MessageTypes, NEW m \in Request, NEW is \in {"ok", "no", "taken", "stranger", "invalid"},
         NEW token \in {None} \cup Tokens, Replies(m, is, token)
  PROVE  replies' \in Seq(Reply)
<1>1. [kind |-> m.kind, form |-> m.form, is |-> is, token |-> token] \in Reply
  BY DEF Request, Reply
<1> QED
  BY <1>1, Longer DEF Replies, MessageTypes

LEMMA ServeTyped ==
  ASSUME MessageTypes, ServerTypes, Serve
  PROVE  MessageTypes'
<1>1. PICK m \in Request : Handles(m) /\ wire' = Tail(wire) /\ wire' \in Seq(Request) /\ asked' = asked
  BY Shorter DEF Serve, MessageTypes
<1>2. m.kind \in Kinds
  BY DEF Request
<1>3. None \in {None} \cup Tokens
  OBVIOUS
<1>4. ASSUME NEW is \in {"ok", "no", "taken", "stranger", "invalid"}, Refuses(m, is)
      PROVE  replies' \in Seq(Reply)
  BY <1>3, <1>4, RepliesTyped DEF Refuses
<1>5. ASSUME Grants, Replies(m, "ok", issued')
      PROVE  replies' \in Seq(Reply)
  <2>1. issued' \in {None} \cup Tokens
    BY <1>5, JoinBoundsAssumption DEF Grants, ServerTypes, Tokens, None
  <2> QED
    BY <1>5, <2>1, RepliesTyped
<1>6. replies' \in Seq(Reply)
  <2>1. CASE createRoom(m)
    BY <1>5, <2>1 DEF createRoom
  <2>2. CASE roomExists(m)
    BY <1>4, <2>2 DEF roomExists
  <2>3. CASE usernameValid(m)
    BY <1>4, <2>3 DEF usernameValid
  <2>4. CASE joinRoom(m)
    BY <1>4, <1>5, <2>4 DEF joinRoom
  <2>5. CASE guard(m)
    BY <1>4, <2>5 DEF guard
  <2>6. CASE leaveRoom(m)
    BY <2>6 DEF leaveRoom, MessageTypes
  <2> QED
    BY <1>1, <1>2, <2>1, <2>2, <2>3, <2>4, <2>5, <2>6, Handled
<1> QED
  BY <1>1, <1>6 DEF MessageTypes

LEMMA SetsTyped ==
  ASSUME TabTypes, NEW f, NEW form, f \in DOMAIN forms => form \in Form, Sets(f, form)
  PROVE  /\ forms' \in Seq(Form) /\ Len(forms') = Len(forms) /\ DOMAIN forms' = DOMAIN forms
         /\ \A g \in DOMAIN forms : forms'[g] = IF g = f THEN form ELSE forms[g]
<1>1. CASE f \in DOMAIN forms
  BY <1>1 DEF TabTypes, Sets
<1>2. CASE f \notin DOMAIN forms
  <2>1. forms' = forms
    BY <1>2 DEF TabTypes, Sets
  <2> QED
    BY <1>2, <2>1 DEF TabTypes
<1> QED
  BY <1>1, <1>2

LEMMA SavesTyped ==
  ASSUME TabTypes, NEW token \in {None} \cup Tokens, NEW prompt \in BOOLEAN,
         Saves([kept |-> TRUE, token |-> token, prompt |-> prompt])
  PROVE  /\ cache' \in Entry \cup {NoEntry} /\ stored' \in Entry \cup {NoEntry}
         /\ cache'.token = token
<1>1. [kept |-> TRUE, token |-> token, prompt |-> prompt] \in Entry
  BY DEF Entry
<1> DEFINE entry == [kept |-> TRUE, token |-> token, prompt |-> prompt]
<1>2. CASE Differs(cache, entry)
  <2>1. cache' = entry /\ stored' = entry
    BY <1>2 DEF Saves
  <2> QED
    BY <1>1, <2>1
<1>3. CASE ~Differs(cache, entry)
  <2>1. cache' = cache /\ stored' = stored /\ cache.token = token
    BY <1>3 DEF Saves, Differs, cacheVars
  <2> QED
    BY <2>1 DEF TabTypes
<1> QED
  BY <1>2, <1>3

LEMMA NoneTyped == 0 \in 0 .. MaxForms /\ None \in {None} \cup Tokens
BY JoinBoundsAssumption

LEMMA HomeStepTyped ==
  ASSUME MessageTypes, TabTypes, HomeStep
  PROVE  MessageTypes' /\ TabTypes'
<1>1. CASE onCreateRoom
  BY <1>1, NoneTyped, AsksTyped
  DEF onCreateRoom, Pends, Kinds, cacheVars, pageVars, MessageTypes, TabTypes
<1>2. CASE onClearCachedRooms
  BY <1>2 DEF onClearCachedRooms, Deletes, pageVars, MessageTypes, TabTypes
<1>3. CASE OpenRoom
  BY <1>3, NoneTyped, CacheToken, AsksTyped
  DEF OpenRoom, Pends, Kinds, cacheVars, pageVars, MessageTypes, TabTypes
<1>4. ASSUME NEW link \in BOOLEAN, OpenJoin(link)
      PROVE  MessageTypes' /\ TabTypes'
  <2>1. Unguarded \in SUBSET Asked
    BY DEF Unguarded, MessageTypes
  <2> QED
    BY <1>4, <2>1, ShowsJoinTyped DEF OpenJoin, cacheVars, MessageTypes, TabTypes
<1> QED
  BY <1>1, <1>2, <1>3, <1>4 DEF HomeStep

LEMMA JoinStepTyped ==
  ASSUME MessageTypes, TabTypes, JoinStep
  PROVE  MessageTypes' /\ TabTypes'
<1>1. CASE Types
  <2>1. Len(forms) \in DOMAIN forms => [Current EXCEPT !.name = "given"] \in Form
    BY CacheToken DEF Current, Last, Form
  <2> QED
    BY <1>1, <2>1, SetsTyped DEF Types, cacheVars, MessageTypes, TabTypes
<1>2. CASE onJoinRoom
  <2>1. Current.by = "link" /\ Current.enabled
    BY <1>2 DEF onJoinRoom
  <2>2. Len(forms) \in DOMAIN forms => [Current EXCEPT !.enabled = FALSE] \in Form
    BY CacheToken DEF Current, Last, Form
  <2>3. Len(forms) \in 0 .. MaxForms
    BY CacheToken DEF TabTypes
  <2> QED
    BY <1>2, <2>2, <2>3, NoneTyped, AsksTyped, SetsTyped
    DEF onJoinRoom, Pends, Kinds, cacheVars, MessageTypes, TabTypes
<1>3. ASSUME NEW f \in DOMAIN forms, Validates(f)
      PROVE  MessageTypes' /\ TabTypes'
  <2>1. [forms[f] EXCEPT !.name = "asked"] \in Form /\ f \in 0 .. MaxForms
    BY CacheToken DEF Form
  <2> QED
    BY <1>3, <2>1, CacheToken, AsksTyped, SetsTyped
    DEF Validates, Pends, Kinds, cacheVars, MessageTypes, TabTypes
<1>4. ASSUME NEW f \in DOMAIN forms, TimerFires(f)
      PROVE  MessageTypes' /\ TabTypes'
  <2>1. /\ [forms[f] EXCEPT !.timer = "done", !.enabled = FALSE] \in Form
        /\ [forms[f] EXCEPT !.timer = "done"] \in Form
        /\ forms[f].token \in {None} \cup Tokens /\ f \in 0 .. MaxForms
    BY CacheToken DEF Form
  <2>2. CASE forms[f].name = "free"
    <3>1. Asks("join", f, forms[f].token) /\ asked' = asked \cup {<<"join", f>>}
      BY <1>4, <2>2 DEF TimerFires, Pends
    <3>2. wire' \in Seq(Request) /\ <<"join", f>> \in Asked
      BY <2>1, <3>1, AsksTyped DEF Kinds
    <3>3. forms' \in Seq(Form) /\ Len(forms') = Len(forms)
      BY <1>4, <2>1, <2>2, SetsTyped DEF TimerFires
    <3> QED
      BY <1>4, <3>1, <3>2, <3>3 DEF TimerFires, cacheVars, MessageTypes, TabTypes
  <2>3. CASE forms[f].name # "free"
    BY <1>4, <2>1, <2>3, SetsTyped DEF TimerFires, cacheVars, MessageTypes, TabTypes
  <2> QED
    BY <2>2, <2>3
<1> QED
  BY <1>1, <1>2, <1>3, <1>4 DEF JoinStep

LEMMA HearStepTyped ==
  ASSUME MessageTypes, TabTypes, HearStep
  PROVE  MessageTypes' /\ TabTypes'
<1>1. CASE OnCached
  BY <1>1, HeardTyped DEF OnCached, Deletes, cacheVars, pageVars, MessageTypes, TabTypes
<1>2. CASE OnCreated
  <2>1. Answer.token \in {None} \cup Tokens /\ replies' \in Seq(Reply) /\ Heard \in SUBSET Asked
    BY <1>2, HeardTyped DEF OnCreated
  <2>2. wire' \in Seq(Request) /\ <<"guard", 0>> \in Asked
    BY <1>2, <2>1, NoneTyped, AsksTyped DEF OnCreated, Kinds
  <2>3. cache' \in Entry \cup {NoEntry} /\ stored' \in Entry \cup {NoEntry}
    BY <1>2, <2>1, SavesTyped DEF OnCreated
  <2> QED
    BY <1>2, <2>1, <2>2, <2>3 DEF OnCreated, pageVars, MessageTypes, TabTypes
<1>3. CASE OnGuard
  <2>1. replies' \in Seq(Reply) /\ Heard \in SUBSET Asked /\ UNCHANGED <<cache, stored, missed>>
    BY <1>3, HeardTyped DEF OnGuard, cacheVars
  <2>2. CASE asked' = Heard /\ wire' = wire /\ forms' = forms /\ page' \in {page, "room"}
    BY <2>1, <2>2 DEF MessageTypes, TabTypes
  <2>3. CASE ShowsJoin(FALSE, Heard)
    BY <2>1, <2>3, ShowsJoinTyped DEF MessageTypes, TabTypes
  <2>4. CASE ShowsHome(Heard) /\ UNCHANGED forms
    BY <2>1, <2>4, ShowsHomeTyped DEF ShowsHome, MessageTypes, TabTypes
  <2> QED
    BY <1>3, <2>2, <2>3, <2>4, GuardHeard DEF pageVars
<1>4. CASE OnExists
  <2>1. /\ replies' \in Seq(Reply) /\ Heard \in SUBSET Asked /\ UNCHANGED <<cache, stored, missed>>
        /\ Heard \ {<<"guard", 0>>} \in SUBSET Asked
    BY <1>4, HeardTyped DEF OnExists, cacheVars
  <2>2. CASE asked' = Heard /\ UNCHANGED <<wire, pageVars>>
    BY <2>1, <2>2 DEF pageVars, MessageTypes, TabTypes
  <2>3. ASSUME NEW f, NEW by \in {"", "token", "link"}, NEW name \in {"", "given"},
               NEW timer \in {"on", "off"},
               Sets(f, [forms[f] EXCEPT !.link = FALSE, !.by = by, !.token = cache.token,
                                        !.old = cache.kept, !.enabled = TRUE, !.name = name,
                                        !.timer = timer]),
               ShowsHome(Heard \ {<<"guard", 0>>}) \/ (asked' = Heard /\ UNCHANGED <<wire, page>>)
        PROVE  MessageTypes' /\ TabTypes'
    <3>1. ASSUME f \in DOMAIN forms
          PROVE  [forms[f] EXCEPT !.link = FALSE, !.by = by, !.token = cache.token,
                                  !.old = cache.kept, !.enabled = TRUE, !.name = name,
                                  !.timer = timer] \in Form
      BY <2>3, <3>1, CacheToken DEF Form
    <3>2. forms' \in Seq(Form) /\ Len(forms') = Len(forms)
      BY <2>3, <3>1, SetsTyped
    <3>3. CASE ShowsHome(Heard \ {<<"guard", 0>>})
      BY <2>1, <3>2, <3>3, ShowsHomeTyped DEF ShowsHome, MessageTypes, TabTypes
    <3>4. CASE asked' = Heard /\ UNCHANGED <<wire, page>>
      BY <2>1, <3>2, <3>4 DEF MessageTypes, TabTypes
    <3> QED
      BY <2>3, <3>3, <3>4
  <2>4. CASE Answer.is # "ok"
    BY <1>4, <2>2, <2>4 DEF OnExists
  <2>5. CASE Answer.is = "ok"
    <3> DEFINE by == IF cache.token # None THEN "token" ELSE IF forms[Answer.form].link THEN "link" ELSE ""
               name == IF cache.kept THEN "given" ELSE ""
               timer == IF by = "token" THEN "on" ELSE "off"
    <3>1. by \in {"", "token", "link"} /\ name \in {"", "given"} /\ timer \in {"on", "off"}
      OBVIOUS
    <3>2. Sets(Answer.form,
               [forms[Answer.form] EXCEPT !.link = FALSE, !.by = by, !.token = cache.token,
                                          !.old = cache.kept, !.enabled = TRUE, !.name = name,
                                          !.timer = timer])
      BY <1>4, <2>5 DEF OnExists
    <3>3. ShowsHome(Heard \ {<<"guard", 0>>}) \/ (asked' = Heard /\ UNCHANGED <<wire, page>>)
      BY <1>4, <2>5 DEF OnExists
    <3> HIDE DEF by, name, timer
    <3> QED
      BY <2>3, <3>1, <3>2, <3>3
  <2> QED
    BY <2>4, <2>5
<1>5. CASE OnValid
  <2>1. replies' \in Seq(Reply) /\ Heard \in SUBSET Asked
    BY <1>5, HeardTyped DEF OnValid
  <2>2. PICK name \in {"free", "taken"} :
          Sets(Answer.form, [forms[Answer.form] EXCEPT !.name = name])
    BY <1>5 DEF OnValid
  <2>3. Answer.form \in DOMAIN forms => [forms[Answer.form] EXCEPT !.name = name] \in Form
    BY CacheToken DEF Form
  <2>4. forms' \in Seq(Form) /\ Len(forms') = Len(forms)
    BY <2>2, <2>3, SetsTyped
  <2>5. cache' \in Entry \cup {NoEntry} /\ stored' = stored
    <3>1. CASE UNCHANGED cacheVars
      BY <3>1 DEF cacheVars, TabTypes
    <3>2. CASE cache.kept /\ ForgetsToken
      <4>1. cache \in Entry
        BY <3>2 DEF TabTypes, NoEntry
      <4>2. [cache EXCEPT !.token = None] \in Entry
        BY <4>1 DEF Entry
      <4> QED
        BY <3>2, <4>2 DEF ForgetsToken
    <3> QED
      BY <1>5, <3>1, <3>2 DEF OnValid
  <2> QED
    BY <1>5, <2>1, <2>4, <2>5 DEF OnValid, MessageTypes, TabTypes
<1>6. CASE OnJoined
  <2>1. Answer.token \in {None} \cup Tokens /\ replies' \in Seq(Reply) /\ Heard \in SUBSET Asked
    BY <1>6, HeardTyped DEF OnJoined
  <2>2. /\ cache' \in Entry \cup {NoEntry} /\ stored' \in Entry \cup {NoEntry}
        /\ cache'.token = Answer.token
    BY <1>6, <2>1, CacheToken, SavesTyped DEF OnJoined, Joined
  <2>3. wire' \in Seq(Request) /\ asked' \subseteq Asked
    <3>1. CASE asked' = Heard /\ UNCHANGED wire
      BY <2>1, <3>1 DEF MessageTypes
    <3>2. CASE Asks("guard", 0, cache'.token) /\ asked' = Heard \cup {<<"guard", 0>>}
      <4>1. Asks("guard", 0, Answer.token)
        BY <2>2, <3>2
      <4> QED
        BY <2>1, <3>2, <4>1, NoneTyped, AsksTyped DEF Kinds
    <3> QED
      BY <1>6, <3>1, <3>2 DEF OnJoined
  <2> QED
    BY <1>6, <2>1, <2>2, <2>3 DEF OnJoined, pageVars, MessageTypes, TabTypes
<1>7. CASE OnJoinRefused
  <2>1. replies' \in Seq(Reply) /\ Heard \in SUBSET Asked
    BY <1>7, HeardTyped DEF OnJoinRefused
  <2>2. Answer.form \in DOMAIN forms =>
          [forms[Answer.form] EXCEPT !.enabled = TRUE, !.name = "unchecked"] \in Form
    BY CacheToken DEF Form
  <2>3. forms' \in Seq(Form) /\ Len(forms') = Len(forms)
    BY <1>7, <2>2, SetsTyped DEF OnJoinRefused
  <2> QED
    BY <1>7, <2>1, <2>3 DEF OnJoinRefused, cacheVars, MessageTypes, TabTypes
<1>8. CASE HearsLate
  <2>1. replies' \in Seq(Reply)
    BY <1>8, Shorter DEF HearsLate, MessageTypes
  <2> QED
    BY <1>8, <2>1 DEF HearsLate, cacheVars, pageVars, MessageTypes, TabTypes
<1> QED
  BY <1>1, <1>2, <1>3, <1>4, <1>5, <1>6, <1>7, <1>8 DEF HearStep

LEMMA LeaveStepTyped ==
  ASSUME MessageTypes, TabTypes, LeaveStep
  PROVE  MessageTypes' /\ TabTypes'
<1>1. CASE LeaveJoin
  <2>1. Unguarded \in SUBSET Asked
    BY DEF Unguarded, MessageTypes
  <2> QED
    BY <1>1, <2>1, ShowsHomeTyped
    DEF LeaveJoin, ShowsHome, cacheVars, MessageTypes, TabTypes
<1>2. CASE reconnect \/ Reload
  <2>1. NewSocket
    BY <1>2 DEF reconnect, Reload
  <2>2. missed' \in BOOLEAN
    BY <2>1, Zenon DEF NewSocket
  <2>3. MessageTypes' /\ page' = "home"
    BY <2>1 DEF NewSocket, MessageTypes
  <2>4. Loaded \in Entry \cup {NoEntry}
    BY DEF Loaded, TabTypes
  <2>5. CASE reconnect
    BY <2>2, <2>3, <2>5 DEF reconnect, cacheVars, TabTypes
  <2>6. CASE Reload
    <3>1. forms' = <<>> /\ cache' = Loaded /\ stored' = Loaded
      BY <2>6 DEF Reload
    <3>2. forms' \in Seq(Form) /\ Len(forms') <= MaxForms
      BY <3>1, JoinBoundsAssumption
    <3> QED
      BY <2>2, <2>3, <2>4, <3>1, <3>2 DEF TabTypes
  <2> QED
    BY <1>2, <2>3, <2>5, <2>6
<1>3. ASSUME NEW prevent \in BOOLEAN, LeaveRoom(prevent)
      PROVE  MessageTypes' /\ TabTypes'
  <2> DEFINE leave == [kind |-> "leave", form |-> 0, token |-> None]
             check == [kind |-> "cached", form |-> 0, token |-> None]
  <2>1. leave \in Request /\ check \in Request /\ <<"cached", 0>> \in Asked
    BY NoneTyped DEF Request, Kinds, Asked
  <2>2. wire' = wire \o <<leave, check>>
    BY <1>3 DEF LeaveRoom
  <2> HIDE DEF leave, check
  <2>3. wire' \in Seq(Request)
    BY <2>1, <2>2 DEF MessageTypes
  <2>4. cache' \in Entry \cup {NoEntry} /\ stored' \in Entry \cup {NoEntry}
    <3>1. CASE UNCHANGED cacheVars
      BY <3>1 DEF cacheVars, TabTypes
    <3>2. CASE Saves([cache EXCEPT !.prompt = prevent])
      <4>1. cache \in Entry
        BY <1>3 DEF LeaveRoom, TabTypes, NoEntry
      <4>2. [cache EXCEPT !.prompt = prevent] \in Entry
        BY <4>1 DEF Entry
      <4> QED
        BY <3>2, <4>2 DEF Saves, cacheVars, TabTypes
    <3> QED
      BY <1>3, <3>1, <3>2 DEF LeaveRoom
  <2> QED
    BY <1>3, <2>1, <2>3, <2>4 DEF LeaveRoom, Pends, MessageTypes, TabTypes
<1> QED
  BY <1>1, <1>2, <1>3 DEF LeaveStep

LEMMA TimeoutTyped ==
  ASSUME MessageTypes, TabTypes, NEW kind, NEW f, Timeout(kind, f)
  PROVE  MessageTypes' /\ TabTypes'
<1>1. asked \ {<<kind, f>>} \in SUBSET Asked
  BY DEF MessageTypes
<1>2. missed' \in BOOLEAN
  BY Zenon DEF Timeout
<1>3. CASE ShowsHome(asked \ {<<kind, f>>})
  BY <1>1, <1>2, <1>3, ShowsHomeTyped DEF Timeout, ShowsHome, cacheVars, MessageTypes, TabTypes
<1>4. CASE asked' = asked \ {<<kind, f>>} /\ UNCHANGED <<wire, page>>
  BY <1>1, <1>2, <1>4 DEF Timeout, cacheVars, MessageTypes, TabTypes
<1> QED
  BY <1>3, <1>4 DEF Timeout

LEMMA TabTyped ==
  ASSUME ServerTypes, MessageTypes, TabTypes, [Next]_joinVars
  PROVE  MessageTypes' /\ TabTypes'
<1>1. CASE Serve
  BY <1>1, ServeTyped DEF Serve, cacheVars, pageVars, TabTypes
<1>2. CASE Lapse \/ cleanExpiredRoomMemory \/ cleanupUser \/ cleanEmptyRooms \/ UNCHANGED joinVars
  <2>1. UNCHANGED <<wire, replies, asked, cacheVars, pageVars, missed>>
    BY <1>2 DEF Lapse, cleanExpiredRoomMemory, cleanupUser, cleanEmptyRooms, joinVars
  <2> QED
    BY <2>1 DEF cacheVars, pageVars, MessageTypes, TabTypes
<1> QED
  BY <1>1, <1>2, HomeStepTyped, JoinStepTyped, HearStepTyped, LeaveStepTyped, TimeoutTyped
  DEF Next, ServerStep

-----------------------------------------------------------------------------
(* Join pages *)

\* A page that waits to hear of its room has not joined it, and one that waits
\* for its join has its form disabled.
ExistsFresh ==
  \A f \in 0 .. MaxForms : <<"exists", f>> \in asked =>
    /\ f \in DOMAIN forms /\ forms[f].by = "" /\ forms[f].timer = "off"
    /\ <<"join", f>> \notin asked
JoinDisabled ==
  \A f \in 0 .. MaxForms : <<"join", f>> \in asked => f \in DOMAIN forms /\ ~forms[f].enabled
PageHasForm == page = "join" => forms # <<>>
FormsInv == ExistsFresh /\ JoinDisabled

\* Steps that ask for nothing of the kind.
LEMMA FormsQuiet ==
  ASSUME FormsInv, DOMAIN forms' = DOMAIN forms,
         \A f \in 0 .. MaxForms : /\ <<"exists", f>> \in asked' => <<"exists", f>> \in asked
                                  /\ <<"join", f>> \in asked' => <<"join", f>> \in asked,
         \A f \in DOMAIN forms :
           \/ forms'[f] = forms[f]
           \/ /\ forms'[f].by = forms[f].by
              /\ forms'[f].timer = forms[f].timer \/ forms[f].timer = "on"
              /\ forms'[f].enabled = forms[f].enabled \/ <<"join", f>> \notin asked'
           \/ <<"exists", f>> \notin asked' /\ <<"join", f>> \notin asked'
  PROVE  FormsInv'
BY DEF FormsInv, ExistsFresh, JoinDisabled

\* The join page is shown: its form is new.
LEMMA FormsLonger ==
  ASSUME FormsInv, TabTypes, NEW link \in BOOLEAN, NEW pending \in SUBSET asked,
         ShowsJoin(link, pending)
  PROVE  FormsInv'
<1> DEFINE g == Len(forms) + 1
<1>1. /\ NewForm(link) \in Form /\ NewForm(link).by = "" /\ NewForm(link).timer = "off"
      /\ ~NewForm(link).enabled
  BY DEF NewForm, Form
<1>2. forms' = Append(forms, NewForm(link)) /\ asked' = pending \cup {<<"exists", g>>}
  BY DEF ShowsJoin
<1>3. /\ g \notin DOMAIN forms /\ DOMAIN forms' = DOMAIN forms \cup {g}
      /\ forms'[g] = NewForm(link) /\ \A f \in DOMAIN forms : forms'[f] = forms[f]
  <2>1. forms \in Seq(Form) /\ DOMAIN forms = 1 .. Len(forms) /\ Len(forms) \in Nat
    BY DEF TabTypes
  <2>2. DOMAIN forms' = 1 .. Len(forms) + 1 /\ forms'[g] = NewForm(link)
        /\ \A f \in 1 .. Len(forms) : forms'[f] = forms[f]
    <3>1. ASSUME NEW form \in Form
          PROVE  /\ DOMAIN Append(forms, form) = 1 .. Len(forms) + 1
                 /\ Append(forms, form)[g] = form
                 /\ \A f \in 1 .. Len(forms) : Append(forms, form)[f] = forms[f]
      BY <2>1
    <3> QED
      BY <1>1, <1>2, <3>1
  <2> QED
    BY <2>1, <2>2
<1>4. \A f \in 0 .. MaxForms : <<"join", f>> \in asked' => <<"join", f>> \in asked
  BY <1>2
<1>5. \A f \in 0 .. MaxForms : <<"exists", f>> \in asked' => <<"exists", f>> \in asked \/ f = g
  BY <1>2
<1> HIDE DEF g
<1> QED
  BY <1>1, <1>3, <1>4, <1>5 DEF FormsInv, ExistsFresh, JoinDisabled

\* Which of the requests that matter to the forms a step leaves pending.
NoNewForms(pending) ==
  \A f \in 0 .. MaxForms : /\ <<"exists", f>> \in asked' => <<"exists", f>> \in pending
                           /\ <<"join", f>> \in asked' => <<"join", f>> \in pending
LEMMA ShowsHomeForms ==
  ASSUME NEW pending, ShowsHome(pending)
  PROVE  NoNewForms(pending)
BY DEF ShowsHome, NoNewForms

LEMMA SetForms ==
  ASSUME FormsInv, TabTypes, NEW f, NEW form, Sets(f, form), NoNewForms(asked),
         f \in DOMAIN forms =>
           /\ form \in Form
           /\ \/ /\ form.by = forms[f].by
                 /\ form.timer = forms[f].timer \/ forms[f].timer = "on"
                 /\ form.enabled = forms[f].enabled \/ <<"join", f>> \notin asked'
              \/ <<"exists", f>> \notin asked' /\ <<"join", f>> \notin asked'
  PROVE  FormsInv'
<1>1. /\ DOMAIN forms' = DOMAIN forms
      /\ \A g \in DOMAIN forms : forms'[g] = IF g = f THEN form ELSE forms[g]
  BY SetsTyped
<1> QED
  BY <1>1, FormsQuiet DEF NoNewForms

\* A request to join is sent, from an enabled form whose page has heard of its room.
LEMMA SendForms ==
  ASSUME FormsInv, TabTypes, NEW f \in DOMAIN forms, NEW form \in Form, Sets(f, form),
         asked' = asked \cup {<<"join", f>>}, ~form.enabled,
         forms[f].by # "" \/ forms[f].timer # "off"
  PROVE  FormsInv'
<1>1. /\ DOMAIN forms' = DOMAIN forms
      /\ \A g \in DOMAIN forms : forms'[g] = IF g = f THEN form ELSE forms[g]
  BY SetsTyped
<1>2. <<"exists", f>> \notin asked
  BY CacheToken DEF FormsInv, ExistsFresh
<1>3. \A g : <<"exists", g>> \in asked' => <<"exists", g>> \in asked
  OBVIOUS
<1>4. \A g : <<"join", g>> \in asked' => <<"join", g>> \in asked \/ g = f
  OBVIOUS
<1>5. ExistsFresh'
  BY <1>1, <1>2, <1>3, <1>4 DEF FormsInv, ExistsFresh
<1>6. JoinDisabled'
  BY <1>1, <1>4 DEF FormsInv, JoinDisabled
<1> QED
  BY <1>5, <1>6 DEF FormsInv

LEMMA FormsSame ==
  ASSUME FormsInv, UNCHANGED forms, NoNewForms(asked)
  PROVE  FormsInv'
BY FormsQuiet DEF NoNewForms

LEMMA FormsJoinStep ==
  ASSUME FormsInv, MessageTypes, TabTypes, PageHasForm, JoinStep
  PROVE  FormsInv'
<1>1. /\ page = "join" => Len(forms) \in DOMAIN forms
      /\ \A f \in DOMAIN forms : forms[f] \in Form
  BY CacheToken DEF PageHasForm, TabTypes
<1>2. CASE Types
  <2>1. NoNewForms(asked)
    BY <1>2 DEF Types, NoNewForms
  <2>2. Len(forms) \in DOMAIN forms =>
          /\ [Current EXCEPT !.name = "given"] \in Form
          /\ [Current EXCEPT !.name = "given"].by = Current.by
          /\ [Current EXCEPT !.name = "given"].timer = Current.timer
          /\ [Current EXCEPT !.name = "given"].enabled = Current.enabled
    BY <1>1 DEF Current, Last, Form
  <2> QED
    BY <1>2, <2>1, <2>2, SetForms DEF Types, Current, Last
<1>3. CASE onJoinRoom
  <2>1. Len(forms) \in DOMAIN forms /\ Current \in Form /\ Current.by = "link"
    BY <1>1, <1>3 DEF onJoinRoom, Current, Last
  <2>2. [Current EXCEPT !.enabled = FALSE] \in Form /\ ~[Current EXCEPT !.enabled = FALSE].enabled
    BY <2>1 DEF Form
  <2> QED
    BY <1>3, <2>1, <2>2, SendForms DEF onJoinRoom, Pends, Current, Last
<1>4. ASSUME NEW f \in DOMAIN forms, Validates(f)
      PROVE  FormsInv'
  <2>1. NoNewForms(asked)
    BY <1>4 DEF Validates, Pends, NoNewForms
  <2>2. /\ [forms[f] EXCEPT !.name = "asked"] \in Form
        /\ [forms[f] EXCEPT !.name = "asked"].by = forms[f].by
        /\ [forms[f] EXCEPT !.name = "asked"].timer = forms[f].timer
        /\ [forms[f] EXCEPT !.name = "asked"].enabled = forms[f].enabled
    BY <1>1 DEF Form
  <2> QED
    BY <1>4, <2>1, <2>2, SetForms DEF Validates
<1>5. ASSUME NEW f \in DOMAIN forms, TimerFires(f)
      PROVE  FormsInv'
  <2> DEFINE sent == [forms[f] EXCEPT !.timer = "done", !.enabled = FALSE]
             over == [forms[f] EXCEPT !.timer = "done"]
  <2>1. /\ sent \in Form /\ ~sent.enabled /\ over \in Form
        /\ over.by = forms[f].by /\ over.enabled = forms[f].enabled /\ forms[f].timer = "on"
    BY <1>1, <1>5 DEF Form, TimerFires
  <2>2. CASE forms[f].name = "free"
    <3>1. Sets(f, sent) /\ asked' = asked \cup {<<"join", f>>}
      BY <1>5, <2>2 DEF TimerFires, Pends
    <3> HIDE DEF sent, over
    <3> QED
      BY <2>1, <3>1, SendForms
  <2>3. CASE forms[f].name # "free"
    <3>1. Sets(f, over) /\ NoNewForms(asked)
      BY <1>5, <2>3 DEF TimerFires, NoNewForms
    <3> HIDE DEF sent, over
    <3> QED
      BY <2>1, <3>1, SetForms
  <2> QED
    BY <2>2, <2>3
<1> QED
  BY <1>2, <1>3, <1>4, <1>5 DEF JoinStep

LEMMA FormsHearStep ==
  ASSUME FormsInv, MessageTypes, TabTypes, HearStep
  PROVE  FormsInv'
<1>1. \A f \in DOMAIN forms : forms[f] \in Form
  BY CacheToken
<1>2. Heard \subseteq asked /\ <<Answer.kind, Answer.form>> \notin Heard
  BY DEF Heard
<1>3. ASSUME ShowsHome(Heard) \/ ShowsHome(Heard \ {<<"guard", 0>>})
      PROVE  NoNewForms(Heard)
  BY <1>3 DEF ShowsHome, NoNewForms
<1>4. NoNewForms(Heard) => NoNewForms(asked)
  BY <1>2 DEF NoNewForms
<1>5. CASE OnCached \/ OnCreated \/ OnJoined \/ HearsLate
  <2>1. NoNewForms(asked)
    BY <1>2, <1>5 DEF OnCached, OnCreated, OnJoined, HearsLate, NoNewForms
  <2>2. UNCHANGED forms
    BY <1>5 DEF OnCached, OnCreated, OnJoined, HearsLate, pageVars
  <2> QED
    BY <2>1, <2>2, FormsSame
<1>6. CASE OnGuard
  <2>1. CASE asked' = Heard /\ UNCHANGED forms
    BY <1>2, <2>1, FormsSame DEF NoNewForms
  <2>2. CASE ShowsHome(Heard) /\ UNCHANGED forms
    BY <1>3, <1>4, <2>2, FormsSame
  <2>3. CASE ShowsJoin(FALSE, Heard)
    BY <1>2, <2>3, FormsLonger
  <2> QED
    BY <1>6, <2>1, <2>2, <2>3, GuardHeard DEF pageVars
<1>7. CASE OnExists
  <2>1. Answer.kind = "exists" /\ Answer.form \in 0 .. MaxForms /\ <<"exists", Answer.form>> \in asked
    BY <1>7, HeardTyped DEF OnExists, Hears, Awaited, Answer
  <2>2. NoNewForms(Heard)
    BY <1>3, <1>7 DEF OnExists, NoNewForms
  <2>3. CASE Answer.is # "ok"
    BY <1>4, <1>7, <2>2, <2>3, FormsSame DEF OnExists, pageVars
  <2>4. CASE Answer.is = "ok"
    <3>1. PICK form : Sets(Answer.form, form)
      BY <1>7, <2>4 DEF OnExists
    <3>2. \A g \in DOMAIN forms : g = Answer.form \/ forms'[g] = forms[g]
      BY <3>1 DEF Sets
    <3>3. DOMAIN forms' = DOMAIN forms
      BY <3>1 DEF Sets
    <3>4. <<"exists", Answer.form>> \notin asked' /\ <<"join", Answer.form>> \notin asked'
      BY <1>2, <2>1, <2>2 DEF NoNewForms, FormsInv, ExistsFresh
    <3> QED
      BY <1>4, <2>2, <3>2, <3>3, <3>4, FormsQuiet DEF NoNewForms
  <2> QED
    BY <2>3, <2>4
<1>8. CASE OnValid
  <2>1. PICK name \in {"free", "taken"} :
          Sets(Answer.form, [forms[Answer.form] EXCEPT !.name = name])
    BY <1>8 DEF OnValid
  <2> DEFINE form == [forms[Answer.form] EXCEPT !.name = name]
  <2>2. Answer.form \in DOMAIN forms =>
          /\ form \in Form /\ form.by = forms[Answer.form].by
          /\ form.timer = forms[Answer.form].timer /\ form.enabled = forms[Answer.form].enabled
    BY <1>1 DEF Form
  <2>3. NoNewForms(asked)
    BY <1>2, <1>8 DEF OnValid, NoNewForms
  <2> HIDE DEF form
  <2>4. Sets(Answer.form, form)
    BY <2>1 DEF form
  <2> QED
    BY <2>2, <2>3, <2>4, SetForms
<1>9. CASE OnJoinRefused
  <2> DEFINE form == [forms[Answer.form] EXCEPT !.enabled = TRUE, !.name = "unchecked"]
  <2>1. Answer.form \in DOMAIN forms =>
          /\ form \in Form /\ form.by = forms[Answer.form].by
          /\ form.timer = forms[Answer.form].timer
    BY <1>1 DEF Form
  <2>2. Answer.kind = "join" /\ asked' = Heard
    BY <1>9 DEF OnJoinRefused, Hears, Answer
  <2>3. NoNewForms(asked) /\ <<"join", Answer.form>> \notin asked'
    BY <1>2, <2>2 DEF NoNewForms
  <2>4. Sets(Answer.form, form)
    BY <1>9 DEF OnJoinRefused
  <2> HIDE DEF form
  <2> QED
    BY <2>1, <2>3, <2>4, SetForms
<1> QED
  BY <1>5, <1>6, <1>7, <1>8, <1>9 DEF HearStep

LEMMA FormsInductive ==
  ASSUME FormsInv, MessageTypes, TabTypes, PageHasForm, [Next]_joinVars
  PROVE  FormsInv'
<1>1. CASE ServerStep \/ UNCHANGED joinVars
  <2>1. UNCHANGED <<asked, forms>>
    BY <1>1 DEF ServerStep, Serve, Lapse, cleanExpiredRoomMemory, cleanupUser, cleanEmptyRooms,
                joinVars, pageVars
  <2> QED
    BY <2>1, FormsSame DEF NoNewForms
<1>2. CASE onCreateRoom \/ onClearCachedRooms \/ OpenRoom
  <2>1. NoNewForms(asked) /\ UNCHANGED forms
    BY <1>2 DEF onCreateRoom, onClearCachedRooms, OpenRoom, Pends, NoNewForms, pageVars
  <2> QED
    BY <2>1, FormsSame
<1>3. ASSUME NEW link \in BOOLEAN, OpenJoin(link)
      PROVE  FormsInv'
  <2>1. Unguarded \in SUBSET asked
    BY DEF Unguarded
  <2> QED
    BY <1>3, <2>1, FormsLonger DEF OpenJoin
<1>4. CASE LeaveJoin
  <2>1. NoNewForms(Unguarded)
    BY <1>4, ShowsHomeForms DEF LeaveJoin
  <2> QED
    BY <1>4, <2>1, FormsSame DEF LeaveJoin, Unguarded, NoNewForms
<1>5. CASE reconnect \/ Reload
  <2>1. asked' = {}
    BY <1>5 DEF reconnect, Reload, NewSocket
  <2> QED
    BY <2>1 DEF FormsInv, ExistsFresh, JoinDisabled
<1>6. ASSUME NEW prevent \in BOOLEAN, LeaveRoom(prevent)
      PROVE  FormsInv'
  BY <1>6, FormsSame DEF LeaveRoom, Pends, NoNewForms
<1>7. ASSUME NEW kind, NEW f, Timeout(kind, f)
      PROVE  FormsInv'
  <2>1. CASE ShowsHome(asked \ {<<kind, f>>})
    BY <1>7, <2>1, ShowsHomeForms, FormsSame DEF Timeout, NoNewForms
  <2>2. CASE asked' = asked \ {<<kind, f>>}
    BY <1>7, <2>2, FormsSame DEF Timeout, NoNewForms
  <2> QED
    BY <1>7, <2>1, <2>2 DEF Timeout
<1> QED
  BY <1>1, <1>2, <1>3, <1>4, <1>5, <1>6, <1>7, FormsJoinStep, FormsHearStep
  DEF Next, HomeStep, LeaveStep

LEMMA PageKeepsForm ==
  ASSUME TabTypes, PageHasForm, [Next]_joinVars
  PROVE  PageHasForm'
<1>1. ASSUME NEW link \in BOOLEAN, NEW pending, ShowsJoin(link, pending)
      PROVE  PageHasForm'
  <2>1. NewForm(link) \in Form
    BY DEF NewForm, Form
  <2> QED
    BY <1>1, <2>1 DEF ShowsJoin, TabTypes, PageHasForm
<1>2. ASSUME NEW f, NEW form, Sets(f, form), page' \in {page, "home"}
      PROVE  PageHasForm'
  <2>1. DOMAIN forms' = DOMAIN forms
    BY <1>2 DEF Sets
  <2>2. forms # <<>> => forms' # <<>>
    BY <2>1 DEF TabTypes
  <2> QED
    BY <1>2, <2>2 DEF PageHasForm
<1>3. CASE OnGuard
  BY <1>1, <1>3, GuardHeard DEF ShowsHome, pageVars, PageHasForm
<1>4. CASE OnExists
  BY <1>2, <1>4 DEF OnExists, ShowsHome, pageVars, PageHasForm
<1>5. CASE OnValid \/ OnJoinRefused
  BY <1>2, <1>5 DEF OnValid, OnJoinRefused
<1>6. CASE OnCached \/ OnCreated \/ OnJoined \/ HearsLate
  BY <1>6 DEF OnCached, OnCreated, OnJoined, HearsLate, pageVars, PageHasForm
<1>7. CASE JoinStep
  BY <1>2, <1>7 DEF JoinStep, Types, onJoinRoom, Validates, TimerFires
<1>8. CASE HomeStep
  BY <1>1, <1>8 DEF HomeStep, onCreateRoom, onClearCachedRooms, OpenRoom, OpenJoin, pageVars,
                    PageHasForm
<1>9. CASE LeaveStep
  BY <1>9 DEF LeaveStep, LeaveJoin, reconnect, Reload, NewSocket, LeaveRoom, ShowsHome, PageHasForm
<1>10. CASE (\E a \in asked : Timeout(a[1], a[2])) \/ ServerStep \/ UNCHANGED joinVars
  BY <1>10 DEF Timeout, ShowsHome, ServerStep, Serve, Lapse, cleanExpiredRoomMemory, cleanupUser,
               cleanEmptyRooms, joinVars, pageVars, PageHasForm
<1> QED
  BY <1>3, <1>4, <1>5, <1>6, <1>7, <1>8, <1>9, <1>10 DEF Next, HearStep

TypesInv == ServerTypes /\ MessageTypes /\ TabTypes /\ PageHasForm /\ FormsInv

LEMMA TypesInvariant == Spec => []TypesInv
<1>1. Init => TypesInv
  <2> SUFFICES ASSUME Init
               PROVE  TypesInv
    OBVIOUS
  <2>1. ServerTypes
    BY JoinBoundsAssumption DEF Init, ServerTypes, None
  <2>2. MessageTypes
    BY DEF Init, MessageTypes
  <2>3. TabTypes
    <3>1. forms = <<>> /\ <<>> \in Seq(Form) /\ Len(<<>>) = 0 /\ 0 <= MaxForms
      BY JoinBoundsAssumption DEF Init
    <3>2. missed \in BOOLEAN /\ page \in {"home", "join", "room"}
      BY DEF Init
    <3>3. cache \in Entry \cup {NoEntry} /\ stored \in Entry \cup {NoEntry}
      BY DEF Init
    <3> QED
      BY <3>1, <3>2, <3>3 DEF TabTypes
  <2>4. PageHasForm /\ FormsInv
    BY DEF Init, PageHasForm, FormsInv, ExistsFresh, JoinDisabled
  <2> QED
    BY <2>1, <2>2, <2>3, <2>4 DEF TypesInv
<1>2. TypesInv /\ [Next]_joinVars => TypesInv'
  BY ServerTyped, TabTyped, PageKeepsForm, FormsInductive DEF TypesInv
<1>3. QED
  BY <1>1, <1>2, PTL DEF Spec

\* No variable leaves its type, and while the reply to a join is awaited the
\* form it was sent from is disabled, whatever other join pages are left behind
\* (JoinRoomComponent's onJoinRoom, its timer and its catchError).
THEOREM JoinTypeCorrect == Spec => []JoinTypeOK
<1>1. TypesInv => JoinTypeOK
  <2> SUFFICES ASSUME TypesInv
               PROVE  JoinTypeOK
    OBVIOUS
  <2>1. \A f \in DOMAIN forms : <<"join", f>> \in asked => ~forms[f].enabled
    BY CacheToken DEF TypesInv, FormsInv, JoinDisabled
  <2> QED
    BY <2>1 DEF TypesInv, ServerTypes, MessageTypes, TabTypes, JoinTypeOK
<1>2. QED
  BY <1>1, TypesInvariant, PTL

-----------------------------------------------------------------------------
(* Requests and replies under way *)

Same(a, b) == a.kind = b.kind /\ a.form = b.form
WireOnce == \A k, l \in DOMAIN wire : Same(wire[k], wire[l]) => k = l
RepliesOnce == \A k, l \in DOMAIN replies : Same(replies[k], replies[l]) => k = l
RepliesApart == \A k \in DOMAIN wire, l \in DOMAIN replies : ~Same(wire[k], replies[l])
\* What is asked for no form, and what the server never replies.
WirePlaced == \A k \in DOMAIN wire : wire[k].kind \in {"create", "guard", "leave"} => wire[k].form = 0
RepliesPlaced ==
  \A k \in DOMAIN replies :
    /\ replies[k].kind \in {"create", "guard"} => replies[k].form = 0
    /\ replies[k].kind = "create" => replies[k].is = "ok"
    /\ replies[k].kind # "leave"
\* No request is under way twice: neither it nor its reply.
OnceInv == WireOnce /\ RepliesOnce /\ RepliesApart /\ WirePlaced /\ RepliesPlaced

LEMMA UnderWayPlaces ==
  ASSUME NEW kind, NEW f, ~UnderWay(kind, f)
  PROVE  /\ \A k \in DOMAIN wire : ~(wire[k].kind = kind /\ wire[k].form = f)
         /\ \A k \in DOMAIN replies : ~(replies[k].kind = kind /\ replies[k].form = f)
BY DEF UnderWay, Range

\* What a step of the tab does to the queues, but for leaving and for a new socket.
Fits(kind, f) ==
  /\ kind \in {"create", "guard"} => f = 0
  /\ kind # "leave"
  /\ kind = "create" => room = "none"
  /\ kind = "guard" => page' # "room" \/ OnCreated
AsksOne ==
  \E kind \in Kinds : \E f \in 0 .. MaxForms : \E token \in {None} \cup Tokens :
    Asks(kind, f, token) /\ Fits(kind, f)
TabQueues ==
  /\ wire' = wire \/ AsksOne
  /\ replies' = replies \/ (replies # <<>> /\ replies' = Tail(replies))
  /\ page' \in {page, "home", "join"} \/ (page' = "room" /\ OnGuard /\ Answer.is = "ok")

LEMMA AsksIsOne ==
  ASSUME NEW kind \in Kinds, NEW f \in 0 .. MaxForms, NEW token \in {None} \cup Tokens,
         Asks(kind, f, token), Fits(kind, f)
  PROVE  AsksOne
BY DEF AsksOne

LEMMA ShowsHomeAsks ==
  ASSUME NEW pending, ShowsHome(pending)
  PROVE  (wire' = wire \/ AsksOne) /\ page' = "home"
BY NoneTyped, AsksIsOne DEF ShowsHome, Kinds, Fits

LEMMA ShowsJoinAsks ==
  ASSUME TabTypes, NEW link, NEW pending, ShowsJoin(link, pending)
  PROVE  AsksOne /\ page' = "join"
<1>1. "exists" \in Kinds /\ Len(forms) + 1 \in 0 .. MaxForms
  BY CacheToken DEF Kinds, ShowsJoin
<1> QED
  BY <1>1, NoneTyped, AsksIsOne DEF ShowsJoin, Fits

LEMMA TabStepQueues ==
  ASSUME TypesInv, [Next]_joinVars
  PROVE  \/ TabQueues /\ UNCHANGED serverVars
         \/ Lapse \/ cleanExpiredRoomMemory \/ cleanupUser \/ cleanEmptyRooms
         \/ Serve
         \/ \E prevent \in BOOLEAN : LeaveRoom(prevent)
         \/ reconnect \/ Reload
<1>1. TabTypes /\ MessageTypes
  BY DEF TypesInv
<1>2. cache.token \in {None} \cup Tokens /\ \A f \in DOMAIN forms : f \in 0 .. MaxForms
      /\ forms[f].token \in {None} \cup Tokens
  BY <1>1, CacheToken DEF Form
<1>3. {"create", "cached", "exists", "valid", "join", "guard", "leave"} = Kinds
  BY DEF Kinds
<1>4. ASSUME HomeStep
      PROVE  TabQueues /\ UNCHANGED serverVars
  <2>1. UNCHANGED <<serverVars, replies>>
    BY <1>4 DEF HomeStep, onCreateRoom, onClearCachedRooms, OpenRoom, OpenJoin
  <2>2. CASE onCreateRoom
    BY <1>3, <2>1, <2>2, NoneTyped, AsksIsOne DEF onCreateRoom, Fits, TabQueues, pageVars
  <2>3. CASE onClearCachedRooms
    BY <2>1, <2>3 DEF onClearCachedRooms, TabQueues, pageVars
  <2>4. CASE OpenRoom
    BY <1>2, <1>3, <2>1, <2>4, NoneTyped, AsksIsOne DEF OpenRoom, Fits, TabQueues, pageVars
  <2>5. CASE \E link \in BOOLEAN : OpenJoin(link)
    BY <1>1, <2>1, <2>5, ShowsJoinAsks DEF OpenJoin, TabQueues
  <2> QED
    BY <1>4, <2>2, <2>3, <2>4, <2>5, <2>1 DEF HomeStep
<1>5. ASSUME JoinStep
      PROVE  TabQueues /\ UNCHANGED serverVars
  <2>1. UNCHANGED <<serverVars, replies, page>>
    BY <1>5 DEF JoinStep, Types, onJoinRoom, Validates, TimerFires
  <2>2. CASE onJoinRoom
    <3>1. Len(forms) \in 0 .. MaxForms
      BY <1>1, CacheToken DEF TabTypes
    <3> QED
      BY <1>3, <2>1, <2>2, <3>1, NoneTyped, AsksIsOne DEF onJoinRoom, Fits, TabQueues
  <2>3. CASE Types
    BY <2>1, <2>3 DEF Types, TabQueues
  <2>4. CASE \E f \in DOMAIN forms : Validates(f) \/ TimerFires(f)
    <3>1. wire' = wire \/ AsksOne
      BY <1>2, <1>3, <2>4, AsksIsOne DEF Validates, TimerFires, Fits
    <3> QED
      BY <2>1, <3>1 DEF TabQueues
  <2> QED
    BY <1>5, <2>1, <2>2, <2>3, <2>4 DEF JoinStep
<1>6. ASSUME HearStep
      PROVE  TabQueues /\ UNCHANGED serverVars
  <2>1. replies # <<>> /\ replies' = Tail(replies) /\ UNCHANGED serverVars
    BY <1>6 DEF HearStep, OnCached, OnCreated, OnGuard, OnExists, OnValid, OnJoined, OnJoinRefused,
                HearsLate, Hears
  <2>2. CASE OnCached \/ OnValid \/ OnJoinRefused \/ HearsLate
    BY <2>1, <2>2 DEF OnCached, OnValid, OnJoinRefused, HearsLate, pageVars, TabQueues
  <2>3. CASE OnCreated
    <3>1. Answer.token \in {None} \cup Tokens
      BY <1>1, <2>3, HeardTyped DEF OnCreated
    <3>2. AsksOne /\ page' = page
      BY <1>3, <2>3, <3>1, NoneTyped, AsksIsOne DEF OnCreated, Fits, pageVars
    <3> QED
      BY <2>1, <3>2 DEF TabQueues
  <2>4. CASE OnGuard
    BY <1>1, <2>1, <2>4, GuardHeard, ShowsHomeAsks, ShowsJoinAsks DEF pageVars, TabQueues
  <2>5. CASE OnExists
    <3>1. wire' = wire \/ AsksOne
      BY <2>5, ShowsHomeAsks DEF OnExists
    <3>2. page' \in {page, "home"}
      BY <2>5, ShowsHomeAsks DEF OnExists, pageVars
    <3> QED
      BY <2>1, <3>1, <3>2 DEF TabQueues
  <2>6. CASE OnJoined
    <3>1. cache'.token \in {None} \cup Tokens
      <4>1. Answer.token \in {None} \cup Tokens
        BY <1>1, <2>6, HeardTyped DEF OnJoined
      <4> QED
        BY <1>1, <2>6, <4>1, CacheToken, SavesTyped DEF OnJoined, Joined
    <3>2. wire' = wire \/ AsksOne
      BY <1>3, <2>6, <3>1, NoneTyped, AsksIsOne DEF OnJoined, Fits, pageVars
    <3> QED
      BY <2>1, <2>6, <3>2 DEF OnJoined, pageVars, TabQueues
  <2> QED
    BY <1>6, <2>1, <2>2, <2>3, <2>4, <2>5, <2>6 DEF HearStep
<1>7. ASSUME LeaveJoin
      PROVE  TabQueues /\ UNCHANGED serverVars
  BY <1>7, ShowsHomeAsks DEF LeaveJoin, TabQueues
<1>8. ASSUME NEW a \in asked, Timeout(a[1], a[2])
      PROVE  TabQueues /\ UNCHANGED serverVars
  BY <1>8, ShowsHomeAsks DEF Timeout, TabQueues
<1>9. ASSUME UNCHANGED joinVars
      PROVE  TabQueues /\ UNCHANGED serverVars
  BY <1>9 DEF joinVars, pageVars, TabQueues
<1> QED
  BY <1>4, <1>5, <1>6, <1>7, <1>8, <1>9 DEF Next, ServerStep, LeaveStep

LEMMA AsksOneMore ==
  ASSUME MessageTypes, NEW kind \in Kinds, NEW f \in 0 .. MaxForms,
         NEW token \in {None} \cup Tokens, Asks(kind, f, token)
  PROVE  /\ \A k \in DOMAIN wire' :
              \/ k \in DOMAIN wire /\ wire'[k] = wire[k]
              \/ /\ k = Len(wire) + 1 /\ wire'[k].kind = kind /\ wire'[k].form = f
                 /\ wire'[k].token = token
         /\ \A k \in DOMAIN wire : ~(wire[k].kind = kind /\ wire[k].form = f) /\ k <= Len(wire)
         /\ \A k \in DOMAIN replies : ~(replies[k].kind = kind /\ replies[k].form = f)
         /\ Len(wire) \in Nat /\ DOMAIN wire = 1 .. Len(wire)
<1> DEFINE m == [kind |-> kind, form |-> f, token |-> token]
<1>1. m \in Request /\ m.kind = kind /\ m.form = f /\ m.token = token
  BY DEF Request
<1>2. wire' = Append(wire, m) /\ ~UnderWay(kind, f)
  BY DEF Asks
<1> HIDE DEF m
<1>3. \A k \in DOMAIN wire' :
        \/ k \in DOMAIN wire /\ wire'[k] = wire[k]
        \/ k = Len(wire) + 1 /\ wire'[k] = m
  BY <1>1, <1>2, Longer DEF MessageTypes
<1> QED
  BY <1>1, <1>2, <1>3, UnderWayPlaces DEF MessageTypes

LEMMA RepliesFewer ==
  ASSUME MessageTypes, replies' = replies \/ (replies # <<>> /\ replies' = Tail(replies))
  PROVE  \E d \in {0, 1} : \A k \in DOMAIN replies' :
           k \in Nat /\ k + d \in DOMAIN replies /\ replies'[k] = replies[k + d]
<1>1. CASE replies' = replies
  <2>1. \A k \in DOMAIN replies' : k \in Nat /\ k + 0 \in DOMAIN replies /\ replies'[k] = replies[k + 0]
    BY <1>1 DEF MessageTypes
  <2> QED
    BY <2>1
<1>2. CASE replies # <<>> /\ replies' = Tail(replies)
  <2>1. \A k \in DOMAIN replies' : k \in Nat /\ k + 1 \in DOMAIN replies /\ replies'[k] = replies[k + 1]
    BY <1>2, Shorter DEF MessageTypes
  <2> QED
    BY <2>1
<1> QED
  BY <1>1, <1>2

LEMMA OnceTab ==
  ASSUME OnceInv, MessageTypes, TabQueues
  PROVE  OnceInv'
<1>1. PICK d \in {0, 1} : \A k \in DOMAIN replies' :
        k \in Nat /\ k + d \in DOMAIN replies /\ replies'[k] = replies[k + d]
  BY RepliesFewer DEF TabQueues
<1>2. RepliesOnce' /\ RepliesPlaced'
  <2>1. RepliesOnce'
    <3> SUFFICES ASSUME NEW k \in DOMAIN replies', NEW l \in DOMAIN replies',
                        Same(replies'[k], replies'[l])
                 PROVE  k = l
      BY DEF RepliesOnce, Same
    <3>1. k + d = l + d
      BY <1>1 DEF OnceInv, RepliesOnce, Same
    <3> QED
      BY <1>1, <3>1
  <2>2. RepliesPlaced'
    BY <1>1 DEF OnceInv, RepliesPlaced
  <2> QED
    BY <2>1, <2>2
<1>3. CASE wire' = wire
  <2>1. RepliesApart'
    BY <1>1, <1>3 DEF OnceInv, RepliesApart, Same
  <2> QED
    BY <1>2, <1>3, <2>1 DEF OnceInv, WireOnce, WirePlaced, Same
<1>4. CASE AsksOne
  <2>1. PICK kind \in Kinds, f \in 0 .. MaxForms, token \in {None} \cup Tokens :
          Asks(kind, f, token) /\ Fits(kind, f)
    BY <1>4 DEF AsksOne
  <2>2. /\ \A k \in DOMAIN wire' :
             \/ k \in DOMAIN wire /\ wire'[k] = wire[k]
             \/ k = Len(wire) + 1 /\ wire'[k].kind = kind /\ wire'[k].form = f
        /\ \A k \in DOMAIN wire : ~(wire[k].kind = kind /\ wire[k].form = f)
        /\ \A k \in DOMAIN replies : ~(replies[k].kind = kind /\ replies[k].form = f)
    BY <2>1, AsksOneMore
  <2>3. WireOnce'
    <3> SUFFICES ASSUME NEW k \in DOMAIN wire', NEW l \in DOMAIN wire', Same(wire'[k], wire'[l])
                 PROVE  k = l
      BY DEF WireOnce, Same
    <3>1. CASE k \in DOMAIN wire /\ wire'[k] = wire[k]
      BY <2>2, <3>1 DEF OnceInv, WireOnce, Same
    <3>2. CASE k = Len(wire) + 1 /\ wire'[k].kind = kind /\ wire'[k].form = f
      BY <2>2, <3>2 DEF Same
    <3> QED
      BY <2>2, <3>1, <3>2
  <2>4. RepliesApart'
    <3> SUFFICES ASSUME NEW k \in DOMAIN wire', NEW l \in DOMAIN replies',
                        Same(wire'[k], replies'[l])
                 PROVE  FALSE
      BY DEF RepliesApart, Same
    <3>1. l + d \in DOMAIN replies /\ replies'[l] = replies[l + d]
      BY <1>1
    <3> QED
      BY <2>2, <3>1 DEF OnceInv, RepliesApart, Same
  <2>5. WirePlaced'
    BY <2>1, <2>2 DEF OnceInv, WirePlaced, Fits
  <2> QED
    BY <1>2, <2>3, <2>4, <2>5 DEF OnceInv
<1> QED
  BY <1>3, <1>4 DEF TabQueues

LEMMA LeavesLast ==
  ASSUME MessageTypes, NEW prevent, LeaveRoom(prevent)
  PROVE  /\ replies' = replies /\ Len(wire) \in Nat /\ DOMAIN wire = 1 .. Len(wire)
         /\ \A k \in DOMAIN wire' :
              \/ k \in DOMAIN wire /\ wire'[k] = wire[k]
              \/ k = Len(wire) + 1 /\ wire'[k].kind = "leave" /\ wire'[k].form = 0 /\ wire'[k].token = None
              \/ k = Len(wire) + 2 /\ wire'[k].kind = "cached" /\ wire'[k].form = 0 /\ wire'[k].token = None
<1> DEFINE n == Len(wire)
           leave == [kind |-> "leave", form |-> 0, token |-> None]
           check == [kind |-> "cached", form |-> 0, token |-> None]
<1>1. /\ wire' = wire \o <<leave, check>> /\ replies' = replies
  BY DEF LeaveRoom
<1>2. n \in Nat /\ DOMAIN wire = 1 .. n
  BY DEF MessageTypes
<1>3. \A k \in DOMAIN wire' :
        \/ k \in DOMAIN wire /\ wire'[k] = wire[k]
        \/ k = n + 1 /\ wire'[k].kind = "leave" /\ wire'[k].form = 0 /\ wire'[k].token = None
        \/ k = n + 2 /\ wire'[k].kind = "cached" /\ wire'[k].form = 0 /\ wire'[k].token = None
  <2>1. leave \in Request /\ check \in Request
    BY NoneTyped DEF Request, Kinds
  <2>2. leave.kind = "leave" /\ leave.form = 0 /\ check.kind = "cached" /\ check.form = 0
        /\ leave.token = None /\ check.token = None
    OBVIOUS
  <2> HIDE DEF leave, check
  <2>3. \A k \in DOMAIN (wire \o <<leave, check>>) :
          \/ k \in DOMAIN wire /\ (wire \o <<leave, check>>)[k] = wire[k]
          \/ k = n + 1 /\ (wire \o <<leave, check>>)[k] = leave
          \/ k = n + 2 /\ (wire \o <<leave, check>>)[k] = check
    BY <2>1 DEF MessageTypes
  <2> QED
    BY <1>1, <2>2, <2>3
<1> QED
  BY <1>1, <1>2, <1>3

LEMMA OnceLeave ==
  ASSUME OnceInv, MessageTypes, NEW prevent, LeaveRoom(prevent)
  PROVE  OnceInv'
<1> DEFINE n == Len(wire)
<1>1. replies' = replies /\ ~UnderWay("leave", 0) /\ ~UnderWay("cached", 0)
  BY DEF LeaveRoom
<1>2. n \in Nat /\ DOMAIN wire = 1 .. n
  BY DEF MessageTypes
<1>3. \A k \in DOMAIN wire' :
        \/ k \in DOMAIN wire /\ wire'[k] = wire[k]
        \/ k = n + 1 /\ wire'[k].kind = "leave" /\ wire'[k].form = 0
        \/ k = n + 2 /\ wire'[k].kind = "cached" /\ wire'[k].form = 0
  BY LeavesLast
<1>4. /\ \A k \in DOMAIN wire : ~(wire[k].kind \in {"leave", "cached"} /\ wire[k].form = 0)
      /\ \A k \in DOMAIN replies : ~(replies[k].kind \in {"leave", "cached"} /\ replies[k].form = 0)
  BY <1>1, UnderWayPlaces
<1> HIDE DEF n
<1>5. WireOnce'
  <2> SUFFICES ASSUME NEW k \in DOMAIN wire', NEW l \in DOMAIN wire', Same(wire'[k], wire'[l])
               PROVE  k = l
    BY DEF WireOnce, Same
  <2>1. CASE k \in DOMAIN wire /\ wire'[k] = wire[k]
    BY <1>3, <1>4, <2>1 DEF OnceInv, WireOnce, Same
  <2>2. CASE k \in {n + 1, n + 2} /\ wire'[k].kind \in {"leave", "cached"} /\ wire'[k].form = 0
    BY <1>3, <1>4, <2>2 DEF Same
  <2> QED
    BY <1>3, <2>1, <2>2
<1>6. RepliesApart'
  <2> SUFFICES ASSUME NEW k \in DOMAIN wire', NEW l \in DOMAIN replies,
                      Same(wire'[k], replies[l])
               PROVE  FALSE
    BY <1>1 DEF RepliesApart, Same
  <2>1. CASE k \in DOMAIN wire /\ wire'[k] = wire[k]
    BY <2>1 DEF OnceInv, RepliesApart, Same
  <2>2. CASE wire'[k].kind \in {"leave", "cached"} /\ wire'[k].form = 0
    BY <1>4, <2>2 DEF Same
  <2> QED
    BY <1>3, <2>1, <2>2
<1>7. WirePlaced'
  BY <1>3 DEF OnceInv, WirePlaced
<1> QED
  BY <1>1, <1>5, <1>6, <1>7 DEF OnceInv, RepliesOnce, RepliesPlaced, Same

\* What the server answers to the first request: its reply, if somebody waits for it.
ReplyTo(m) ==
  \/ replies' = replies
  \/ /\ <<m.kind, m.form>> \in asked /\ m.kind # "leave"
     /\ \E is \in {"ok", "no", "taken", "stranger", "invalid"}, token \in {None} \cup Tokens :
          /\ replies' = Append(replies, [kind |-> m.kind, form |-> m.form, is |-> is, token |-> token])
          /\ m.kind = "create" => is = "ok"
          /\ m.kind \in {"create", "join"} /\ is = "ok" => Grants /\ token = issued'
          /\ m.kind = "guard" /\ is = "ok" => member = "this"

LEMMA ServedReplies ==
  ASSUME ServerTypes, MessageTypes, Serve
  PROVE  /\ wire # <<>> /\ wire' = Tail(wire) /\ UNCHANGED <<asked, cacheVars, pageVars, missed, lapsed>>
         /\ Head(wire) \in Request /\ Head(wire).kind \in Kinds
         /\ Handles(Head(wire)) /\ ReplyTo(Head(wire))
<1> DEFINE m == Head(wire)
<1>1. /\ wire # <<>> /\ wire' = Tail(wire) /\ UNCHANGED <<asked, cacheVars, pageVars, missed, lapsed>>
      /\ m \in Request /\ Handles(m)
  BY Shorter DEF Serve, MessageTypes
<1>2. m.kind \in Kinds
  BY <1>1 DEF Request
<1> HIDE DEF m
<1>3. ASSUME NEW is \in {"no", "taken", "stranger", "invalid", "ok"}, Refuses(m, is),
             \/ m.kind \in {"cached", "exists", "valid"} \/ (m.kind = "join" /\ is = "no")
             \/ m.kind = "guard" /\ (is = "ok" => member = "this")
      PROVE  ReplyTo(m)
  BY <1>3 DEF Refuses, Replies, ReplyTo
<1>4. ASSUME Grants, Replies(m, "ok", issued'), m.kind \in {"create", "join"}
      PROVE  ReplyTo(m)
  <2>1. issued' \in {None} \cup Tokens
    BY <1>4, JoinBoundsAssumption DEF Grants, ServerTypes, Tokens, None
  <2> QED
    BY <1>4, <2>1 DEF Replies, ReplyTo
<1>5. ReplyTo(m)
  <2>1. CASE m.kind = "create" /\ createRoom(m)
    BY <1>4, <2>1 DEF createRoom
  <2>2. CASE m.kind \in {"cached", "exists"} /\ roomExists(m)
    BY <1>3, <2>2 DEF roomExists
  <2>3. CASE m.kind = "valid" /\ usernameValid(m)
    BY <1>3, <2>3 DEF usernameValid
  <2>4. CASE m.kind = "join" /\ joinRoom(m)
    BY <1>3, <1>4, <2>4 DEF joinRoom
  <2>5. CASE m.kind = "guard" /\ guard(m)
    BY <1>3, <2>5 DEF guard
  <2>6. CASE m.kind = "leave" /\ leaveRoom(m)
    BY <2>6 DEF leaveRoom, ReplyTo
  <2> QED
    BY <1>1, <1>2, <2>1, <2>2, <2>3, <2>4, <2>5, <2>6, Handled
<1> QED
  BY <1>1, <1>2, <1>5 DEF m

\* Where the requests and the replies are once the first request is served.
LEMMA ServedQueues ==
  ASSUME ServerTypes, MessageTypes, Serve
  PROVE  /\ Head(wire) = wire[1] /\ 1 \in DOMAIN wire
         /\ \A k \in DOMAIN wire' : /\ k \in Nat /\ k + 1 \in DOMAIN wire /\ k + 1 # 1
                                    /\ wire'[k] = wire[k + 1]
         /\ \A k \in DOMAIN replies' :
              \/ k \in DOMAIN replies /\ replies'[k] = replies[k]
              \/ /\ k = Len(replies) + 1 /\ \A l \in DOMAIN replies : l < k
                 /\ Same(replies'[k], wire[1]) /\ wire[1].kind # "leave"
                 /\ wire[1].kind = "create" => replies'[k].is = "ok"
                 /\ wire[1].kind = "guard" /\ replies'[k].is = "ok" => member = "this"
                 /\ wire[1].kind \in {"create", "join"} /\ replies'[k].is = "ok" =>
                      Grants /\ replies'[k].token = issued'
<1> DEFINE m == Head(wire)
<1>1. ReplyTo(m) /\ wire # <<>> /\ wire' = Tail(wire)
  BY ServedReplies
<1>2. /\ m = wire[1] /\ 1 \in DOMAIN wire
      /\ \A k \in DOMAIN wire' : /\ k \in Nat /\ k + 1 \in DOMAIN wire /\ k + 1 # 1
                                 /\ wire'[k] = wire[k + 1]
  <2>1. \A k \in DOMAIN Tail(wire) : k \in Nat /\ k + 1 \in DOMAIN wire /\ k + 1 # 1
    BY <1>1, Shorter DEF MessageTypes
  <2> QED
    BY <1>1, <2>1, Shorter DEF MessageTypes
<1> HIDE DEF m
<1>3. ASSUME NEW is \in {"ok", "no", "taken", "stranger", "invalid"},
             NEW token \in {None} \cup Tokens,
             replies' = Append(replies, [kind |-> m.kind, form |-> m.form, is |-> is, token |-> token])
      PROVE  \A k \in DOMAIN replies' :
               \/ k \in DOMAIN replies /\ replies'[k] = replies[k]
               \/ /\ k = Len(replies) + 1 /\ \A l \in DOMAIN replies : l < k
                  /\ Same(replies'[k], m) /\ replies'[k].is = is /\ replies'[k].token = token
  <2> DEFINE reply == [kind |-> m.kind, form |-> m.form, is |-> is, token |-> token]
  <2>1. reply \in Reply
    BY <1>1, ServedReplies DEF Request, Reply, m
  <2>2. reply.kind = m.kind /\ reply.form = m.form /\ reply.is = is /\ reply.token = token
    OBVIOUS
  <2>3. replies' = Append(replies, reply)
    BY <1>3
  <2> HIDE DEF reply
  <2>4. \A k \in DOMAIN replies' :
          \/ k \in DOMAIN replies /\ replies'[k] = replies[k]
          \/ k = Len(replies) + 1 /\ replies'[k] = reply
    BY <2>1, <2>3, Longer DEF MessageTypes
  <2>5. \A l \in DOMAIN replies : l < Len(replies) + 1
    BY DEF MessageTypes
  <2> QED
    BY <2>2, <2>4, <2>5 DEF Same
<1>4. CASE replies' = replies
  BY <1>2, <1>4
<1>5. ASSUME NEW is \in {"ok", "no", "taken", "stranger", "invalid"},
             NEW token \in {None} \cup Tokens,
             m.kind # "leave",
             replies' = Append(replies, [kind |-> m.kind, form |-> m.form, is |-> is, token |-> token]),
             m.kind = "create" => is = "ok",
             m.kind \in {"create", "join"} /\ is = "ok" => Grants /\ token = issued',
             m.kind = "guard" /\ is = "ok" => member = "this"
      PROVE  \A k \in DOMAIN replies' :
               \/ k \in DOMAIN replies /\ replies'[k] = replies[k]
               \/ /\ k = Len(replies) + 1 /\ \A l \in DOMAIN replies : l < k
                  /\ Same(replies'[k], m) /\ m.kind # "leave"
                  /\ m.kind = "create" => replies'[k].is = "ok"
                  /\ m.kind = "guard" /\ replies'[k].is = "ok" => member = "this"
                  /\ m.kind \in {"create", "join"} /\ replies'[k].is = "ok" =>
                       Grants /\ replies'[k].token = issued'
  BY <1>3, <1>5
<1> QED
  BY <1>1, <1>2, <1>4, <1>5 DEF ReplyTo, m

LEMMA OnceServe ==
  ASSUME OnceInv, ServerTypes, MessageTypes, Serve
  PROVE  OnceInv'
<1> DEFINE m == wire[1]
<1>1. /\ m = wire[1] /\ 1 \in DOMAIN wire
      /\ \A k \in DOMAIN wire' : /\ k \in Nat /\ k + 1 \in DOMAIN wire /\ k + 1 # 1
                                 /\ wire'[k] = wire[k + 1]
  BY ServedQueues
<1>2. WireOnce' /\ WirePlaced'
  <2>1. WireOnce'
    <3> SUFFICES ASSUME NEW k \in DOMAIN wire', NEW l \in DOMAIN wire', Same(wire'[k], wire'[l])
                 PROVE  k = l
      BY DEF WireOnce, Same
    <3>1. k + 1 = l + 1
      BY <1>1 DEF OnceInv, WireOnce, Same
    <3> QED
      BY <1>1, <3>1
  <2>2. WirePlaced'
    BY <1>1 DEF OnceInv, WirePlaced
  <2> QED
    BY <2>1, <2>2
<1>3. \A k \in DOMAIN replies' :
        \/ k \in DOMAIN replies /\ replies'[k] = replies[k]
        \/ /\ k = Len(replies) + 1 /\ Same(replies'[k], m) /\ m.kind # "leave"
           /\ m.kind = "create" => replies'[k].is = "ok"
  BY ServedQueues
<1> HIDE DEF m
<1>4. RepliesOnce'
  <2> SUFFICES ASSUME NEW k \in DOMAIN replies', NEW l \in DOMAIN replies',
                      Same(replies'[k], replies'[l])
               PROVE  k = l
    BY DEF RepliesOnce, Same
  <2>1. \A j \in DOMAIN replies : ~Same(m, replies[j])
    BY <1>1 DEF OnceInv, RepliesApart
  <2>2. CASE k \in DOMAIN replies /\ replies'[k] = replies[k]
    BY <1>3, <2>1, <2>2 DEF OnceInv, RepliesOnce, Same
  <2>3. CASE k = Len(replies) + 1 /\ Same(replies'[k], m)
    BY <1>3, <2>1, <2>3 DEF Same
  <2> QED
    BY <1>3, <2>2, <2>3
<1>5. RepliesApart'
  <2> SUFFICES ASSUME NEW k \in DOMAIN wire', NEW l \in DOMAIN replies',
                      Same(wire'[k], replies'[l])
               PROVE  FALSE
    BY DEF RepliesApart, Same
  <2>1. k + 1 \in DOMAIN wire /\ k + 1 # 1 /\ wire'[k] = wire[k + 1]
    BY <1>1
  <2> QED
    BY <1>1, <1>3, <2>1 DEF OnceInv, RepliesApart, WireOnce, Same
<1>6. RepliesPlaced'
  BY <1>1, <1>3 DEF OnceInv, RepliesPlaced, WirePlaced, Same
<1> QED
  BY <1>2, <1>4, <1>5, <1>6 DEF OnceInv

LEMMA OnceInvariant == Spec => [](TypesInv /\ OnceInv)
<1>1. Init => OnceInv
  BY DEF Init, OnceInv, WireOnce, RepliesOnce, RepliesApart, WirePlaced, RepliesPlaced
<1>2. TypesInv /\ OnceInv /\ [Next]_joinVars => OnceInv'
  <2> SUFFICES ASSUME TypesInv, OnceInv, [Next]_joinVars
               PROVE  OnceInv'
    OBVIOUS
  <2>1. ServerTypes /\ MessageTypes
    BY DEF TypesInv
  <2>2. CASE reconnect \/ Reload
    <3>1. wire' = <<>> /\ replies' = <<>>
      BY <2>2 DEF reconnect, Reload, NewSocket
    <3> QED
      BY <3>1 DEF OnceInv, WireOnce, RepliesOnce, RepliesApart, WirePlaced, RepliesPlaced
  <2>3. CASE Lapse \/ cleanExpiredRoomMemory \/ cleanupUser \/ cleanEmptyRooms
    <3>1. UNCHANGED <<wire, replies>>
      BY <2>3 DEF Lapse, cleanExpiredRoomMemory, cleanupUser, cleanEmptyRooms
    <3> QED
      BY <3>1 DEF OnceInv, WireOnce, RepliesOnce, RepliesApart, WirePlaced, RepliesPlaced, Same
  <2> QED
    BY <2>1, <2>2, <2>3, TabStepQueues, OnceTab, OnceServe, OnceLeave
<1>3. QED
  BY <1>1, <1>2, TypesInvariant, PTL DEF Spec

-----------------------------------------------------------------------------
(* The page of the room *)

GuardPassed(m) == m.kind = "guard" /\ m.is = "ok"
\* A room not yet made has no token and no member, and only then is it asked for.
NoneYet == room = "none" => issued = 0 /\ member = "no"
CreateBefore == \A k \in DOMAIN wire : wire[k].kind = "create" => room = "none"
\* No answer to a guard, given or to come, can be overtaken by the reply to a
\* creation, which asks for another.
CreatedFirst ==
  \A k \in DOMAIN replies : replies[k].kind = "create" =>
    /\ page # "room"
    /\ \A l \in DOMAIN replies : GuardPassed(replies[l]) => k < l
\* On the page of the room no guard is under way; who leaves is no longer there.
RoomPage ==
  page = "room" =>
    /\ member = "this"
    /\ \A k \in DOMAIN wire : wire[k].kind # "guard" /\ wire[k].kind # "leave"
    /\ \A k \in DOMAIN replies : replies[k].kind # "guard"
LeavesFirst ==
  \A k, l \in DOMAIN wire : wire[k].kind = "leave" /\ wire[l].kind = "guard" => k < l
\* What a guard has vouched for still holds when the page hears of it.
GuardHolds ==
  \A k \in DOMAIN replies : GuardPassed(replies[k]) =>
    member = "this" /\ \A l \in DOMAIN wire : wire[l].kind # "leave"
PageInv == NoneYet /\ CreateBefore /\ CreatedFirst /\ RoomPage /\ LeavesFirst /\ GuardHolds

LEMMA PageTab ==
  ASSUME TypesInv, OnceInv, PageInv, TabQueues, UNCHANGED serverVars
  PROVE  PageInv'
<1>1. room' = room /\ member' = member /\ issued' = issued /\ MessageTypes
  BY DEF serverVars, TypesInv
<1>2. NoneYet'
  BY <1>1 DEF PageInv, NoneYet
<1>3. PICK d \in {0, 1} : \A k \in DOMAIN replies' :
        k \in Nat /\ k + d \in DOMAIN replies /\ replies'[k] = replies[k + d]
  BY <1>1, RepliesFewer DEF TabQueues
<1>4. OnCreated => page # "room"
  BY <1>1, Shorter DEF OnCreated, Hears, PageInv, CreatedFirst
<1>5. \A k \in DOMAIN wire' :
        \/ k \in DOMAIN wire /\ wire'[k] = wire[k]
        \/ /\ k = Len(wire) + 1 /\ \A l \in DOMAIN wire : l < k
           /\ wire'[k].kind # "leave"
           /\ wire'[k].kind = "create" => room = "none"
           /\ wire'[k].kind = "guard" => page' # "room"
  <2>1. CASE wire' = wire
    BY <2>1
  <2>2. CASE AsksOne
    <3>1. PICK kind \in Kinds, f \in 0 .. MaxForms, token \in {None} \cup Tokens :
            Asks(kind, f, token) /\ Fits(kind, f)
      BY <2>2 DEF AsksOne
    <3>2. kind = "guard" => page' # "room"
      BY <1>4, <3>1 DEF Fits, OnCreated, pageVars
    <3>3. /\ \A k \in DOMAIN wire' :
               \/ k \in DOMAIN wire /\ wire'[k] = wire[k]
               \/ k = Len(wire) + 1 /\ wire'[k].kind = kind
          /\ \A l \in DOMAIN wire : l < Len(wire) + 1
      BY <1>1, <3>1, AsksOneMore
    <3> QED
      BY <3>1, <3>2, <3>3 DEF Fits
  <2> QED
    BY <2>1, <2>2 DEF TabQueues
<1>6. CreateBefore' /\ LeavesFirst' /\ GuardHolds'
  <2>1. CreateBefore'
    BY <1>1, <1>5 DEF PageInv, CreateBefore
  <2>2. LeavesFirst'
    BY <1>5 DEF PageInv, LeavesFirst
  <2>3. GuardHolds'
    <3> SUFFICES ASSUME NEW k \in DOMAIN replies', GuardPassed(replies'[k])
                 PROVE  member = "this" /\ \A l \in DOMAIN wire' : wire'[l].kind # "leave"
      BY <1>1 DEF GuardHolds, GuardPassed
    <3>1. k + d \in DOMAIN replies /\ GuardPassed(replies[k + d])
      BY <1>3
    <3> QED
      BY <1>5, <3>1 DEF PageInv, GuardHolds
  <2> QED
    BY <2>1, <2>2, <2>3
<1>7. CASE page' \in {page, "home", "join"}
  <2>1. RoomPage'
    <3> SUFFICES ASSUME page' = "room"
                 PROVE  /\ member = "this"
                        /\ \A k \in DOMAIN wire' : wire'[k].kind # "guard" /\ wire'[k].kind # "leave"
                        /\ \A k \in DOMAIN replies' : replies'[k].kind # "guard"
      BY <1>1 DEF RoomPage
    <3>1. page = "room"
      BY <1>7
    <3> QED
      BY <1>3, <1>5, <3>1 DEF PageInv, RoomPage
  <2>2. CreatedFirst'
    <3> SUFFICES ASSUME NEW k \in DOMAIN replies', replies'[k].kind = "create"
                 PROVE  /\ page' # "room"
                        /\ \A l \in DOMAIN replies' : GuardPassed(replies'[l]) => k < l
      BY DEF CreatedFirst, GuardPassed
    <3>1. k + d \in DOMAIN replies /\ replies[k + d].kind = "create" /\ k \in Nat
      BY <1>3
    <3>2. page # "room"
      BY <3>1 DEF PageInv, CreatedFirst
    <3>3. ASSUME NEW l \in DOMAIN replies', GuardPassed(replies'[l])
          PROVE  k < l
      <4>1. l + d \in DOMAIN replies /\ GuardPassed(replies[l + d]) /\ l \in Nat
        BY <1>3, <3>3
      <4>2. k + d < l + d
        BY <3>1, <4>1 DEF PageInv, CreatedFirst
      <4> QED
        BY <3>1, <4>1, <4>2
    <3> QED
      BY <1>7, <3>2, <3>3
  <2> QED
    BY <1>2, <1>6, <2>1, <2>2 DEF PageInv
<1>8. CASE page' = "room" /\ OnGuard /\ Answer.is = "ok"
  <2>1. /\ GuardPassed(replies[1]) /\ 1 \in DOMAIN replies /\ wire' = wire
        /\ \A k \in DOMAIN replies' :
             k \in Nat \ {0} /\ k + 1 \in DOMAIN replies /\ replies'[k] = replies[k + 1]
    <3>1. /\ replies # <<>> /\ replies' = Tail(replies) /\ Head(replies).kind = "guard"
          /\ Head(replies).is = "ok"
      BY <1>8 DEF OnGuard, Hears, Answer
    <3> QED
      BY <1>1, <1>8, <3>1, Shorter, GuardHeard DEF GuardPassed
  <2>2. \A k \in DOMAIN wire : wire[k].kind # "guard"
    BY <2>1 DEF OnceInv, RepliesApart, WirePlaced, RepliesPlaced, Same, GuardPassed
  <2>3. \A k \in DOMAIN replies' : replies'[k].kind # "guard"
    <3> SUFFICES ASSUME NEW k \in DOMAIN replies', replies'[k].kind = "guard"
                 PROVE  FALSE
      OBVIOUS
    <3>1. k + 1 \in DOMAIN replies /\ replies[k + 1].kind = "guard" /\ k + 1 # 1
      BY <2>1
    <3> QED
      BY <2>1, <3>1 DEF OnceInv, RepliesOnce, RepliesPlaced, Same, GuardPassed
  <2>4. \A k \in DOMAIN replies' : replies'[k].kind # "create"
    <3> SUFFICES ASSUME NEW k \in DOMAIN replies', replies'[k].kind = "create"
                 PROVE  FALSE
      OBVIOUS
    <3>1. k + 1 \in DOMAIN replies /\ replies[k + 1].kind = "create" /\ k \in Nat
      BY <2>1
    <3>2. k + 1 < 1
      BY <2>1, <3>1 DEF PageInv, CreatedFirst
    <3> QED
      BY <3>1, <3>2
  <2>5. RoomPage'
    BY <1>1, <2>1, <2>2, <2>3 DEF PageInv, GuardHolds, RoomPage
  <2>6. CreatedFirst'
    BY <2>4 DEF CreatedFirst
  <2> QED
    BY <1>2, <1>6, <2>5, <2>6 DEF PageInv
<1> QED
  BY <1>7, <1>8 DEF TabQueues

\* What serving a request does to the room and its member.
LEMMA ServerChanges ==
  ASSUME ServerTypes, MessageTypes, Serve
  PROVE  /\ wire[1].kind # "create" => room' = room
         /\ wire[1].kind # "leave" => member' = member \/ member' = "this"
         /\ member' \in {member, "no"} \/ (member' = "this" /\ room' # "none" /\ issued' # 0)
         /\ issued' = issued \/ room' # "none"
<1> DEFINE m == wire[1]
<1>1. m.kind \in Kinds /\ Handles(m)
  BY ServedReplies, ServedQueues
<1> HIDE DEF m
<1>2. Grants => member' = "this" /\ issued' # 0
  BY DEF Grants, ServerTypes
<1>3. ASSUME NEW is, Refuses(m, is)
      PROVE  member' = member /\ issued' = issued
  BY <1>3 DEF Refuses
<1>4. CASE m.kind = "create" /\ createRoom(m)
  BY <1>2, <1>4 DEF createRoom, m
<1>5. CASE m.kind \in {"cached", "exists"} /\ roomExists(m)
  BY <1>3, <1>5 DEF roomExists, m
<1>6. CASE m.kind = "valid" /\ usernameValid(m)
  BY <1>3, <1>6 DEF usernameValid, m
<1>7. CASE m.kind = "join" /\ joinRoom(m)
  <2>1. CASE Admits(m)
    <3>1. room = "open" /\ room' = room /\ (Grants \/ Refuses(m, "no"))
      BY <1>7, <2>1 DEF joinRoom, Admits
    <3> QED
      BY <1>2, <1>3, <1>7, <3>1 DEF m
  <2>2. CASE ~Admits(m)
    BY <1>3, <1>7, <2>2 DEF joinRoom, m
  <2> QED
    BY <2>1, <2>2
<1>8. CASE m.kind = "guard" /\ guard(m)
  BY <1>3, <1>8 DEF guard, m
<1>9. CASE m.kind = "leave" /\ leaveRoom(m)
  BY <1>9 DEF leaveRoom, m
<1> QED
  BY <1>1, <1>4, <1>5, <1>6, <1>7, <1>8, <1>9, Handled

LEMMA PageServe ==
  ASSUME TypesInv, OnceInv, PageInv, Serve
  PROVE  PageInv'
<1> DEFINE m == wire[1]
<1>1. ServerTypes /\ MessageTypes /\ page' = page
  BY ServedReplies DEF TypesInv, pageVars
<1>2. /\ 1 \in DOMAIN wire
      /\ \A k \in DOMAIN wire' : /\ k \in Nat /\ k + 1 \in DOMAIN wire /\ k + 1 # 1
                                 /\ wire'[k] = wire[k + 1]
  BY <1>1, ServedQueues
<1>3. \A k \in DOMAIN replies' :
        \/ k \in DOMAIN replies /\ replies'[k] = replies[k]
        \/ /\ k = Len(replies) + 1 /\ \A l \in DOMAIN replies : l < k
           /\ replies'[k].kind = m.kind /\ m.kind # "leave"
           /\ m.kind = "guard" /\ replies'[k].is = "ok" => member = "this"
  BY <1>1, ServedQueues DEF Same
<1>4. /\ m.kind # "create" => room' = room
      /\ m.kind # "leave" => member' = member \/ member' = "this"
      /\ member' \in {member, "no"} \/ (member' = "this" /\ room' # "none" /\ issued' # 0)
      /\ issued' = issued \/ room' # "none"
      /\ room' = "none" => room = "none"
  <2>1. m.kind = "create" => room' = "open"
    BY <1>1, ServedReplies, ServedQueues DEF Handles, createRoom
  <2> QED
    BY <1>1, <2>1, ServerChanges
<1>5. m.kind = "create" => room = "none" /\ member = "no"
  BY <1>2 DEF PageInv, CreateBefore, NoneYet
<1> HIDE DEF m
<1>6. NoneYet'
  BY <1>4 DEF PageInv, NoneYet
<1>7. CreateBefore'
  <2> SUFFICES ASSUME NEW k \in DOMAIN wire', wire'[k].kind = "create"
               PROVE  room' = "none"
    BY DEF CreateBefore
  <2>1. k + 1 \in DOMAIN wire /\ k + 1 # 1 /\ wire[k + 1].kind = "create"
    BY <1>2
  <2>2. m.kind # "create"
    BY <1>2, <2>1 DEF OnceInv, WireOnce, WirePlaced, Same, m
  <2> QED
    BY <1>4, <2>1, <2>2 DEF PageInv, CreateBefore
<1>8. CreatedFirst'
  <2> SUFFICES ASSUME NEW k \in DOMAIN replies', replies'[k].kind = "create"
               PROVE  page # "room" /\ \A l \in DOMAIN replies' : GuardPassed(replies'[l]) => k < l
    BY <1>1 DEF CreatedFirst, GuardPassed
  <2>1. CASE k \in DOMAIN replies /\ replies'[k] = replies[k]
    BY <1>3, <2>1 DEF PageInv, CreatedFirst, GuardPassed
  <2>2. CASE m.kind = "create"
    BY <1>3, <1>5, <2>2 DEF PageInv, RoomPage, GuardHolds, GuardPassed
  <2> QED
    BY <1>3, <2>1, <2>2
<1>9. LeavesFirst'
  <2> SUFFICES ASSUME NEW k \in DOMAIN wire', NEW l \in DOMAIN wire',
                      wire'[k].kind = "leave", wire'[l].kind = "guard"
               PROVE  k < l
    BY DEF LeavesFirst
  <2>1. k + 1 < l + 1
    BY <1>2 DEF PageInv, LeavesFirst
  <2> QED
    BY <1>2, <2>1
<1>10. RoomPage'
  <2> SUFFICES ASSUME page = "room"
               PROVE  /\ member' = "this"
                      /\ \A k \in DOMAIN wire' : wire'[k].kind # "guard" /\ wire'[k].kind # "leave"
                      /\ \A k \in DOMAIN replies' : replies'[k].kind # "guard"
    BY <1>1 DEF RoomPage
  <2>1. m.kind # "guard" /\ m.kind # "leave" /\ member = "this"
    BY <1>2 DEF PageInv, RoomPage, m
  <2> QED
    BY <1>2, <1>3, <1>4, <2>1 DEF PageInv, RoomPage
<1>11. GuardHolds'
  <2> SUFFICES ASSUME NEW k \in DOMAIN replies', GuardPassed(replies'[k])
               PROVE  member' = "this" /\ \A l \in DOMAIN wire' : wire'[l].kind # "leave"
    BY DEF GuardHolds, GuardPassed
  <2>1. CASE k \in DOMAIN replies /\ replies'[k] = replies[k]
    <3>1. member = "this" /\ \A l \in DOMAIN wire : wire[l].kind # "leave"
      BY <2>1 DEF PageInv, GuardHolds
    <3> QED
      BY <1>2, <1>4, <3>1 DEF m
  <2>2. CASE m.kind = "guard" /\ member = "this"
    <3>1. ASSUME NEW l \in DOMAIN wire', wire'[l].kind = "leave"
          PROVE  FALSE
      <4>1. l \in Nat /\ l + 1 \in DOMAIN wire /\ wire[l + 1].kind = "leave" /\ l + 1 # 1
        BY <1>2, <3>1
      <4>2. l + 1 < 1
        BY <1>2, <2>2, <4>1 DEF PageInv, LeavesFirst, m
      <4> QED
        BY <4>1, <4>2
    <3> QED
      BY <1>4, <2>2, <3>1
  <2> QED
    BY <1>3, <2>1, <2>2 DEF GuardPassed
<1> QED
  BY <1>6, <1>7, <1>8, <1>9, <1>10, <1>11 DEF PageInv

LEMMA PageLeave ==
  ASSUME TypesInv, PageInv, NEW prevent, LeaveRoom(prevent)
  PROVE  PageInv'
<1>1. /\ page = "room" /\ page' = "home" /\ replies' = replies
      /\ room' = room /\ member' = member /\ issued' = issued
  BY DEF LeaveRoom, serverVars
<1>2. \A k \in DOMAIN wire' :
        (k \in DOMAIN wire /\ wire'[k] = wire[k]) \/ wire'[k].kind \in {"leave", "cached"}
  BY LeavesLast DEF TypesInv
<1>3. /\ \A k \in DOMAIN wire : wire[k].kind # "guard"
      /\ \A k \in DOMAIN replies : replies[k].kind # "guard" /\ replies[k].kind # "create"
  BY <1>1 DEF PageInv, RoomPage, CreatedFirst
<1>4. CreateBefore' /\ LeavesFirst'
  BY <1>1, <1>2, <1>3 DEF PageInv, CreateBefore, LeavesFirst
<1>5. CreatedFirst' /\ RoomPage' /\ GuardHolds'
  BY <1>1, <1>3 DEF CreatedFirst, RoomPage, GuardHolds, GuardPassed
<1> QED
  BY <1>1, <1>4, <1>5 DEF PageInv, NoneYet

LEMMA PageInvariant == Spec => [](TypesInv /\ OnceInv /\ PageInv)
<1>1. Init => PageInv
  BY DEF Init, PageInv, NoneYet, CreateBefore, CreatedFirst, RoomPage, LeavesFirst, GuardHolds
<1>2. TypesInv /\ OnceInv /\ PageInv /\ [Next]_joinVars => PageInv'
  <2> SUFFICES ASSUME TypesInv, OnceInv, PageInv, [Next]_joinVars
               PROVE  PageInv'
    OBVIOUS
  <2>1. CASE reconnect \/ Reload
    <3>1. /\ wire' = <<>> /\ replies' = <<>> /\ page' = "home" /\ room' = room /\ issued' = issued
          /\ member' = IF member = "this" THEN "old" ELSE member
      BY <2>1 DEF reconnect, Reload, NewSocket
    <3> QED
      BY <3>1 DEF PageInv, NoneYet, CreateBefore, CreatedFirst, RoomPage, LeavesFirst, GuardHolds
  <2>2. CASE Lapse \/ cleanExpiredRoomMemory \/ cleanupUser \/ cleanEmptyRooms
    <3>1. UNCHANGED <<wire, replies, page, issued>>
      BY <2>2 DEF Lapse, cleanExpiredRoomMemory, cleanupUser, cleanEmptyRooms, pageVars
    <3>2. /\ room' = room \/ (room = "open" /\ room' = "gone")
          /\ member' = member \/ (member = "old" /\ member' = "no")
      BY <2>2 DEF Lapse, cleanExpiredRoomMemory, cleanupUser, cleanEmptyRooms
    <3> QED
      BY <3>1, <3>2 DEF PageInv, NoneYet, CreateBefore, CreatedFirst, RoomPage, LeavesFirst,
                        GuardHolds, GuardPassed
  <2> QED
    BY <2>1, <2>2, TabStepQueues, PageTab, PageServe, PageLeave
<1>3. QED
  BY <1>1, <1>2, OnceInvariant, PTL DEF Spec

\* The page of the room is shown only to those the server counts as members
\* (RoomGuard.canActivate and RoomComponent.canDeactivate): the guard's answer
\* still holds when it is heard, since no leave can be served in between.
THEOREM MembersOnly == Spec => []RoomPageToMembers
<1>1. PageInv => RoomPageToMembers
  BY DEF PageInv, RoomPage, RoomPageToMembers
<1> QED
  BY <1>1, PageInvariant, PTL

-----------------------------------------------------------------------------
(* The tokens *)

Granted(m) == m.kind \in {"create", "join"} /\ m.is = "ok"
\* The tokens the tab has, and those it has sent.
OldTokens == {None, cache.token, stored.token} \cup {forms[f].token : f \in DOMAIN forms}
Known == OldTokens \cup {wire[k].token : k \in DOMAIN wire}
\* What the server remembers is the last token, until it has expired.
MemoryLatest == memory \in {None, issued} /\ (memory = None => lapsed = issued)
KnownIssued == \A t \in Known : t <= issued
\* A token under way to the tab is newer than all the tab has known, and no other
\* is issued until it has expired.
NewsIssued ==
  \A k \in DOMAIN replies : Granted(replies[k]) =>
    /\ replies[k].token \in 1 .. issued
    /\ replies[k].token = issued \/ replies[k].token <= lapsed
NewsGreater ==
  \A k \in DOMAIN replies : Granted(replies[k]) => \A t \in Known : t < replies[k].token
NewsOrdered ==
  \A k, l \in DOMAIN replies :
    k < l /\ Granted(replies[k]) /\ Granted(replies[l]) => replies[k].token < replies[l].token
\* A join with the last token is still waited for.
LateJoin ==
  \A k \in DOMAIN wire : wire[k].kind = "join" /\ wire[k].token = issued /\ issued # None =>
    missed \/ <<"join", wire[k].form>> \in asked
Told ==
  \E k \in DOMAIN replies :
    Granted(replies[k]) /\ replies[k].token = issued /\ <<replies[k].kind, replies[k].form>> \in asked
\* An entry has the last token, or its successor is waited for, or was missed.
Tells == \A t \in {cache.token, stored.token} : t > lapsed => t = issued \/ missed \/ Told
TokenInv ==
  /\ MemoryLatest /\ KnownIssued /\ NewsIssued /\ NewsGreater /\ NewsOrdered /\ LateJoin /\ Tells

\* Steps of the tab that bring no token.
EntriesOld == {cache'.token, stored'.token} \subseteq {None, cache.token, stored.token}
FormsOld == \A f \in DOMAIN forms' : forms'[f].token \in OldTokens
WireOld ==
  \A k \in DOMAIN wire' :
    \/ \E l \in DOMAIN wire : wire'[k] = wire[l]
    \/ /\ wire'[k].token \in OldTokens
       /\ wire'[k].kind = "join" => <<"join", wire'[k].form>> \in asked'
Refused(kind, f) ==
  /\ replies # <<>> /\ Head(replies).kind = kind /\ Head(replies).form = f
  /\ Head(replies).is # "ok"
PromisesKept ==
  \A kind \in {"create", "join"}, f \in 0 .. MaxForms :
    <<kind, f>> \in asked => <<kind, f>> \in asked' \/ missed' \/ Refused(kind, f)
NoNews ==
  \/ replies' = replies
  \/ /\ replies # <<>> /\ replies' = Tail(replies)
     /\ Granted(Head(replies)) => <<Head(replies).kind, Head(replies).form>> \notin asked
Quiet ==
  /\ UNCHANGED serverVars /\ (missed => missed')
  /\ EntriesOld /\ FormsOld /\ WireOld /\ PromisesKept /\ NoNews

LEMMA QuietKeeps ==
  ASSUME TypesInv, OnceInv, TokenInv, Quiet
  PROVE  TokenInv'
<1>1. memory' = memory /\ issued' = issued /\ lapsed' = lapsed
  BY DEF Quiet, serverVars
<1>2. Known' \subseteq Known
  <2>1. OldTokens' \subseteq OldTokens
    BY DEF Quiet, EntriesOld, FormsOld, OldTokens
  <2>2. \A k \in DOMAIN wire' : wire'[k].token \in Known
    BY DEF Quiet, WireOld, Known
  <2> QED
    BY <2>1, <2>2 DEF Known
<1>3. MemoryLatest' /\ KnownIssued'
  BY <1>1, <1>2 DEF TokenInv, MemoryLatest, KnownIssued
<1>4. PICK d \in {0, 1} :
        /\ \A k \in DOMAIN replies' :
             k \in Nat /\ k + d \in DOMAIN replies /\ replies'[k] = replies[k + d]
        /\ \A k \in DOMAIN replies : k - d \in DOMAIN replies' \/ (d = 1 /\ k = 1)
        /\ d = 1 => 1 \in DOMAIN replies /\ Head(replies) = replies[1]
                    /\ (Granted(replies[1]) => <<replies[1].kind, replies[1].form>> \notin asked)
  <2>1. CASE replies' = replies
    <3>1. \A k \in DOMAIN replies : k \in Nat /\ k + 0 = k /\ k - 0 = k
      BY DEF TypesInv, MessageTypes
    <3> QED
      BY <2>1, <3>1
  <2>2. CASE replies # <<>> /\ replies' = Tail(replies)
             /\ (Granted(Head(replies)) => <<Head(replies).kind, Head(replies).form>> \notin asked)
    <3>1. \A k \in DOMAIN replies : k - 1 \in DOMAIN Tail(replies) \/ k = 1
      BY <2>2 DEF TypesInv, MessageTypes
    <3> QED
      BY <2>2, <3>1, Shorter DEF TypesInv, MessageTypes
  <2> QED
    BY <2>1, <2>2 DEF Quiet, NoNews
<1>5. NewsIssued' /\ NewsGreater'
  BY <1>1, <1>2, <1>4 DEF TokenInv, NewsIssued, NewsGreater, Granted
<1>6. NewsOrdered'
  <2> SUFFICES ASSUME NEW k \in DOMAIN replies', NEW l \in DOMAIN replies', k < l,
                      Granted(replies'[k]), Granted(replies'[l])
               PROVE  replies'[k].token < replies'[l].token
    BY DEF NewsOrdered, Granted
  <2>1. /\ k + d \in DOMAIN replies /\ l + d \in DOMAIN replies /\ k + d < l + d
        /\ replies'[k] = replies[k + d] /\ replies'[l] = replies[l + d]
    BY <1>4
  <2> QED
    BY <2>1 DEF TokenInv, NewsOrdered
<1>7. LateJoin'
  <2> SUFFICES ASSUME NEW k \in DOMAIN wire', wire'[k].kind = "join", wire'[k].token = issued,
                      issued # None
               PROVE  missed' \/ <<"join", wire'[k].form>> \in asked'
    BY <1>1 DEF LateJoin
  <2>1. ASSUME NEW l \in DOMAIN wire, wire'[k] = wire[l]
        PROVE  missed' \/ <<"join", wire'[k].form>> \in asked'
    <3>1. missed \/ <<"join", wire[l].form>> \in asked
      BY <2>1 DEF TokenInv, LateJoin
    <3>2. wire[l].form \in 0 .. MaxForms
      <4>1. wire[l] \in Request
        BY DEF TypesInv, MessageTypes
      <4> QED
        BY <4>1 DEF Request
    <3>3. ~Refused("join", wire[l].form)
      <4> SUFFICES ASSUME Refused("join", wire[l].form)
                   PROVE  FALSE
        OBVIOUS
      <4>1. 1 \in DOMAIN replies /\ Same(wire[l], replies[1])
        BY <2>1, Shorter DEF Refused, Same, TypesInv, MessageTypes
      <4> QED
        BY <4>1 DEF OnceInv, RepliesApart
    <3> QED
      BY <2>1, <3>1, <3>2, <3>3 DEF Quiet, PromisesKept
  <2> QED
    BY <2>1 DEF Quiet, WireOld
<1>8. Told => missed' \/ Told'
  <2> SUFFICES ASSUME NEW k \in DOMAIN replies, Granted(replies[k]), replies[k].token = issued,
                      <<replies[k].kind, replies[k].form>> \in asked, ~missed'
               PROVE  Told'
    BY DEF Told
  <2>1. k - d \in DOMAIN replies' /\ replies'[k - d] = replies[k]
    <3>1. k \in Nat /\ ~(d = 1 /\ k = 1)
      <4>1. k \in Nat
        BY DEF TypesInv, MessageTypes
      <4> QED
        BY <1>4, <4>1
    <3>2. k - d \in DOMAIN replies' /\ (k - d) + d = k
      BY <1>4, <3>1
    <3> QED
      BY <1>4, <3>2
  <2>2. <<replies[k].kind, replies[k].form>> \in asked'
    <3>1. replies[k].form \in 0 .. MaxForms
      <4>1. replies[k] \in Reply
        BY DEF TypesInv, MessageTypes
      <4> QED
        BY <4>1 DEF Reply
    <3>2. ~Refused(replies[k].kind, replies[k].form)
      <4> SUFFICES ASSUME Refused(replies[k].kind, replies[k].form)
                   PROVE  FALSE
        OBVIOUS
      <4>1. 1 \in DOMAIN replies /\ Same(replies[k], replies[1]) /\ replies[1].is # "ok"
        BY Shorter DEF Refused, Same, TypesInv, MessageTypes
      <4>2. k = 1
        BY <4>1 DEF OnceInv, RepliesOnce
      <4> QED
        BY <4>1, <4>2 DEF Granted
    <3> QED
      BY <3>1, <3>2 DEF Granted, Quiet, PromisesKept
  <2> QED
    BY <1>1, <2>1, <2>2 DEF Told, Granted
<1>9. Tells'
  <2> SUFFICES ASSUME NEW t \in {cache'.token, stored'.token}, t > lapsed
               PROVE  t = issued \/ missed' \/ Told'
    BY <1>1 DEF Tells
  <2>1. t # None
    BY DEF TypesInv, ServerTypes, None
  <2>2. t \in {cache.token, stored.token}
    BY <2>1 DEF Quiet, EntriesOld
  <2>3. t = issued \/ missed \/ Told
    BY <2>2 DEF TokenInv, Tells
  <2> QED
    BY <1>8, <2>3 DEF Quiet
<1> QED
  BY <1>3, <1>5, <1>6, <1>7, <1>9 DEF TokenInv

\* A step that hears of a token.
News ==
  /\ UNCHANGED serverVars
  /\ replies # <<>> /\ replies' = Tail(replies) /\ Granted(Head(replies))
  /\ cache'.token = Head(replies).token /\ stored'.token = Head(replies).token /\ FormsOld
  /\ \A k \in DOMAIN wire' :
       \/ \E l \in DOMAIN wire : wire'[k] = wire[l]
       \/ wire'[k].kind = "guard" /\ wire'[k].token = Head(replies).token

LEMMA NewsKeeps ==
  ASSUME TypesInv, TokenInv, News
  PROVE  TokenInv'
<1> DEFINE t == replies[1].token
<1>1. /\ memory' = memory /\ issued' = issued /\ lapsed' = lapsed
      /\ Head(replies) = replies[1] /\ 1 \in DOMAIN replies /\ Granted(replies[1])
      /\ cache'.token = t /\ stored'.token = t
      /\ \A k \in DOMAIN replies' :
           k \in Nat /\ k # 0 /\ k + 1 \in DOMAIN replies /\ replies'[k] = replies[k + 1]
  BY Shorter DEF News, serverVars, TypesInv, MessageTypes
<1>2. /\ t \in 1 .. issued /\ (t = issued \/ t <= lapsed) /\ \A u \in Known : u < t
  BY <1>1 DEF TokenInv, NewsIssued, NewsGreater
<1>3. issued \in Nat /\ lapsed \in Nat /\ None = 0
  BY JoinBoundsAssumption DEF TypesInv, ServerTypes, None
<1>4. \A k \in DOMAIN wire' :
        \/ \E l \in DOMAIN wire : wire'[k] = wire[l]
        \/ wire'[k].kind = "guard" /\ wire'[k].token = t
  BY <1>1 DEF News
<1> HIDE DEF t
<1>5. Known' \subseteq Known \cup {t}
  <2>1. OldTokens' \subseteq OldTokens \cup {t}
    BY <1>1 DEF News, FormsOld, OldTokens
  <2>2. \A k \in DOMAIN wire' : wire'[k].token \in Known \cup {t}
    BY <1>4 DEF Known
  <2> QED
    BY <2>1, <2>2 DEF Known
<1>6. MemoryLatest' /\ KnownIssued'
  BY <1>1, <1>2, <1>3, <1>5 DEF TokenInv, MemoryLatest, KnownIssued
<1>7. NewsIssued'
  BY <1>1 DEF TokenInv, NewsIssued, Granted
<1>8. NewsGreater'
  <2> SUFFICES ASSUME NEW k \in DOMAIN replies', Granted(replies'[k]), NEW u \in Known'
               PROVE  u < replies'[k].token
    BY DEF NewsGreater, Granted
  <2>1. /\ k + 1 \in DOMAIN replies /\ Granted(replies[k + 1]) /\ 1 < k + 1
        /\ replies'[k].token = replies[k + 1].token
    BY <1>1
  <2>2. t < replies[k + 1].token
    BY <1>1, <2>1 DEF TokenInv, NewsOrdered, t
  <2> QED
    BY <1>5, <2>1, <2>2 DEF TokenInv, NewsGreater
<1>9. NewsOrdered'
  <2> SUFFICES ASSUME NEW k \in DOMAIN replies', NEW l \in DOMAIN replies', k < l,
                      Granted(replies'[k]), Granted(replies'[l])
               PROVE  replies'[k].token < replies'[l].token
    BY DEF NewsOrdered, Granted
  <2>1. /\ k + 1 \in DOMAIN replies /\ l + 1 \in DOMAIN replies /\ k + 1 < l + 1
        /\ replies'[k] = replies[k + 1] /\ replies'[l] = replies[l + 1]
    BY <1>1
  <2> QED
    BY <2>1 DEF TokenInv, NewsOrdered
<1>10. LateJoin'
  <2> SUFFICES ASSUME NEW k \in DOMAIN wire', wire'[k].kind = "join", wire'[k].token = issued
               PROVE  FALSE
    BY <1>1 DEF LateJoin
  <2>1. wire'[k].token \in Known
    BY <1>4 DEF Known
  <2> QED
    BY <1>2, <1>3, <2>1
<1>11. Tells'
  BY <1>1, <1>2, <1>3 DEF Tells
<1> QED
  BY <1>6, <1>7, <1>8, <1>9, <1>10, <1>11 DEF TokenInv

\* When the server gives a new token, the last one has expired or is given back.
LEMMA Granting ==
  ASSUME TypesInv, PageInv, Serve
  PROVE  \/ issued' = issued /\ memory' = memory
         \/ /\ Grants /\ wire[1].kind \in {"create", "join"} /\ Replies(wire[1], "ok", issued')
            /\ issued = 0 \/ memory = None \/ (wire[1].kind = "join" /\ wire[1].token = memory)
<1> DEFINE m == wire[1]
<1>1. m.kind \in Kinds /\ Handles(m) /\ 1 \in DOMAIN wire
  BY ServedReplies, ServedQueues DEF TypesInv
<1>2. m.kind = "create" => issued = 0
  BY <1>1 DEF PageInv, CreateBefore, NoneYet
<1> HIDE DEF m
<1>3. ASSUME NEW is, Refuses(m, is)
      PROVE  issued' = issued /\ memory' = memory
  BY <1>3 DEF Refuses
<1>4. CASE m.kind = "create" /\ createRoom(m)
  BY <1>2, <1>4 DEF createRoom, m
<1>5. CASE m.kind \in {"cached", "exists"} /\ roomExists(m)
  BY <1>3, <1>5 DEF roomExists
<1>6. CASE m.kind = "valid" /\ usernameValid(m)
  BY <1>3, <1>6 DEF usernameValid
<1>7. CASE m.kind = "join" /\ joinRoom(m)
  <2>1. CASE Admits(m)
    <3>1. memory = None \/ m.token = memory
      BY <2>1 DEF Admits, MayUse
    <3>2. (Grants /\ Replies(m, "ok", issued')) \/ Refuses(m, "no")
      BY <1>7, <2>1 DEF joinRoom
    <3> QED
      BY <1>3, <1>7, <3>1, <3>2 DEF m
  <2>2. CASE ~Admits(m)
    BY <1>3, <1>7, <2>2 DEF joinRoom
  <2> QED
    BY <2>1, <2>2
<1>8. CASE m.kind = "guard" /\ guard(m)
  BY <1>3, <1>8 DEF guard
<1>9. CASE m.kind = "leave" /\ leaveRoom(m)
  BY <1>9 DEF leaveRoom
<1> QED
  BY <1>1, <1>4, <1>5, <1>6, <1>7, <1>8, <1>9, Handled

LEMMA KnownTyped ==
  ASSUME TypesInv
  PROVE  Known \subseteq Nat
<1>1. {None} \cup Tokens \subseteq Nat
  BY JoinBoundsAssumption DEF Tokens, None
<1>2. /\ cache.token \in {None} \cup Tokens /\ stored.token \in {None} \cup Tokens
      /\ \A f \in DOMAIN forms : forms[f] \in Form
  BY CacheToken DEF TypesInv
<1>3. \A f \in DOMAIN forms : forms[f].token \in {None} \cup Tokens
  BY <1>2 DEF Form
<1>4. \A k \in DOMAIN wire : wire[k] \in Request
  BY DEF TypesInv, MessageTypes
<1>5. \A k \in DOMAIN wire : wire[k].token \in {None} \cup Tokens
  BY <1>4 DEF Request
<1> QED
  BY <1>1, <1>2, <1>3, <1>5 DEF Known, OldTokens

LEMMA ServeKeeps ==
  ASSUME TypesInv, OnceInv, PageInv, TokenInv, Serve
  PROVE  TokenInv'
<1> DEFINE m == wire[1]
<1>1. /\ lapsed' = lapsed /\ asked' = asked /\ cache' = cache /\ stored' = stored /\ forms' = forms
      /\ missed' = missed /\ ServerTypes /\ MessageTypes
  BY ServedReplies DEF TypesInv, cacheVars, pageVars
<1>2. /\ 1 \in DOMAIN wire /\ m \in Request
      /\ \A k \in DOMAIN wire' : k \in Nat /\ k + 1 \in DOMAIN wire /\ wire'[k] = wire[k + 1]
  BY <1>1, ServedQueues DEF MessageTypes
<1>3. \A k \in DOMAIN replies' :
        \/ k \in DOMAIN replies /\ replies'[k] = replies[k]
        \/ /\ k = Len(replies) + 1 /\ \A l \in DOMAIN replies : l < k
           /\ replies'[k].kind = m.kind /\ replies'[k].form = m.form
           /\ Granted(replies'[k]) => Grants /\ replies'[k].token = issued'
  BY <1>1, ServedQueues DEF Same, Granted
<1>4. \/ issued' = issued /\ memory' = memory
      \/ /\ Grants /\ m.kind \in {"create", "join"} /\ Replies(m, "ok", issued')
         /\ issued = 0 \/ memory = None \/ (m.kind = "join" /\ m.token = memory)
  BY Granting
<1>5. /\ issued \in Nat /\ lapsed \in Nat /\ lapsed <= issued /\ None = 0
      /\ m.token \in Known /\ m.form \in 0 .. MaxForms
  BY <1>1, <1>2, JoinBoundsAssumption DEF ServerTypes, None, Known, Request
<1>6. Known' \subseteq Known
  <2>1. OldTokens' = OldTokens
    BY <1>1 DEF OldTokens
  <2>2. \A k \in DOMAIN wire' : wire'[k].token \in Known
    BY <1>2 DEF Known
  <2> QED
    BY <2>1, <2>2 DEF Known
<1>7. \A k \in DOMAIN replies : k \in DOMAIN replies' /\ replies'[k] = replies[k]
  <2>1. ReplyTo(m)
    BY <1>1, ServedReplies, ServedQueues
  <2>2. CASE replies' = replies
    BY <2>2
  <2>3. ASSUME NEW is \in {"ok", "no", "taken", "stranger", "invalid"},
               NEW token \in {None} \cup Tokens,
               replies' = Append(replies, [kind |-> m.kind, form |-> m.form, is |-> is, token |-> token])
        PROVE  \A k \in DOMAIN replies : k \in DOMAIN replies' /\ replies'[k] = replies[k]
    <3>1. [kind |-> m.kind, form |-> m.form, is |-> is, token |-> token] \in Reply
      BY <1>2 DEF Request, Reply
    <3> QED
      BY <1>1, <2>3, <3>1, Longer DEF MessageTypes
  <2> QED
    BY <2>1, <2>2, <2>3 DEF ReplyTo
<1> HIDE DEF m
<1>8. CASE issued' = issued /\ memory' = memory
  <2>1. ~Grants
    BY <1>5, <1>8 DEF Grants
  <2>2. \A k \in DOMAIN replies' : Granted(replies'[k]) => k \in DOMAIN replies /\ replies'[k] = replies[k]
    BY <1>3, <2>1
  <2>3. MemoryLatest' /\ KnownIssued'
    BY <1>1, <1>6, <1>8 DEF TokenInv, MemoryLatest, KnownIssued
  <2>4. NewsIssued' /\ NewsGreater' /\ NewsOrdered'
    <3>1. NewsIssued'
      BY <1>1, <1>8, <2>2 DEF TokenInv, NewsIssued, Granted
    <3>2. NewsGreater'
      BY <1>6, <2>2 DEF TokenInv, NewsGreater, Granted
    <3>3. NewsOrdered'
      BY <2>2 DEF TokenInv, NewsOrdered, Granted
    <3> QED
      BY <3>1, <3>2, <3>3
  <2>5. LateJoin'
    BY <1>1, <1>2, <1>8 DEF TokenInv, LateJoin
  <2>6. Told => Told'
    BY <1>1, <1>7, <1>8 DEF Told, Granted
  <2>7. Tells'
    BY <1>1, <1>8, <2>6 DEF TokenInv, Tells
  <2> QED
    BY <2>3, <2>4, <2>5, <2>7 DEF TokenInv
<1>9. CASE /\ Grants /\ m.kind \in {"create", "join"} /\ Replies(m, "ok", issued')
           /\ issued = 0 \/ memory = None \/ (m.kind = "join" /\ m.token = memory)
  <2>1. issued' = issued + 1 /\ memory' = issued + 1
    BY <1>9 DEF Grants
  <2>2. MemoryLatest' /\ KnownIssued'
    <3>1. MemoryLatest'
      BY <1>5, <2>1 DEF MemoryLatest
    <3>2. \A t \in Known : t <= issued + 1
      BY <1>5, KnownTyped DEF TokenInv, KnownIssued
    <3> QED
      BY <1>6, <2>1, <3>1, <3>2 DEF KnownIssued
  \* The tokens still under way have all expired.
  <2>3. \A k \in DOMAIN replies : Granted(replies[k]) => replies[k].token <= lapsed
    <3> SUFFICES ASSUME NEW k \in DOMAIN replies, Granted(replies[k])
                 PROVE  replies[k].token <= lapsed
      OBVIOUS
    <3>1. /\ replies[k].token \in 1 .. issued
          /\ replies[k].token = issued \/ replies[k].token <= lapsed
          /\ m.token < replies[k].token
      BY <1>5 DEF TokenInv, NewsIssued, NewsGreater
    <3>2. CASE issued = 0
      BY <3>1, <3>2
    <3>3. CASE memory = None
      BY <1>5, <3>1, <3>3 DEF TokenInv, MemoryLatest
    <3>4. CASE memory # None /\ m.token = memory
      BY <3>1, <3>4 DEF TokenInv, MemoryLatest
    <3> QED
      BY <1>9, <3>2, <3>3, <3>4
  <2>4. NewsIssued'
    BY <1>1, <1>3, <1>5, <2>1, <2>3 DEF TokenInv, NewsIssued, Granted
  <2>5. NewsGreater'
    <3> SUFFICES ASSUME NEW k \in DOMAIN replies', Granted(replies'[k]), NEW t \in Known
                 PROVE  t < replies'[k].token
      BY <1>6 DEF NewsGreater, Granted
    <3>1. t <= issued /\ t \in Nat
      BY KnownTyped DEF TokenInv, KnownIssued
    <3> QED
      BY <1>3, <1>5, <2>1, <3>1 DEF TokenInv, NewsGreater
  <2>6. NewsOrdered'
    <3> SUFFICES ASSUME NEW k \in DOMAIN replies', NEW l \in DOMAIN replies', k < l,
                        Granted(replies'[k]), Granted(replies'[l])
                 PROVE  replies'[k].token < replies'[l].token
      BY DEF NewsOrdered, Granted
    <3>1. DOMAIN replies = 1 .. Len(replies) /\ Len(replies) \in Nat
      BY <1>1 DEF MessageTypes
    <3>2. k \in DOMAIN replies /\ replies'[k] = replies[k]
      BY <1>3, <3>1
    <3>3. replies[k].token <= lapsed /\ replies[k].token \in 1 .. issued
      BY <2>3, <3>2 DEF TokenInv, NewsIssued
    <3>4. CASE l \in DOMAIN replies /\ replies'[l] = replies[l]
      BY <3>2, <3>4 DEF TokenInv, NewsOrdered
    <3>5. CASE replies'[l].token = issued'
      BY <1>5, <2>1, <3>2, <3>3, <3>5
    <3> QED
      BY <1>3, <3>4, <3>5
  <2>7. LateJoin'
    <3> SUFFICES ASSUME NEW k \in DOMAIN wire', wire'[k].token = issued + 1
                 PROVE  FALSE
      BY <2>1 DEF LateJoin
    <3>1. wire'[k].token \in Known
      BY <1>2 DEF Known
    <3> QED
      BY <1>5, <3>1 DEF TokenInv, KnownIssued
  \* Whoever had a token that is still good waits for the new one.
  <2>8. Tells'
    <3> SUFFICES ASSUME NEW t \in {cache.token, stored.token}, t > lapsed, ~missed
                 PROVE  Told'
      BY <1>1 DEF Tells
    <3>1. t <= issued /\ lapsed # issued /\ issued # 0
      <4>1. t \in Known
        BY DEF Known, OldTokens
      <4>2. t \in Nat
        BY <4>1, KnownTyped
      <4> QED
        BY <1>5, <4>1, <4>2 DEF TokenInv, KnownIssued
    <3>2. m.kind = "join" /\ m.token = issued
      BY <1>5, <1>9, <3>1 DEF TokenInv, MemoryLatest
    <3>3. <<m.kind, m.form>> \in asked
      BY <1>2, <1>5, <3>1, <3>2 DEF TokenInv, LateJoin, m
    <3> DEFINE reply == [kind |-> m.kind, form |-> m.form, is |-> "ok", token |-> issued']
    <3>4. replies' = Append(replies, reply)
      BY <1>9, <3>3 DEF Replies
    <3>5. /\ Granted(reply) /\ reply.token = issued'
          /\ reply.kind = m.kind /\ reply.form = m.form
      BY <3>2 DEF Granted
    <3> HIDE DEF reply
    <3>6. Len(replies) + 1 \in DOMAIN replies' /\ replies'[Len(replies) + 1] = reply
      BY <1>1, <3>4 DEF MessageTypes
    <3> QED
      BY <1>1, <3>3, <3>5, <3>6 DEF Told, Granted
  <2> QED
    BY <2>2, <2>4, <2>5, <2>6, <2>7, <2>8 DEF TokenInv
<1> QED
  BY <1>4, <1>8, <1>9

LEMMA CleaningKeeps ==
  ASSUME TypesInv, TokenInv, Lapse \/ cleanExpiredRoomMemory \/ cleanupUser \/ cleanEmptyRooms
  PROVE  TokenInv'
<1>1. UNCHANGED <<issued, wire, replies, asked, cache, stored, forms, missed>>
  BY DEF Lapse, cleanExpiredRoomMemory, cleanupUser, cleanEmptyRooms, cacheVars, pageVars
<1>2. /\ issued \in Nat /\ lapsed \in Nat /\ lapsed <= issued
      /\ lapsed' \in Nat /\ lapsed <= lapsed'
  BY JoinBoundsAssumption
  DEF TypesInv, ServerTypes, Lapse, cleanExpiredRoomMemory, cleanupUser, cleanEmptyRooms
<1>3. MemoryLatest'
  BY <1>2 DEF TokenInv, MemoryLatest, Lapse, cleanExpiredRoomMemory, cleanupUser, cleanEmptyRooms, Expired
<1>4. Known' = Known
  BY <1>1 DEF Known, OldTokens
<1>5. KnownIssued' /\ NewsGreater' /\ NewsOrdered' /\ LateJoin'
  BY <1>1, <1>4 DEF TokenInv, KnownIssued, NewsGreater, NewsOrdered, LateJoin, Granted
<1>6. NewsIssued'
  <2> SUFFICES ASSUME NEW k \in DOMAIN replies, Granted(replies[k])
               PROVE  /\ replies[k].token \in 1 .. issued
                      /\ replies[k].token = issued \/ replies[k].token <= lapsed'
    BY <1>1 DEF NewsIssued, Granted
  <2> QED
    BY <1>2 DEF TokenInv, NewsIssued
<1>7. Tells'
  <2> SUFFICES ASSUME NEW t \in {cache.token, stored.token}, t > lapsed'
               PROVE  t = issued \/ missed \/ Told
    BY <1>1 DEF Tells, Told, Granted
  <2>1. t \in Nat
    BY KnownTyped DEF Known, OldTokens
  <2> QED
    BY <1>2, <2>1 DEF TokenInv, Tells
<1> QED
  BY <1>3, <1>5, <1>6, <1>7 DEF TokenInv

LEMMA NewSocketKeeps ==
  ASSUME TypesInv, TokenInv, reconnect \/ Reload
  PROVE  TokenInv'
<1>1. /\ wire' = <<>> /\ replies' = <<>> /\ UNCHANGED <<issued, lapsed, memory>>
      /\ missed' = (missed \/ Lost("create") \/ Lost("join"))
      /\ forms' = forms \/ forms' = <<>>
      /\ {cache'.token, stored'.token} \subseteq {None, cache.token, stored.token}
  BY DEF reconnect, Reload, NewSocket, Loaded, NoEntry, cacheVars
<1>2. Known' \subseteq Known
  BY <1>1 DEF Known, OldTokens
<1>3. MemoryLatest' /\ KnownIssued'
  BY <1>1, <1>2 DEF TokenInv, MemoryLatest, KnownIssued
<1>4. NewsIssued' /\ NewsGreater' /\ NewsOrdered' /\ LateJoin'
  BY <1>1 DEF NewsIssued, NewsGreater, NewsOrdered, LateJoin
<1>5. Told => missed'
  <2> SUFFICES ASSUME NEW k \in DOMAIN replies, Granted(replies[k])
               PROVE  missed'
    BY DEF Told
  <2>1. replies[k] \in Range(replies) /\ replies[k] \in Reply
    BY DEF Range, TypesInv, MessageTypes
  <2>2. Lost(replies[k].kind)
    BY <2>1 DEF Lost, UnderWay, Reply
  <2> QED
    BY <1>1, <2>2 DEF Granted
<1>6. Tells'
  <2> SUFFICES ASSUME NEW t \in {cache'.token, stored'.token}, t > lapsed
               PROVE  t = issued \/ missed'
    BY <1>1 DEF Tells
  <2>1. t # None
    BY JoinBoundsAssumption DEF TypesInv, ServerTypes, None
  <2> QED
    BY <1>1, <1>5, <2>1 DEF TokenInv, Tells
<1> QED
  BY <1>3, <1>4, <1>6 DEF TokenInv

\* Which steps bring a token, and which do not.
LEMMA AsksOld ==
  ASSUME MessageTypes, NEW kind \in Kinds, NEW f \in 0 .. MaxForms,
         NEW token \in {None} \cup Tokens, token \in OldTokens, Asks(kind, f, token),
         kind = "join" => <<"join", f>> \in asked'
  PROVE  WireOld
<1>1. \A k \in DOMAIN wire' :
        \/ k \in DOMAIN wire /\ wire'[k] = wire[k]
        \/ wire'[k].kind = kind /\ wire'[k].form = f /\ wire'[k].token = token
  BY AsksOneMore
<1> QED
  BY <1>1 DEF WireOld

LEMMA ShowsHomeOld ==
  ASSUME MessageTypes, NEW pending, ShowsHome(pending)
  PROVE  WireOld /\ pending \subseteq asked'
<1>1. "cached" \in Kinds /\ None \in OldTokens /\ "cached" # "join"
  BY DEF Kinds, OldTokens
<1>2. CASE Asks("cached", 0, None) /\ asked' = pending \cup {<<"cached", 0>>}
  BY <1>1, <1>2, NoneTyped, AsksOld
<1>3. CASE asked' = pending /\ wire' = wire
  BY <1>3 DEF WireOld
<1> QED
  BY <1>2, <1>3 DEF ShowsHome

LEMMA SetsOld ==
  ASSUME TabTypes, NEW f, NEW form, Sets(f, form), f \in DOMAIN forms => form.token \in OldTokens
  PROVE  FormsOld
<1>1. /\ DOMAIN forms' = DOMAIN forms
      /\ \A g \in DOMAIN forms : forms'[g] = forms[g] \/ (g = f /\ forms'[g] = form)
  BY DEF Sets, TabTypes
<1> QED
  BY <1>1 DEF FormsOld, OldTokens

LEMMA ShowsJoinOld ==
  ASSUME MessageTypes, TabTypes, NEW link \in BOOLEAN, NEW pending, ShowsJoin(link, pending)
  PROVE  WireOld /\ FormsOld /\ pending \subseteq asked'
<1>1. "exists" \in Kinds /\ Len(forms) + 1 \in 0 .. MaxForms /\ None \in OldTokens /\ "exists" # "join"
  BY CacheToken DEF Kinds, ShowsJoin, OldTokens
<1>2. WireOld
  BY <1>1, NoneTyped, AsksOld DEF ShowsJoin
<1>3. NewForm(link) \in Form /\ NewForm(link).token = None
  BY DEF NewForm, Form
<1>4. \A g \in DOMAIN forms' : (g \in DOMAIN forms /\ forms'[g] = forms[g]) \/ forms'[g] = NewForm(link)
  BY <1>3, Longer DEF ShowsJoin, TabTypes
<1> QED
  BY <1>1, <1>2, <1>3, <1>4 DEF FormsOld, OldTokens, ShowsJoin

LEMMA AllKept ==
  ASSUME \A a \in asked :
           \/ a \in asked' \/ a = <<"guard", 0>>
           \/ /\ replies # <<>> /\ ~Granted(Head(replies))
              /\ a = <<Head(replies).kind, Head(replies).form>>
  PROVE  PromisesKept
<1> SUFFICES ASSUME NEW kind \in {"create", "join"}, NEW f \in 0 .. MaxForms,
                    <<kind, f>> \in asked, <<kind, f>> \notin asked'
             PROVE  Refused(kind, f)
  BY DEF PromisesKept
<1>1. <<kind, f>> # <<"guard", 0>>
  OBVIOUS
<1>2. /\ replies # <<>> /\ ~Granted(Head(replies))
      /\ kind = Head(replies).kind /\ f = Head(replies).form
  BY <1>1
<1> QED
  BY <1>2 DEF Refused, Granted

LEMMA NothingNew ==
  /\ (UNCHANGED cacheVars => EntriesOld) /\ (Deletes => EntriesOld)
  /\ (wire' = wire => WireOld) /\ (forms' = forms => FormsOld)
<1>1. UNCHANGED cacheVars => EntriesOld
  BY DEF EntriesOld, cacheVars
<1>2. Deletes => EntriesOld
  BY DEF EntriesOld, Deletes, NoEntry
<1>3. wire' = wire => WireOld
  BY DEF WireOld
<1>4. forms' = forms => FormsOld
  BY DEF FormsOld, OldTokens
<1> QED
  BY <1>1, <1>2, <1>3, <1>4

LEMMA HomeQuiet ==
  ASSUME TypesInv, HomeStep
  PROVE  Quiet
<1>1. /\ MessageTypes /\ TabTypes /\ cache.token \in {None} \cup Tokens /\ cache.token \in OldTokens
      /\ None \in OldTokens
  BY CacheToken DEF TypesInv, OldTokens
<1>2. CASE onCreateRoom
  <2>1. WireOld
    BY <1>1, <1>2, NoneTyped, AsksOld DEF onCreateRoom, Kinds
  <2>2. PromisesKept
    BY <1>2, AllKept DEF onCreateRoom, Pends
  <2> QED
    BY <1>2, <2>1, <2>2, NothingNew DEF onCreateRoom, pageVars, Quiet, NoNews
<1>3. CASE onClearCachedRooms
  <2>1. PromisesKept
    BY <1>3, AllKept DEF onClearCachedRooms
  <2> QED
    BY <1>3, <2>1, NothingNew DEF onClearCachedRooms, pageVars, Quiet, NoNews
<1>4. CASE OpenRoom
  <2>1. WireOld
    BY <1>1, <1>4, NoneTyped, AsksOld DEF OpenRoom, Kinds
  <2>2. PromisesKept
    BY <1>4, AllKept DEF OpenRoom, Pends
  <2> QED
    BY <1>4, <2>1, <2>2, NothingNew DEF OpenRoom, pageVars, Quiet, NoNews
<1>5. ASSUME NEW link \in BOOLEAN, OpenJoin(link)
      PROVE  Quiet
  <2>1. WireOld /\ FormsOld /\ Unguarded \subseteq asked'
    BY <1>1, <1>5, ShowsJoinOld DEF OpenJoin
  <2>2. PromisesKept
    BY <2>1, AllKept DEF Unguarded
  <2> QED
    BY <1>5, <2>1, <2>2, NothingNew DEF OpenJoin, Quiet, NoNews
<1> QED
  BY <1>2, <1>3, <1>4, <1>5 DEF HomeStep

LEMMA JoinQuiet ==
  ASSUME TypesInv, JoinStep
  PROVE  Quiet
<1>1. /\ MessageTypes /\ TabTypes /\ cache.token \in {None} \cup Tokens /\ cache.token \in OldTokens
      /\ None \in OldTokens /\ Len(forms) \in 0 .. MaxForms
      /\ \A f \in DOMAIN forms : /\ forms[f] \in Form /\ forms[f].token \in OldTokens
                                 /\ f \in 0 .. MaxForms
  BY CacheToken DEF TypesInv, TabTypes, OldTokens
<1>2. \A f \in DOMAIN forms : forms[f].token \in {None} \cup Tokens
  BY <1>1 DEF Form
<1>3. {"join", "valid"} \subseteq Kinds
  BY DEF Kinds
<1>4. CASE Types
  <2>1. FormsOld
    <3>1. Len(forms) \in DOMAIN forms => [Current EXCEPT !.name = "given"].token \in OldTokens
      BY <1>1 DEF Current, Last, Form
    <3> QED
      BY <1>1, <1>4, <3>1, SetsOld DEF Types
  <2>2. PromisesKept
    BY <1>4, AllKept DEF Types
  <2> QED
    BY <1>4, <2>1, <2>2, NothingNew DEF Types, Quiet, NoNews
<1>5. CASE onJoinRoom
  <2>1. FormsOld
    <3>1. Len(forms) \in DOMAIN forms => [Current EXCEPT !.enabled = FALSE].token \in OldTokens
      BY <1>1 DEF Current, Last, Form
    <3> QED
      BY <1>1, <1>5, <3>1, SetsOld DEF onJoinRoom
  <2>2. WireOld
    BY <1>1, <1>3, <1>5, NoneTyped, AsksOld DEF onJoinRoom, Pends
  <2>3. PromisesKept
    BY <1>5, AllKept DEF onJoinRoom, Pends
  <2> QED
    BY <1>5, <2>1, <2>2, <2>3, NothingNew DEF onJoinRoom, Quiet, NoNews
<1>6. ASSUME NEW f \in DOMAIN forms, Validates(f)
      PROVE  Quiet
  <2>1. FormsOld
    <3>1. [forms[f] EXCEPT !.name = "asked"].token \in OldTokens
      BY <1>1 DEF Form
    <3> QED
      BY <1>1, <1>6, <3>1, SetsOld DEF Validates
  <2>2. WireOld
    BY <1>1, <1>3, <1>6, AsksOld DEF Validates
  <2>3. PromisesKept
    BY <1>6, AllKept DEF Validates, Pends
  <2> QED
    BY <1>6, <2>1, <2>2, <2>3, NothingNew DEF Validates, Quiet, NoNews
<1>7. ASSUME NEW f \in DOMAIN forms, TimerFires(f)
      PROVE  Quiet
  <2>1. FormsOld
    <3>1. /\ [forms[f] EXCEPT !.timer = "done", !.enabled = FALSE].token \in OldTokens
          /\ [forms[f] EXCEPT !.timer = "done"].token \in OldTokens
      BY <1>1 DEF Form
    <3> QED
      BY <1>1, <1>7, <3>1, SetsOld DEF TimerFires
  <2>2. WireOld
    <3>1. CASE Asks("join", f, forms[f].token) /\ asked' = asked \cup {<<"join", f>>}
      BY <1>1, <1>2, <1>3, <3>1, AsksOld
    <3>2. CASE wire' = wire
      BY <3>2, NothingNew
    <3> QED
      BY <1>7, <3>1, <3>2 DEF TimerFires, Pends
  <2>3. PromisesKept
    BY <1>7, AllKept DEF TimerFires, Pends
  <2> QED
    BY <1>7, <2>1, <2>2, <2>3, NothingNew DEF TimerFires, Quiet, NoNews
<1> QED
  BY <1>4, <1>5, <1>6, <1>7 DEF JoinStep

LEMMA HearQuiet ==
  ASSUME TypesInv, OnCached \/ OnGuard \/ OnExists \/ OnValid \/ OnJoinRefused \/ HearsLate
  PROVE  Quiet
<1>1. /\ MessageTypes /\ TabTypes /\ cache.token \in {None} \cup Tokens /\ cache.token \in OldTokens
      /\ None \in OldTokens /\ \A f \in DOMAIN forms : forms[f] \in Form /\ forms[f].token \in OldTokens
  BY CacheToken DEF TypesInv, OldTokens
<1>2. UNCHANGED serverVars /\ replies # <<>> /\ replies' = Tail(replies)
  BY DEF OnCached, OnGuard, OnExists, OnValid, OnJoinRefused, HearsLate, Hears
<1>3. CASE HearsLate
  <2>1. PromisesKept
    BY <1>3, AllKept DEF HearsLate
  <2>2. FormsOld /\ EntriesOld /\ WireOld /\ missed' = missed
    BY <1>3, NothingNew DEF HearsLate, pageVars
  <2> QED
    BY <1>2, <1>3, <2>1, <2>2 DEF HearsLate, Awaited, Answer, Quiet, NoNews
<1>4. CASE OnCached \/ OnGuard \/ OnExists \/ OnValid \/ OnJoinRefused
  <2>1. ~Granted(Head(replies)) /\ missed' = missed
    BY <1>4 DEF OnCached, OnGuard, OnExists, OnValid, OnJoinRefused, Hears, Answer, Granted
  <2>2. ASSUME Heard \ {<<"guard", 0>>} \subseteq asked'
        PROVE  PromisesKept
    <3>1. \A a \in asked : \/ a \in asked' \/ a = <<"guard", 0>>
                           \/ a = <<Head(replies).kind, Head(replies).form>>
      BY <2>2 DEF Heard, Answer
    <3> QED
      BY <1>2, <2>1, <3>1, AllKept
  <2>3. CASE OnCached
    BY <1>2, <2>1, <2>2, <2>3, NothingNew DEF OnCached, pageVars, Quiet, NoNews
  <2>4. CASE OnGuard
    <3>1. WireOld /\ FormsOld /\ Heard \subseteq asked'
      BY <1>1, <2>4, GuardHeard, ShowsJoinOld, ShowsHomeOld, NothingNew DEF pageVars
    <3> QED
      BY <1>2, <2>1, <2>2, <2>4, <3>1, NothingNew DEF OnGuard, Quiet, NoNews
  <2>5. CASE OnExists
    <3>1. WireOld /\ Heard \ {<<"guard", 0>>} \subseteq asked'
      BY <1>1, <2>5, ShowsHomeOld, NothingNew DEF OnExists
    <3>2. FormsOld
      <4>1. CASE Answer.is # "ok"
        BY <2>5, <4>1, NothingNew DEF OnExists, pageVars
      <4>2. ASSUME NEW f, NEW by, NEW name, NEW timer,
                   Sets(f, [forms[f] EXCEPT !.link = FALSE, !.by = by, !.token = cache.token,
                                            !.old = cache.kept, !.enabled = TRUE, !.name = name,
                                            !.timer = timer])
            PROVE  FormsOld
        <5>1. ASSUME f \in DOMAIN forms
              PROVE  [forms[f] EXCEPT !.link = FALSE, !.by = by, !.token = cache.token,
                                      !.old = cache.kept, !.enabled = TRUE, !.name = name,
                                      !.timer = timer].token \in OldTokens
          BY <1>1, <5>1 DEF Form
        <5> QED
          BY <1>1, <4>2, <5>1, SetsOld
      <4> QED
        BY <2>5, <4>1, <4>2 DEF OnExists
    <3> QED
      BY <1>2, <2>1, <2>2, <2>5, <3>1, <3>2, NothingNew DEF OnExists, Quiet, NoNews
  <2>6. CASE OnValid
    <3>1. FormsOld
      <4> DEFINE form == [forms[Answer.form] EXCEPT !.name = IF Answer.is = "ok" THEN "free" ELSE "taken"]
      <4>1. Answer.form \in DOMAIN forms => form.token \in OldTokens
        BY <1>1 DEF Form
      <4> QED
        BY <1>1, <2>6, <4>1, SetsOld DEF OnValid
    <3>2. EntriesOld
      <4>1. ForgetsToken => cache'.token = None /\ stored' = stored
        BY <1>1 DEF ForgetsToken, TabTypes, Entry, NoEntry
      <4>2. ForgetsToken => EntriesOld
        BY <4>1 DEF EntriesOld
      <4> QED
        BY <2>6, <4>2, NothingNew DEF OnValid
    <3> QED
      BY <1>2, <2>1, <2>2, <2>6, <3>1, <3>2, NothingNew DEF OnValid, Quiet, NoNews
  <2>7. CASE OnJoinRefused
    <3>1. FormsOld
      <4> DEFINE form == [forms[Answer.form] EXCEPT !.enabled = TRUE, !.name = "unchecked"]
      <4>1. Answer.form \in DOMAIN forms => form.token \in OldTokens
        BY <1>1 DEF Form
      <4> QED
        BY <1>1, <2>7, <4>1, SetsOld DEF OnJoinRefused
    <3> QED
      BY <1>2, <2>1, <2>2, <2>7, <3>1, NothingNew DEF OnJoinRefused, Quiet, NoNews
  <2> QED
    BY <1>4, <2>3, <2>4, <2>5, <2>6, <2>7
<1> QED
  BY <1>3, <1>4

LEMMA HearNews ==
  ASSUME TypesInv, OnceInv, TokenInv, OnCreated \/ OnJoined
  PROVE  News
<1> DEFINE t == Answer.token
<1>1. /\ UNCHANGED serverVars /\ replies # <<>> /\ replies' = Tail(replies) /\ Granted(Answer)
      /\ MessageTypes /\ TabTypes
  <2>1. CASE OnJoined
    BY <2>1 DEF OnJoined, Hears, Answer, Granted, TypesInv
  <2>2. CASE OnCreated
    <3>1. /\ UNCHANGED serverVars /\ replies # <<>> /\ replies' = Tail(replies)
          /\ Answer.kind = "create" /\ MessageTypes /\ TabTypes
      BY <2>2 DEF OnCreated, Hears, Answer, TypesInv
    <3>2. Answer.is = "ok"
      BY <3>1, Shorter DEF OnceInv, RepliesPlaced, Answer, MessageTypes
    <3> QED
      BY <3>1, <3>2 DEF Granted
  <2> QED
    BY <2>1, <2>2
<1>2. t \in {None} \cup Tokens /\ cache.token # t
  <2>1. 1 \in DOMAIN replies /\ Answer = replies[1] /\ Answer \in Reply
    BY <1>1, Shorter DEF MessageTypes, Answer
  <2>2. cache.token < t
    BY <1>1, <2>1 DEF TokenInv, NewsGreater, Known, OldTokens
  <2>3. t \in {None} \cup Tokens /\ cache.token \in Nat
    BY <2>1, KnownTyped DEF Reply, Known, OldTokens
  <2>4. {None} \cup Tokens \subseteq Nat
    BY JoinBoundsAssumption DEF None, Tokens
  <2> QED
    BY <2>2, <2>3, <2>4
<1> HIDE DEF t
<1>3. ASSUME NEW prompt, Saves([kept |-> TRUE, token |-> t, prompt |-> prompt])
      PROVE  cache'.token = t /\ stored'.token = t
  BY <1>2, <1>3 DEF Saves, Differs
<1>4. cache'.token = t /\ stored'.token = t
  BY <1>3 DEF OnCreated, OnJoined, Joined, t
<1>5. FormsOld
  BY NothingNew DEF OnCreated, OnJoined, pageVars
<1>6. \A k \in DOMAIN wire' :
        (\E l \in DOMAIN wire : wire'[k] = wire[l]) \/ (wire'[k].kind = "guard" /\ wire'[k].token = t)
  <2>1. CASE Asks("guard", 0, t)
    BY <1>1, <1>2, <2>1, NoneTyped, AsksOneMore DEF Kinds
  <2>2. CASE wire' = wire
    BY <2>2
  <2> QED
    BY <1>4, <2>1, <2>2 DEF OnCreated, OnJoined, t
<1> QED
  BY <1>1, <1>4, <1>5, <1>6 DEF News, Answer, t

LEMMA LeaveQuiet ==
  ASSUME TypesInv, LeaveJoin \/ \E prevent \in BOOLEAN : LeaveRoom(prevent)
  PROVE  Quiet
<1>1. MessageTypes /\ TabTypes /\ cache.token \in OldTokens /\ None \in OldTokens
  BY DEF TypesInv, OldTokens
<1>2. CASE LeaveJoin
  <2>1. WireOld /\ Unguarded \subseteq asked'
    BY <1>1, <1>2, ShowsHomeOld DEF LeaveJoin
  <2>2. PromisesKept
    BY <2>1, AllKept DEF Unguarded
  <2> QED
    BY <1>2, <2>1, <2>2, NothingNew DEF LeaveJoin, Quiet, NoNews
<1>3. ASSUME NEW prevent \in BOOLEAN, LeaveRoom(prevent)
      PROVE  Quiet
  <2>1. EntriesOld
    <3>1. CASE UNCHANGED cacheVars
      BY <3>1, NothingNew
    <3>2. CASE Saves([cache EXCEPT !.prompt = prevent])
      <4>1. [cache EXCEPT !.prompt = prevent].token = cache.token
        BY <1>1 DEF TabTypes, Entry, NoEntry
      <4> QED
        BY <3>2, <4>1, NothingNew DEF Saves, EntriesOld
    <3> QED
      BY <1>3, <3>1, <3>2 DEF LeaveRoom
  <2>2. WireOld
    BY <1>1, <1>3, LeavesLast DEF WireOld
  <2>3. PromisesKept
    BY <1>3, AllKept DEF LeaveRoom, Pends
  <2> QED
    BY <1>3, <2>1, <2>2, <2>3, NothingNew DEF LeaveRoom, Quiet, NoNews
<1> QED
  BY <1>2, <1>3

LEMMA TimeoutQuiet ==
  ASSUME TypesInv, NEW kind, NEW f, Timeout(kind, f)
  PROVE  Quiet
<1>1. WireOld /\ asked \ {<<kind, f>>} \subseteq asked'
  BY ShowsHomeOld, NothingNew DEF Timeout, TypesInv
<1>2. missed => missed'
  BY DEF Timeout
<1>3. PromisesKept
  <2> SUFFICES ASSUME NEW k \in {"create", "join"}, NEW g \in 0 .. MaxForms,
                      <<k, g>> \in asked, <<k, g>> \notin asked'
               PROVE  missed'
    BY DEF PromisesKept
  <2>1. kind = k
    BY <1>1
  <2> QED
    BY <2>1 DEF Timeout
<1> QED
  BY <1>1, <1>2, <1>3, NothingNew DEF Timeout, Quiet, NoNews

LEMMA TokenInvariant == Spec => [](TypesInv /\ TokenInv)
<1>1. Init => TokenInv
  <2> SUFFICES ASSUME Init
               PROVE  TokenInv
    OBVIOUS
  <2>1. /\ wire = <<>> /\ replies = <<>> /\ forms = <<>> /\ memory = None /\ issued = 0 /\ lapsed = 0
        /\ cache.token = None /\ stored.token = None /\ None = 0
    BY DEF Init, NoEntry, None
  <2>2. Known = {0}
    BY <2>1 DEF Known, OldTokens
  <2> QED
    BY <2>1, <2>2 DEF TokenInv, MemoryLatest, KnownIssued, NewsIssued, NewsGreater, NewsOrdered,
                      LateJoin, Tells
<1>2. TypesInv /\ OnceInv /\ PageInv /\ TokenInv /\ [Next]_joinVars => TokenInv'
  <2> SUFFICES ASSUME TypesInv, OnceInv, PageInv, TokenInv, [Next]_joinVars
               PROVE  TokenInv'
    OBVIOUS
  <2>1. CASE ServerStep
    BY <2>1, ServeKeeps, CleaningKeeps DEF ServerStep
  <2>2. CASE HomeStep
    BY <2>2, HomeQuiet, QuietKeeps
  <2>3. CASE JoinStep
    BY <2>3, JoinQuiet, QuietKeeps
  <2>4. CASE HearStep
    BY <2>4, HearQuiet, HearNews, QuietKeeps, NewsKeeps DEF HearStep
  <2>5. CASE LeaveStep
    BY <2>5, LeaveQuiet, QuietKeeps, NewSocketKeeps DEF LeaveStep
  <2>6. ASSUME NEW a \in asked, Timeout(a[1], a[2])
        PROVE  TokenInv'
    BY <2>6, TimeoutQuiet, QuietKeeps
  <2>7. CASE UNCHANGED joinVars
    <3>1. PromisesKept
      BY <2>7, AllKept DEF joinVars
    <3> QED
      BY <2>7, <3>1, NothingNew, QuietKeeps DEF joinVars, pageVars, Quiet, NoNews
  <2> QED
    BY <2>1, <2>2, <2>3, <2>4, <2>5, <2>6, <2>7 DEF Next
<1>3. QED
  BY <1>1, <1>2, PageInvariant, PTL DEF Spec

\* The token a tab remembers opens the room again, unless it has expired, a newer
\* one is under way to the tab, or the reply that brought one was lost (saveRoom,
\* deleteRoom and the handlers of controller.ts that issue tokens).
THEOREM TokensRemembered == Spec => []TokenRemembered
<1>1. TypesInv /\ TokenInv => TokenRemembered
  <2> SUFFICES ASSUME TypesInv, TokenInv, ~missed,
                      \A m \in Range(replies) : m.kind \in {"create", "join"} => m.is # "ok",
                      NEW entry \in {cache, stored}, entry.token > lapsed
               PROVE  memory = entry.token
    BY DEF TokenRemembered
  <2>1. ~Told
    BY DEF Told, Granted, Range
  <2>2. entry.token = issued
    BY <2>1 DEF TokenInv, Tells
  <2>3. lapsed \in Nat /\ issued \in Nat
    BY DEF TypesInv, ServerTypes
  <2> QED
    BY <2>2, <2>3 DEF TokenInv, MemoryLatest
<1> QED
  BY <1>1, TokenInvariant, PTL
=============================================================================
