# lepeerchat: a verification development

lepeerchat is a peer-to-peer video chat. A Node server (`src/server`) keeps *rooms* and relays
the signalling messages of the browsers in a room; the browsers (`src/client`) then talk to each
other directly over WebRTC. This directory holds TLA+ modules that model that program, the TLC
configurations that check them on small instances, and proofs that TLAPS checks for every instance.

Read first: `RoomServer.tla` (the server), then `RoomAccess.tla` (what it promises),
`RoomServerAccess.tla` (that it keeps the promise), `RoomServerNames.tla` (when two users may carry
one name) and `RoomServerClaims.tla` (what the repository says of it and does not hold). On the page's
side: `SocketClient.tla` (its connection and its requests, which implement `Requests.tla`),
`JoinFlow.tla` (how it gets into a room and back), `RoomSession.tla` (what the pages in a room see of
each other), `PeerNegotiation.tla` (what becomes of the link between two of them), `MediaControl.tla`
(the stream a participant shares) and `ChatLog.tla` (the chat).

    tlc -workers 2 -config MCRoomServer_overlap.cfg MCRoomServer      # one run
    tlapm RoomServerProofs.tla          # proofs; also RoomServerSafetyProofs, SocketClientProofs,
                                        # JoinFlowProofs, ChatLogProofs, RoomSessionProofs,
                                        # MediaControlProofs, PeerNegotiationProofs

## 1. Inventory

### Server (`src/server/src`)

| component | state | operations | talks to |
|---|---|---|---|
| room access control (`controller.ts`, `model/room.ts`) | `rooms` map; per room `_users`, `_userTokenMemory`, `_ownerUsername`, `_locked`, `_invitations`, `_lastVisitorDate`; per user `_roomId` | createRoom, joinRoom (invitation or token), generateInvitation, lockRoom, leaveRoom, renewToken, getRoom, roomExists, usernameValid, guard | called by the router; awaits the token promises; pushes to the users of the room |
| websocket lifecycle (`ws.ts`, `model/user.ts`) | `users` map; per user the socket, `_lastPong` | upgrade, `waitWebsocketOpen` (three tries in two seconds), onmessage, onerror, onclose, pong | cleans up in `users` and in the room |
| garbage collector (`utils/gc.ts`) | one interval timer | four cleaners in one pass: disconnected users, empty rooms, expired memory entries, expired invitations | writes `rooms`, `users`, the rooms |
| tokens and invitations (`utils/jwt.ts`, `model/invitation.ts`) | a process-wide secret; nothing else | build and validate an HMAC token (both asynchronous), build an invitation | called by rooms and controller |
| routing and validation (`ws-router.ts`, `interfaces/`) | none | validate a message, dispatch it | controller |

### Client (`src/client/src/app`)

| component | state | operations | talks to |
|---|---|---|---|
| signalling view of a room (`utils/room-state.ts`, `injectables/room.service.ts`) | the list of peers, one controller each, their roles | GET_ROOM reply, the pushes, local stream changes | websocket client, peer negotiation |
| peer negotiation (`utils/peer-controller.ts`) | the signalling state and four flags, the data channel, the remote stream | offer, answer, candidate, collisions, connection states, receipts | the server's relays; the other browser |
| websocket client (`utils/web-socket-proxy.ts`, `socket.service.ts`, `app.component.ts`) | ready state, the pending connection attempts, the shared message stream | connect, disconnect, send a request and wait for its reply or its timeout, pong | server |
| room cache and join flow (`cache-manager.service.ts`, `join-room`, `create-room`, `cached-rooms`, the guards, `room`) | remembered rooms, their tokens | save, update, delete; join by invitation or by token; enter and leave | websocket client, local storage |
| chat (`chat.component.ts`) | the message log, the last receipt of each peer | send, receive, acknowledge, announce who comes and goes | data channels, room view |
| media (`media-controller`, `media-player*`) | the form, the share state, the local stream, the own player | submit, ask for devices, replace and stop tracks, leave | the browser's prompts, the senders of each peer |

### What is hard here

* **Continuations.** `joinRoom` checks the name, the lock and the invitation, *then* awaits the
  token, *then* adds the user (`controller.ts:243-247`, `room.ts:157-166`). Anything may happen
  between the two: a close, a leave, another join, a collection, a lock.
* **Cleaning up.** A user is taken out of its room by leaveRoom, onclose, onerror, a readiness
  failure and the collector, in any order and more than once.
* **Names.** A name is reserved by the token remembered for it, not by its bearer's presence; the
  collector deletes the entries of expired tokens, whether or not the bearer is connected, and a name is
  checked before the await that ends with its being remembered.
* **Time.** Tokens (6h), invitations (1h), empty rooms (30 min), pongs: four dates, compared
  in different places, some only by the collector.
* **Two sides.** Both peers of a pair may offer at once, and pushes may overtake a GET_ROOM reply.
* **Streams without owners.** Every socket a page ever made feeds the same two subjects; timeouts count
  from the last emission of those subjects, and nobody is unsubscribed when a socket is replaced.
* **Copies.** A page holds the room's token in memory and in localStorage, the server holds a third one,
  and each of the three may be replaced while a message with another is on its way.
* **Prompts.** A browser's question for a device may stay open while the next submission is made, and be
  answered when the page is gone.

`PROJECT.json` lists each of these hazards at its line, with the property that covers it or the
reason why none does.

### What makes each component correct

* access control: in on invitation only; a lock stops new guests; names unique but for the joins that
  overlap; a guest may come back; a reserved name stays reserved.
* websocket lifecycle: whoever loses its socket leaves its room.
* collector: a room is discarded after a whole lifespan without anybody, and not before; expired
  invitations go.
* room view: no peer listed twice; exactly one of two peers initiates.
* negotiation: answers meet their own offers, the impolite end comes to rest stable after any collision,
  the host is seen, and the channel opens unless every candidate came too early.
* websocket client: a reply goes to the request that asked; a request ends, once; a loss is noticed and
  the page it interrupted is found again.
* join flow: the token a tab remembers is the one the server remembers; what is persisted is what
  was saved; the room's page is shown to members only.
* media: the share state describes the stream, peers are sent all of it, and nothing is left on.
* chat: logs sorted by date, every message received shown (which the code does not keep for one that is older
  than the log), truthful seen marks, complete at rest over channels that have not failed.

## 2. Modules and plan

| module | models | state |
|---|---|---|
| `RoomServer` | the server: controller, rooms, websockets, collector, clock | done |
| `RoomAccess` | abstract promise: rooms on invitation only, lockable | done |
| `RoomServerAccess` | refinement of `RoomAccess` by `RoomServer` | done |
| `RoomServerNames` | history of overlapping joins, and the uniqueness of names up to them | done |
| `RoomServerClaims` | what documents say and the server does not do | done |
| `MCRoomServer` | TLC instance of the five | done |
| `RoomServerProofs`, `RoomServerSafetyProofs` | the server's types, its safety properties and the refinement, proved | done |
| `RoomSession`, `MCRoomSession` | joins, leaves, pushes, GET_ROOM and lock as the pages of a room see them | done |
| `PeerNegotiation`, `MCPeerNegotiation` | the two `OtherPeer`s of one link, the browsers' connections and both transports | done |
| `SocketClient`, `MCSocketClient` | one page's sockets, requests, replies and timeouts, and the app that reconnects | done |
| `Requests` | abstract promise of `SocketService.send`, which `SocketClient` refines | done |
| `JoinFlow`, `MCJoinFlow` | one tab's way into a room: cache, storage, guards, validators, automatic join | done |
| `MediaControl`, `MCMediaControl` | overlapping submissions of the stream manager, senders, own player | done |
| `ChatLog`, `MCChatLog` | logs, messages and receipts of the pages of a room | done |
| `SocketClientProofs` | losses of the connection, requests and the refinement of `Requests`, keeping alive, proved | done |
| `JoinFlowProofs` | what the tab remembers and shows, proved | done |
| `ChatLogProofs` | order of the logs and truth of the seen marks, proved | done |
| `RoomSessionProofs` | what the pages of a room may rely on, proved | done |
| `MediaControlProofs` | state, stream, senders and devices in step, proved | done |
| `PeerNegotiationProofs` | answers fit their offers, the impolite end's are answered, the host is seen, proved | done |

The models cut the system where its parts meet. `RoomServer` decides who is a member;
`RoomSession` takes that decision as a free choice (`ServeJoin` or `RefuseJoin`) and adds the two
directions of each websocket and the pages at its ends; `PeerNegotiation` starts where two pages of
`RoomSession` know each other, one impolite (`OnRoom`) and one polite (`OnUserConnected`);
`ChatLog` starts where their channel may open, `MediaControl` ends where a stream is handed to
a peer. `SocketClient` is the page's end of any websocket; `JoinFlow` puts a tab over it, whose
requests end by an answer or a timeout as `Requests` promises, and in front of the server as far as
one room and one name go.
Abstract specifications worth stating next: the agreed membership for `RoomSession`, and a link
that is down, being set up or up for `PeerNegotiation`.

## 3. `RoomServer`: how it corresponds to the code

The server is one event loop. A handler runs to its end before the next event, so every handler
is one action; a promise it starts is a *job* that waits in a slot and ends in an action of its own.

| in the model | in the code |
|---|---|
| `ws`, `awaited`, `lastPong` | readyState of each socket, pending `waitWebsocketOpen`, `User._lastPong` |
| `roomOf`, `registered`, `live` | `User._roomId`, the keys of `users` and of `rooms` |
| `users`, `before` | `Room._users` and the insertion order of that Map, which `getOwnerId` reads |
| `tokenMemory`, `ownerUsername`, `locked`, `invitations`, `lastVisitorDate` | the fields of `Room` |
| `job` | the continuations of `buildRoom`, `validateToken`, `addUser`, `buildToken` |
| `handed` | the tokens sent on an open socket: all a client can present |
| `guests`, `built`, `lastSeen` | history for the properties; no guard reads them |

* A **request** reaches its handler through the router's validation; `RequestStep` is that
  choice. A refusal changes nothing on the server and is a stuttering step, as are the handlers that
  only read or relay.
* **joinRoom by token** is three events: `JoinByToken` (the date is checked when `validateToken`
  is called), `TokenAccepted` or `TokenRefused` (the room, the memory and the names are read after the
  signature has been verified) and `JoinDone`. By invitation it is two.
* **JoinDone** writes to the Room object the closure holds, discarded or not: rooms that have
  left `live` keep their state, and the id is never used again (`Fresh`).
* A **token** is its signed payload: HMAC is deterministic, so two tokens built for one name
  in one unit of time are the same string. A forged token is refused and is a stuttering step.
  An **invitation** is its expiry date: id and password are random and known only through the link.
* `Drop` is the moment a socket leaves OPEN, `OnClose` the callback; between the two `user.send`
  drops what it is given (`user.ts:59`), and the handler may still be running for that user.
* `CollectGarbage` is one interval callback: the four cleaners see each other's results through the
  primed variables, in the order of `gc.ts:104-125`. The entries of expired tokens are deleted in that step:
  `validateToken` looks at the date before it awaits anything, so its catch handler (`gc.ts:81-84`) runs as
  soon as the pass has ended, before any other event.
* `RoomServerNames` adds `raced`: the names under which two joins of a room were pending at once
  (`controller.ts:348` checks a name, `room.ts:157-166` records it after an await), for as long as the name
  is double. No guard reads it.
* `BuildFailed`: WebCrypto may reject; the handler answers CannotGenerateToken and what it set
  before (`setRoomId`) stays.

## 4. `RoomSession` and `PeerNegotiation`: how they correspond to the code

A **client** of `RoomSession` is one page with one websocket. Requests and pushes are FIFO queues,
one each way; a page hears one message at a time.

| in the model | in the code |
|---|---|
| `sock`, `members`, `adding`, `pointing`, `locked` | the socket, `Room._users`, pending `addUser`, `User._roomId`, `Room._locked` |
| `requests`, `pushes` | the two directions of the websocket |
| `page`, `stays` | join page, waiting for the join or for GET_ROOM, room page; joins so far |
| `list`, `lockView` | `RoomState._room.users` (how often each id is in it) and `.locked` |
| `role` | the controller for each peer, by its `initiate` argument |
| `manager` | the owner's popup: its room object is taken with `first()` when it opens |

* A push that comes before the GET_ROOM reply is heard by nobody (`room-state.ts:388-393`): every
  handler of a push does nothing unless the page is `"room"`.
* `OnUserConnected` appends without looking and makes a controller only for an id not listed;
  `OnUserDisconnected` takes every occurrence out.
* `ServeGetRoom` is guarded by membership because a page only asks after it was told it joined, and
  its own leave would be behind the request in the queue.

An **end** of `PeerNegotiation` is an `OtherPeer` with its `RTCPeerConnection`.

| in the model | in the code |
|---|---|
| `role`, `making`, `ignoring`, `aborted` | `_isPolite`, `_makingOffer`, `_ignoreOffer`, `_abortedOwnOffer` |
| `share`, `view` | whether `_outStream` and `_inStream` hold a stream |
| `channel` | `_dataChannel` and its ready state |
| `ops` | the browser's operations chain: createOffer, setLocalDescription and so on run one at a time; a `.then` chains the next behind what has come meanwhile |
| `signaling`, `pending`, `session` | `signalingState`, the pending description, the offer of the current ones |
| `raised`, `media`, `sending` | the negotiation-needed flag, a section for a stream, the stream being in it |
| `net[e]["relay"]`, `net[e]["direct"]` | messages through the server and through the data channel, each FIFO, not ordered between them |

* The way of an offer is chosen when the negotiation starts, the way of an answer is the way of its
  offer, the way of a candidate is chosen when it is found: so messages overtake each other
  around the opening of the channel.
* A **description** is reduced to what the code and the properties tell apart: its type, the offer
  it is or answers, whether there is a section for a stream and a stream in it, whether a
  candidate is already in it.
* The browser's part (rejections in the wrong signalling state, implicit rollback of a local offer by
  a remote one, negotiation-needed only when stable and with nothing chained) follows the WebRTC
  specification the code is written against and is marked external where no line of the code shows it.
* The link is reachable when one end knows a candidate of the other: checks from one side show the
  other the way.

### `SocketClient`

| in the model | in the code |
|---|---|
| `socket` | every `WebSocket` `connect` has made; `WebSocketProxy._socket` is the last |
| `sent`, `back` | the two directions of each, FIFO; `KeepAlive` is a ping one way and a pong the other |
| `opening`, `unsent`, `request`, `due` | the subscriptions of `connect` and `send` to the two subjects, and which of their timers is next to fire |
| `status`, `listens`, `route`, `restoreRoute`, `restoring` | `connectionState`, the subscription to events, `Router.url`, `_restoreRoute`, the navigation to it |

* `Elapse` makes due the waits of that moment: as rxjs' `timeout` is restarted by each emission, every
  message that is not a ping (`OnMessage`) makes nobody due.
* `OnOpen` is heard by all that wait for an open socket, whichever socket opened; they write to the
  current one.
* An invalid request is handled without a reply (`ws-router.ts:117-119` only logs it); `Requests` leaves open
  whether what was handled is answered.
* `reconnect` leaves the page first: the navigation to `/` ends a restoring one, whose `finally` clears
  the route to restore.

### `JoinFlow`

One tab, one room, one name. A **token** is a number in the order of issue. The server is reduced to
what concerns the name: the token remembered for it, and whether its bearer is in the room by this
connection or by one whose end was not noticed yet.

| in the model | in the code |
|---|---|
| `cache`, `stored` | the room's entry in `CacheManagerService._cachedRooms` and in localStorage |
| `asked`, `wire`, `replies` | pending promises of `SocketService.send`, messages under way |
| `page`, `forms` | the route; every `JoinRoomComponent` made, as validators and timers outlive the page |
| `missed` | history: a join's or creation's reply was lost with its connection or timed out |

* `Differs` is why `ForgetsToken` does not reach the storage: the validator deletes the token from the
  object in the map and then saves a copy of it, which `saveRoom` finds equal (`join-room.component.ts:136-141`).
* `Timeout`: most handlers read `err.error.type`, which a `SocketError` has not, and fail themselves:
  the form stays disabled. `RoomGuard` goes home.
* The name check (`Validates`, `OnValid`) and the two seconds of the automatic join (`TimerFires`) run side by
  side; `TimerFires` looks at the form once.

### `MediaControl`

| in the model | in the code |
|---|---|
| `form`, `valid`, `open` | the popup's form, its validity when it last changed, `showSelector` |
| `shareState`, `local`, `version` | `_shareState`, the tracks of `_localStream` with their labels, the submission that made it |
| `shares`, `jobs` | submissions so far; the runs of `onUpdateShareState` not over: what was wanted, the cloned stream, the two promises |
| a track `<<k, n>>` | the track of kind `k` asked for by submission `n`; its clones keep the name, so `getTracks` lists those of a kind by `n` |
| `on` | the live tracks, each in the stream of the submission that holds it |
| `sent` | the senders towards one peer and the local track each carries (`mergeStream`) |
| `showSelf`, `player` | the own player and the stream it was made with |

### `ChatLog`

| in the model | in the code |
|---|---|
| `users` | `ChatComponent`'s list with each peer's `lastRecievedMessageId` |
| `log` | `chatMessageSubject$`: chat messages, and news of who comes and goes |
| `channel`, `wire` | the two ends of each data channel, and what is on it |
| `written`, `owed`, `received` | history for the properties |

* `Posted` walks the log as `_postChatMessage` does: a message goes behind the last line not later
  than it, and is dropped when there is none.
* A clock may be ahead of the others' (`Ahead`, `Skew`), so that dates and arrivals disagree.
* `Fails`: one end of a channel closes while both pages stay (`peer-controller.ts:283-294`); nothing opens it
  again. What was under way to that end is lost, and of what was under way from it the other end may
  still get a first part. `Sent` passes over the ends that are closed (`peer-controller.ts:373`).

## 5. What is checked

### Runs that pass

| run | instance | properties | shows |
|---|---|---|---|
| `overlap` | server; 2 users, 1 room, 2 names, 2 slots, no time | `TypeOK`, `UniqueNames`, `ImplementsRoomAccess` | joins may overlap, and only then two users of a room carry one name; the abstract promise is kept |
| `rooms` | server; 2 steady users, 2 rooms, 2 names, 1 slot, no time | `OnInvitationOnly` | rooms are on invitation only whatever room a user hops to |
| `cleanup` | server; a failing user and a steady one that renews, 1 room, clock 0..1, fairness | `NameReservedUntilExpiry`, `UniqueNames`, `DiscardedAfterVacancy`, `DroppedLeavesRoom`, `VacantRoomDiscarded`, `ExpiredInvitationRemoved` | the collector frees no name, and so doubles none, with a fresh token; a room is discarded after a whole lifespan without anybody, and then it is; cleaning happens |
| `session` | 2 pages, one failing, two stays each, fairness | `SessionTypeOK`, `NobodyListedTwice`, `ViewsCurrent`, `SomebodyInitiates`, `LockShownToGuests`, `NewcomerSeen` | a page that has heard everything lists exactly the members, once, and shows the lock, also after coming back; of two pages that know each other one makes the offer; a newcomer is seen by whoever stays |
| `link` | both ends share, one change of stream each, at most one candidate each, found at any time, one interruption, fairness | `NegotiationTypeOK`, `AnswersFit`, `ImpoliteRests`, `HostSeen`, `Connects` | the impolite end comes to rest with its offers answered; once connected the host is seen as long as the newcomer shares nothing; the data channel opens if an end finds a candidate after its first negotiation |
| `socket` | one page, up to 3 sockets, a valid and an invalid request, two urls, one push at a time, fairness of the clock | `SocketTypeOK`, `LossShown`, `PlaceKept`, `KeptAlive`, `ImplementsRequests`, `EndsWhenQuiet` | requests end once, with their own answer or a failure, handled or not, over whatever sockets; losses are noticed and the page they took is asked for again |
| `join` | one tab, 2 tokens, 2 join pages, 2 messages under way | `JoinTypeOK`, `TokenRemembered`, `StorageFollows`, `RoomPageToMembers` | the tab's token is the server's unless a reply was lost; storage follows memory; only members see the room |
| `shares` | 2 microphones, a camera, 3 submissions | `MediaTypeOK`, `StreamMatchesState`, `LiveTracksSent`, `NothingLeftOn` | overlapping submissions leave share state, stream, senders and devices in step |
| `chat` | 3 pages, one with a fast clock, one that may leave, two whose channel may fail, 2 messages | `ChatTypeOK`, `LogSorted`, `OnlyOlderDropped`, `ReceiptsTruthful`, `SeenAtRest` | logs stay sorted, only messages older than the reader's log are not shown, seen marks are true and, over channels that have not failed, in the end complete |

### Runs that must fail (findings)

Each checks one sentence of the repository that the program does not keep.

| run | sentence | what happens |
|---|---|---|
| `ghost` | README: a room is discarded after 30 minutes with no participant | a socket that closes during a join leaves a participant nobody removes |
| `initiative` | client README: the perfect negotiation pattern is implemented | two pages whose GET_ROOM replies both follow both joins are both impolite: each ignores the other's offer |
| `lost` | README: chat messages are received from every participant | a message of a page whose clock is behind the reader's arrives, is acknowledged and never shown |

Other such statements are kept beside the models without a run of their own; TLC refutes each of
them under `Spec` (`FairSpec` for `JoinsBack`) with the instance named:

| definition | sentence | instance | what happens |
|---|---|---|---|
| `RoomServerClaims!LockBarsNewGuests` | README: a lock prevents new guests from joining | `overlap` with `Steady` both users | a guest whose token is being built when the room is locked is added afterwards |
| `RoomServerClaims!OwnerIsCreator` | README: a room is locked by its creator | `overlap` with `Steady` both users, `TokenLife` 0, `EmptyRoomLife` 0, `MaxClock` 1 | the creator's name is freed when its token expires; a guest takes it, and the privileges after it |
| `RoomServerClaims!RejoinStaysPossible` | README: a user can join back any live room | `ghost` with `EmptyRoomLife` 1 | the remembered token is replaced before the new one is delivered; if the socket is closing, the guest's token is refused from then on |
| `PeerNegotiation!StreamsShown` | client README: others should see your stream | `link` with `MaxHiccups` 0 | an offer ignored while an answer is being applied is never repeated, and its maker offers nothing more |
| `MediaControl!OwnViewCurrent` | client README: feedback for your shared stream | `shares` | the own player keeps the first stream it was made with, whose tracks the next submission stops |
| `SocketClient!HandledIsAnswered` | README: for any message received a response is replied | `socket` | a message that fails validation is logged and gets none; the page's request ends in its timeout (`EndsWhenQuiet`) |
| `JoinFlow!JoinsBack` | README: a user can join back any live room | `join` with `MaxTokens` 1, `MaxForms` 1, `MaxMade` 2 | the two seconds are over before the name check is answered: nothing joins, and the page waits until it is left |

What the link does *not* keep, met while looking for what it keeps: after an interruption
an answer to an offer that was given up may be applied to its retry, because the offer went over
the data channel and was overtaken by an answer over the relay (so `AnswersFit` is stated up to
the first interruption); both ends may come to rest with different descriptions; and a stream
the newcomer stops or starts may never reach the host (`StreamsShown`).

### Bounds and why they suffice

* `Slots` bounds the continuations in flight on the server, two being enough for any pair to
  overlap; `overlap` has two, the others one, which still interleaves with every request,
  callback and collection, of its own user too.
* `Steady` users connect, never fail and never wait for readiness: it keeps one well-behaved
  client beside a failing one. The failing ones go through every socket state.
* `Renewers` restricts who asks for renewal: a renewed token is never remembered by a
  room and the client never asks for one, so most runs leave it out; `cleanup` has it.
* `MaxClock` stops the clock. The lifespans are 0 or 1: strict comparisons make 0 mean "a later
  unit", so every date passes once within the clock's range.
* A websocket is never reused: a client that comes back is another user, so two or three
  users are one or two clients with reconnections.
* `Fragile` names the pages that may quit or lose their socket, `MaxStays` how often a page joins
  (two is coming back once), `MaxPending` how far a page may lag behind when the owner locks, so
  that the owner cannot fill a queue without end. Two pages are a pair: `session`'s invariants speak of a page
  and another, or of a page and the server, and are proved for any number of pages (section 6). They were also
  found to hold with three pages of one stay each.
* `MaxShares` bounds how often each end starts or stops its stream; two at most, as a second start
  would need a section of its own. `MaxHiccups` bounds interruptions: one is enough for an
  aborted offer to be retried. `Sharers` says who has a stream. The invariants of `link` are
  proved for any numbers of both (section 6); `Connects` was also found to hold with two interruptions.
* `MaxCandidates` 1: an end finds its only candidate at any time. One found before the other end has set a
  description is dropped (`peer-controller.ts:468-478`), and then the link stays down; `Connects` therefore
  says what it needs (`FindsLate`): an end that runs out of candidates does so after its first negotiation.
* `socket`: three sockets are a lost one, its failed successor and a third, so that events of two former ones
  meet the current one; `MaxMade` bounds sockets and requests together, `MaxBack` how many pushes lie in wait.
  A valid and an invalid request differ in whether the server answers; requests are otherwise alike.
* `join`: two tokens are the one remembered and the one that replaces it; two join pages let a validator or
  timer of the first meet the second. `MaxUnderWay` bounds messages under way, `MaxMade` tokens and pages
  together. A request is not repeated while the former one of its kind and page is under way.
* `shares`: two submissions overlap and a third meets what they left. A video source stands for a camera or a
  screen; the second microphone makes replacement possible.
* `chat`: two messages of two authors cross, the third page receives them in either order, may leave, and may
  come when they are written; `Skew` 1 and `MaxTime` 1 let a date be before, at or after another. The channel
  between the two authors (`Fragile`) may fail with messages and receipts on it; the others stay whole, so that
  what the founder hears goes on while its neighbours lose each other. `lost` needs no failing channel.
* Symmetry permutes steady users, other users, rooms, names and slots apart; the runs with
  liveness use none, nor do those of the client, whose actors play different parts.

### Fairness

`FairSpec` assumes of the runtime, and of nobody else: a closing socket gets its `onclose`,
a promise settles (either way), the interval timer fires again and again (`gc.ts:104`), and time
passes. No client is ever forced to ask, to answer or
to close. The event loop runs callbacks in order, so none of these can be put off for ever.

In `RoomSession` the server serves what is queued, a promise settles, a closing socket closes and a
page hears what has come; users are free. In `PeerNegotiation` operations of the chain end,
messages arrive, the browser fires negotiation-needed, finds its candidates and reports
connections; sharing and interruptions are free.

In `SocketClient` time passes and a timer that is due fires; neither the network nor the server is
assumed to do anything, so `EndsWhenQuiet` holds with every reply lost. It is stated for the case that pushes
do not come for ever, as each restarts the timers (`web-socket-proxy.ts:159`). `JoinFlow`'s runs check
safety only; its `FairSpec`, for `JoinsBack`, assumes that requests are served and heard and timers fire.
`ChatLog` and `MediaControl` state what has to hold at rest as an invariant, without fairness.

## 6. What is proved

Each theorem is `Spec => []Property` (an action property or a refinement where said) for every value of
the constants that satisfies the module's assumptions, by an inductive invariant: initially true, kept
by every action (one lemma per action or group of actions), and implying the property. The invariants were
checked by TLC on the instances of section 5 before they were proved.

### The server (`RoomServerProofs`, `RoomServerSafetyProofs`)

* `TypeCorrect`: `TypeOK`.
* `InvitationOnly`: `OnInvitationOnly`. A participant enters by a continuation and a continuation is
  started by a token, so `InvitationInv` adds that every token built or handed carries a name its room knows
  (`TokensKnown`), that so does every continuation other than a room's construction (`JobsKnown`), and
  that a room under construction has no creator yet and is built by one continuation only (`BuildsAlone`).
* `NameReserved`: `NameReservedUntilExpiry`. `ReservationInv` adds that a remembered token has been built
  (`MemoryBuilt`), so that an entry the collector deletes belongs to an expired token of that name.
* `VacancyRespected`: the action property `DiscardedAfterVacancy`, from `VisitsDated`: an empty room's
  last visit is not dated before its last participant left.
* `AccessImplemented`: the refinement `ImplementsRoomAccess`. `AccessInv` adds that a room id that was never
  used is neither live nor known to anybody (`FreshUntouched`); then each action maps to one step of
  `RoomAccess` or to a stutter.
* `NamesAreUnique`: `NotedSpec => []UniqueNames`, for any slots and lifespans. `RacesNoted` says that joins pending
  under one name are in `raced`; `AddFree` that the
  name a continuation is about to add is borne by nobody, unless it is in `raced` or a token for it has expired.

### The page's connection (`SocketClientProofs`)

* `LossNoticed`, `PlaceFound`: `LossShown` and `PlaceKept`. `LossInv` adds that `connect()` waits only for the
  socket it has just made and while nothing is listened to (`OpeningPends`), that a page in use or on its way
  back listens (`UsedListens`) and has a socket that is not closed (`UsedConnected`), and where the user may
  be while there is a page to go back to (`GoalPends`): without it a second loss, reported by an older
  socket, could overwrite the route to restore.
* `SocketTypeCorrect`: `SocketTypeOK`, with the facts that make its queues of requests duplicate free.
* `RequestsPromised`: the refinement `ImplementsRequests`. `OnceInv` says that a request is at most once among
  those unsent and sent and is pending there, which makes every step of the wire one of `Requests` or a stutter.
* `SocketKeptAlive`: `KeptAlive`, inductive with the types (`AliveInv`).

### The tab (`JoinFlowProofs`)

* `StorageKeepsUp`: `StorageFollows`, inductive once both entries are known to be records (`StorageInv`).
* `JoinTypeCorrect`: `JoinTypeOK`. `FormsInv` relates the join pages to the requests asked in their name, of
  which `OnceInv` says that none is under way twice.
* `MembersOnly`: `RoomPageToMembers`. `PageInv` says that a reply which lets the page through is heard while its
  bearer is a member and no leave is under way before it (`GuardHolds`, `LeavesFirst`), and what precedes the
  first room (`NoneYet`, `CreateBefore`, `CreatedFirst`).
* `TokensRemembered`: `TokenRemembered`. `TokenInv` says that grants are under way in the order of issue
  (`NewsIssued`, `NewsGreater`, `NewsOrdered`), that the server's memory holds the latest (`MemoryLatest`), and
  that an entry which has not the last token has its successor under way or missed (`Tells`).

### The chat (`ChatLogProofs`)

* `ChatTypeCorrect`, `LogsSorted`: `ChatTypeOK` and `LogSorted`, from lemmas about where `Posted` puts a line,
  for logs of any length.
* `SeenMarksTrue`: `ReceiptsTruthful`. `MarksInv` follows a receipt from its reader to its author.
* `OnlyOlderLost`: `OnlyOlderDropped`. `LinesInv` adds that all copies of a message bear one date
  (`SameDate`), that a log begins with a line of the page's own clock (`BeginsOwn`), which makes what a page writes
  itself never older than its log (`OwnShown`), and that a message is shown unless it is (`ReceivedKept`).
* `SeenInTheEnd`: `SeenAtRest`. A mark still owed has the message or its receipt under way, or its channel has failed
  (`OwedUnderWay`); a failed channel never opens again (`StaysFailed`), and the failing of one takes nothing from the
  others (`Failing`).

### The room's pages (`RoomSessionProofs`)

* `SessionTypeCorrect`: `SessionTypeOK`.
* `ViewsTrue`, `ListsAreSets`: `ViewsCurrent` and `NobodyListedTwice`. `ViewsInv` says of any two clients that the
  last word about one under way to the other, or heard, is true (`WordsTrue`), that news of one alternate
  (`Alternates`), and that after a GET_ROOM reply the first is what the list lacks (`FirstComes`). They rest on
  `TurnsInv`: which requests and answers of a page may be under way at once, and that the reply to its
  GET_ROOM finds it a member.
* `OneInitiates`: `SomebodyInitiates`, from `NeverBoth`: of two pages that know or are about to hear of each
  other, not both wait for an offer (that both may make one is what `initiative` shows).
* `GuestsSeeLock`: `LockShownToGuests`. `LockInv`: guests ask for no lock, and the last word on it is true.

### The stream (`MediaControlProofs`)

`MediaInv` has four parts beside the types. `LocalInv`: of each kind the local stream has no track, or exactly
one live one, as the share state says (`Exact`). `JobsInv`: a submission works on its own clone with tracks older
than itself (`Newest`), asks for what it replaces (`Asking`), and has done or leaves alone what is as wanted
already (`Working`), so that what it puts in place of stream and state is exact whatever has landed meanwhile.
`SendersInv`: every local track has a sender, and senders bear the names of submissions that are over.
`DevicesInv`: unless a request failed, whatever is on is held by the local stream or by a submission that will
stop it or hand it on. They give `MediaTypeCorrect` (`MediaTypeOK`), `StreamFollowsState`
(`StreamMatchesState`), `TracksCarried` (`LiveTracksSent`) and `DevicesReleased` (`NothingLeftOn`).

### The link (`PeerNegotiationProofs`)

The negotiation of an offer is in one of five places: the making of it waits in its maker's chain (`Prepared`), it
is under way (`Offered`), the other end is at it (`Considered`), the answer is under way (`Answered`) or waits to be
applied (`Applied`). Each action is first described by what it takes from and puts into a chain and a mail box
(`Acts`) and by the offer these things are about (`Says`); the rest is about places only. `LinkInv` has, beside
the types:

* `OneInv`: an offer is in one place, once. This holds of the newcomer's always and of the host's until an
  interruption (`Sure`), as the retry after one may start while an older offer is still out.
* `FitsInv`: wherever a pending offer is, what stands for it bears its number.
* `RemoteInv`: an end that has applied an offer has its answer in the chain.
* `NewcomerInv`: `_makingOffer` says whether the newcomer's offer is prepared or out, the signaling state whether
  it is unanswered, and meanwhile the newcomer answers nothing.
* `HostInv`: before its channel is open the host offers nothing; a rollback is only chained while an offer is
  pending, and nothing is made or applied before it. Without this a refused rollback would lose the newcomer's offer.
* `SteadyInv`: until an interruption the host does not retry, and has nothing out that its flags do not tell.
* `Beginnings`: who is polite, and that the host is told of the newcomer once.

They give `NegotiationTypeCorrect` (`NegotiationTypeOK`), `AnswersFitOffers` (`AnswersFit`, from `FitsInv`) and
`ImpoliteEndRests` (`ImpoliteRests`: at rest nothing is in any place, so by `NewcomerInv` the newcomer waits for
nothing), for any numbers of candidates, shares and interruptions.

`HostIsSeen` (`HostSeen`) needs two more layers, which every action is shown to keep, from how it turns its own end
(`OwnMoves`, `OwnStays`) and what it takes and sends (`Steps`). `LinkedInv` holds always:

* `NumberedInv`: an offer that is made, sent, rolled back or applied has a number, so that having settled one
  shows (`session`).
* `MetInv`, `AnsweredInv`: the connection and the channel come after the first negotiation, of which the host's part
  is done when it answers; the newcomer gathers candidates since its first offer.

`AloneInv` holds as long as the newcomer has shared nothing (`Alone`):

* `PlainInv`: offers go one at a time. The newcomer negotiates once, before the host may offer at all, so nothing
  collides: no offer of the host is aborted or rolled back, and `_makingOffer` says where it is.
* `OnceInv`: after that negotiation the newcomer never needs another, and an event of negotiation-needed that is
  not acted on belongs to a negotiation that is still to end. An event that `onnegotiationneeded` discards at another
  time would leave a stream unsent, as the browser does not fire it again.
* `SilentInv`: the first negotiation carries no stream, in either direction.
* `ViewInv`: what the newcomer sees is what the host sends, or once it has applied an offer of the host, and until the
  host settles it (`Told`), what that offer carries.

At rest (`SeenRests`) with the host's channel open the newcomer has negotiated (`MetInv`); the host's
negotiation-needed is not raised in vain, `sending` is what it shares, and by `ViewInv` that is what the newcomer
sees. Interruptions are arbitrary, and candidates may be found early, late or never: if they are all dropped the
channel does not open, of which `Connects` speaks.

### Assumptions

Sentinels are not values of their sets, dates and bounds are natural numbers, sources are finite and of one kind,
`Nowhere` is no url and home is one, the owner is a client: each is named in the module that declares the
constants, and TLC evaluates it in a run. No theorem has hypotheses of its own.

### Only model-checked

Liveness (`DroppedLeavesRoom`, `VacantRoomDiscarded`, `ExpiredInvitationRemoved`, `NewcomerSeen`, `Connects`,
`EndsWhenQuiet`), as fairness is out of the prover's reach, and the claims that TLC refutes. Every invariant and
every action property of the passing runs is proved.

## 7. Not modelled

Message schemas and the text of replies (on the server an invalid message changes nothing); nanoid
collisions; guessing of ids and passwords; signing; the browser's rendering, dialogs and animations;
logging and static files. `RoomSession` leaves out who may join or lock (`RoomServer` has it) and
`PeerNegotiation` the end of a participation, several tracks and what the relays refuse: both ends
stay in the room. `SocketClient` leaves out `disconnect`, which nobody calls. `JoinFlow` leaves out the cached
settings (nobody reads them), the cached invitations, other rooms and names, and a second tab over the same
localStorage; a token's check is one step there, which `RoomServer` splits. `MediaControl` leaves
out devices that end their track by themselves (no code listens) and the volume controls;
`ChatLog` leaves out drafts and scrolling.
