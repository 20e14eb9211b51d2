------------------------------- MODULE ChatLog -------------------------------
(***************************************************************************)
(* The chat of one room (chat.component.ts): each page's log, ordered by   *)
(* the dates its authors gave, the messages and receipts on the data       *)
(* channels (peer-controller.ts, room-state.ts), and what each page knows  *)
(* of what the others have received.                                       *)
(*                                                                         *)
(* A page that comes back is another page.  Who hears of whom when is      *)
(* RoomSession's matter, how channels come up is PeerNegotiation's: here a *)
(* channel may open any time after both ends list each other, and fail any *)
(* time after that: it is never made again (peer-controller.ts, onclose).   *)
(***************************************************************************)
EXTENDS Naturals, Sequences, FiniteSetsExt, SequencesExt, Functions

CONSTANTS
  Pages, Founder,  \* guests need an invitation from whoever made the room
  Ahead, Skew,  \* the pages whose clock is Skew ahead of the others'
  Writers,      \* bound: pages that write
  Leavers,      \* bound: pages that may leave
  Fragile,      \* bound: pages between which channels may fail
  MaxMessages,  \* bound: chat messages written in all
  MaxTime       \* bound: how far the clocks go

ASSUME PagesAssumption ==
  IsFiniteSet(Pages) /\ Founder \in Pages /\
  Ahead \cup Writers \cup Leavers \cup Fragile \subseteq Pages
ASSUME ChatBoundsAssumption == {Skew, MaxMessages, MaxTime} \subseteq Nat

Ids == 1 .. MaxMessages
Dates == 0 .. MaxTime + Skew
\* A line of the log: a chat message, or news of who comes and goes (id 0).
Line == [id : {0} \cup Ids, date : Dates]
DataMessage == [type : {"CHAT"}, id : Ids, date : Dates]
               \cup [type : {"ACK_CHAT"}, id : Ids]
\* What a page knows of the pages it lists: lastRecievedMessageId, 0 for none.
Marks == UNION {[listed -> {0} \cup Ids] : listed \in SUBSET Pages}

VARIABLES
  now,
  here,      \* "out", "in" or "left"
  users,     \* ChatComponent.roomState.userList without the page itself
  log,       \* chatMessageSubject$
  channel,   \* each end of each data channel: "new", "open" or "closed"
  wire,      \* data messages under way
  written,   \* history: the author of each message
  owed,      \* history: whom each message was handed to and who is not yet
             \* marked under it by its author's page
  received   \* history: the chat messages each page has been told of

netVars == <<channel, wire>>
chatHistory == <<written, owed, received>>
chatVars == <<now, here, users, log, netVars, chatHistory>>

ChatTypeOK ==
  /\ now \in 0 .. MaxTime
  /\ here \in [Pages -> {"out", "in", "left"}]
  /\ users \in [Pages -> Marks] /\ \A p \in Pages : p \notin DOMAIN users[p]
  /\ log \in [Pages -> Seq(Line)]
  /\ channel \in [Pages -> [Pages -> {"new", "open", "closed"}]]
  /\ wire \in [Pages -> [Pages -> Seq(DataMessage)]]
  /\ written \in Seq(Pages) /\ owed \in Seq(SUBSET Pages)
  /\ received \in [Pages -> SUBSET DataMessage]

-----------------------------------------------------------------------------
\* buildChatMessage: the date of a message of one's own.
Clock(p) == now + (IF p \in Ahead THEN Skew ELSE 0)
News(p) == [id |-> 0, date |-> Clock(p)]

\* Mutant of Posted: a message goes to the end of the log.
PostedLast(lines, line) == Append(lines, line)
\* Mutant of Posted: strictly later than a line it follows.
PostedAfter(lines, line) ==
  LET earlier == {i \in DOMAIN lines : lines[i].date < line.date} IN
  IF lines = <<>> THEN <<line>>
  ELSE IF earlier = {} THEN lines
  ELSE InsertAt(lines, Max(earlier) + 1, line)
\* _postChatMessage: after the last line that is not later; nowhere if all are.
Posted(lines, line) ==
  LET earlier == {i \in DOMAIN lines : lines[i].date <= line.date} IN
  IF lines = <<>> THEN <<line>>
  ELSE IF earlier = {} THEN lines
  ELSE InsertAt(lines, Max(earlier) + 1, line)
Posts(p, line) == log' = [log EXCEPT ![p] = Posted(@, line)]

OpenTo(p) == {q \in Pages : channel[p][q] = "open"}
\* sendMessageToPeers: whoever has no open channel is skipped; what is sent to
\* an end that is closed already is lost.
Sent(w, p, m) ==
  [w EXCEPT ![p] = [q \in Pages |->
    IF q \in OpenTo(p) /\ channel[q][p] # "closed" THEN Append(@[q], m) ELSE @[q]]]

-----------------------------------------------------------------------------
(* Coming and going *)

Present == {p \in Pages : here[p] = "in"}
\* Mutant of Enter: the page greets itself.
EnterWithSelf(p) ==
  /\ here[p] = "out"
  /\ here' = [here EXCEPT ![p] = "in"]
  /\ users' = [users EXCEPT ![p] = [q \in Present \cup {p} |-> 0]]
  /\ Posts(p, News(p))
  /\ UNCHANGED <<now, netVars, chatHistory>>
\* ngOnInit, with the list of the GET_ROOM reply.
Enter(p) ==
  /\ here[p] = "out"
  /\ here' = [here EXCEPT ![p] = "in"]
  /\ users' = [users EXCEPT ![p] = [q \in Present |-> 0]]
  /\ IF Present = {} THEN UNCHANGED log ELSE Posts(p, News(p))
  /\ UNCHANGED <<now, netVars, chatHistory>>
\* A new list in which q is new: what is known of the others is kept.
OnUserAdded(p, q) ==
  /\ here[p] = "in" /\ p # q /\ here[q] # "out" /\ channel[p][q] = "new"
  /\ q \notin DOMAIN users[p] /\ p \in DOMAIN users[q]
  /\ users' = [users EXCEPT ![p] =
       [r \in DOMAIN @ \cup {q} |-> IF r = q THEN 0 ELSE @[r]]]
  /\ Posts(p, News(p))
  /\ UNCHANGED <<now, here, netVars, chatHistory>>
\* A new list without q, whose connection is closed with it.
OnUserRemoved(p, q) ==
  /\ here[p] = "in" /\ q \in DOMAIN users[p] /\ here[q] = "left"
  /\ users' = [users EXCEPT ![p] = Restrict(@, DOMAIN @ \ {q})]
  /\ Posts(p, News(p))
  /\ channel' = [channel EXCEPT ![p][q] = "closed"]
  /\ wire' = [wire EXCEPT ![q][p] = <<>>]
  /\ UNCHANGED <<now, here, chatHistory>>
\* ngOnDestroy, RoomState.destroy.
Leave(p) ==
  /\ p \in Leavers /\ here[p] = "in"
  /\ here' = [here EXCEPT ![p] = "left"]
  /\ channel' = [channel EXCEPT ![p] = [q \in Pages |-> "closed"]]
  /\ wire' = [q \in Pages |-> [wire[q] EXCEPT ![p] = <<>>]]
  /\ log' = [log EXCEPT ![p] = <<>>]
  /\ UNCHANGED <<now, users, chatHistory>>

\* An end of the channel opens; the other's may have, or be about to.
Opens(p, q) ==
  /\ channel[p][q] = "new" /\ here[p] = "in" /\ here[q] = "in"
  /\ q \in DOMAIN users[p] /\ p \in DOMAIN users[q]
  /\ channel' = [channel EXCEPT ![p][q] = "open"]
  /\ UNCHANGED <<now, here, users, log, wire, chatHistory>>

\* onclose while both stay: nothing more arrives at this end, and at the other
\* at most the first of the messages under way.
Fails(p, q) ==
  /\ {p, q} \subseteq Present \cap Fragile /\ channel[p][q] = "open"
  /\ channel' = [channel EXCEPT ![p][q] = "closed"]
  /\ \E arriving \in 0 .. Len(wire[p][q]) :
       wire' = [wire EXCEPT ![p][q] = SubSeq(@, 1, arriving), ![q][p] = <<>>]
  /\ UNCHANGED <<now, here, users, log, chatHistory>>

-----------------------------------------------------------------------------
(* Messages *)

onSendMessage(p) ==
  /\ here[p] = "in" /\ p \in Writers /\ Len(written) < MaxMessages
  /\ LET id == Len(written) + 1 IN
     /\ Posts(p, [id |-> id, date |-> Clock(p)])
     /\ wire' = Sent(wire, p, [type |-> "CHAT", id |-> id, date |-> Clock(p)])
  /\ written' = Append(written, p)
  /\ owed' = Append(owed, OpenTo(p))
  /\ UNCHANGED <<now, here, users, channel, received>>

Takes(p, q, type) ==
  /\ channel[p][q] = "open" /\ wire[q][p] # <<>> /\ Head(wire[q][p]).type = type
  /\ UNCHANGED <<now, here, channel, written>>
Taken(p, q) == [wire EXCEPT ![q][p] = Tail(@)]

\* The author is listed: posted, noted as its last, and the receipt to everybody.
OnChat(p, q) ==
  /\ Takes(p, q, "CHAT")
  /\ LET m == Head(wire[q][p]) IN
     /\ Posts(p, [id |-> m.id, date |-> m.date])
     /\ users' = [users EXCEPT ![p][q] = m.id]
     /\ wire' = Sent(Taken(p, q), p, [type |-> "ACK_CHAT", id |-> m.id])
     /\ received' = [received EXCEPT ![p] = @ \cup {m}]
  /\ UNCHANGED owed
\* Mutant of OnAck: the receipt is noted for everybody listed.
OnAckByAll(p, q) ==
  /\ Takes(p, q, "ACK_CHAT")
  /\ users' = [users EXCEPT ![p] = [r \in DOMAIN @ |-> Head(wire[q][p]).id]]
  /\ wire' = Taken(p, q)
  /\ UNCHANGED <<log, owed, received>>
\* Mutant of OnAck: a receipt is taken for stale unless it is for a later message.
OnAckNewer(p, q) ==
  /\ Takes(p, q, "ACK_CHAT")
  /\ LET id == Head(wire[q][p]).id IN
     IF id > users[p][q]
     THEN /\ users' = [users EXCEPT ![p][q] = id]
          /\ owed' = IF written[id] = p THEN [owed EXCEPT ![id] = @ \ {q}] ELSE owed
     ELSE UNCHANGED <<users, owed>>
  /\ wire' = Taken(p, q)
  /\ UNCHANGED <<log, received>>
OnAck(p, q) ==
  /\ Takes(p, q, "ACK_CHAT")
  /\ LET id == Head(wire[q][p]).id IN
     /\ users' = [users EXCEPT ![p][q] = id]
     /\ owed' = IF written[id] = p THEN [owed EXCEPT ![id] = @ \ {q}] ELSE owed
  /\ wire' = Taken(p, q)
  /\ UNCHANGED <<log, received>>

Tick ==
  /\ now < MaxTime
  /\ now' = now + 1
  /\ UNCHANGED <<here, users, log, netVars, chatHistory>>

-----------------------------------------------------------------------------
Init ==
  /\ now = 0
  /\ here = [p \in Pages |-> IF p = Founder THEN "in" ELSE "out"]
  /\ users = [p \in Pages |-> <<>>]
  /\ log = [p \in Pages |-> <<>>]
  /\ channel = [p \in Pages |-> [q \in Pages |-> "new"]]
  /\ wire = [p \in Pages |-> [q \in Pages |-> <<>>]]
  /\ written = <<>> /\ owed = <<>>
  /\ received = [p \in Pages |-> {}]

Hears(p, q) == OnChat(p, q) \/ OnAck(p, q)
PairStep(p, q) ==
  \/ OnUserAdded(p, q) \/ OnUserRemoved(p, q) \/ Opens(p, q) \/ Fails(p, q)
  \/ Hears(p, q)
PageStep(p) == Enter(p) \/ Leave(p) \/ onSendMessage(p)
Next == Tick \/ \E p \in Pages : PageStep(p) \/ \E q \in Pages : PairStep(p, q)
Spec == Init /\ [][Next]_chatVars
-----------------------------------------------------------------------------
(* Properties *)

Shown(p) == {log[p][i].id : i \in DOMAIN log[p]}

\* Whatever the clocks and the order of arrival, a log is ordered by date.
LogSorted ==
  \A p \in Pages : \A i, j \in DOMAIN log[p] :
    i < j => log[p][i].date <= log[p][j].date

\* A page always shows what it has written itself, and what it has received
\* unless it is dated before the page's first line: no other message is lost
\* by _postChatMessage, and that first line carries the page's own clock.
OnlyOlderDropped ==
  \A p \in Present :
    /\ \A id \in DOMAIN written : written[id] = p => id \in Shown(p)
    /\ \A m \in received[p] : m.date >= log[p][1].date => m.id \in Shown(p)

\* A "seen" mark never says too much: whoever is marked under a message has
\* written or received it (receipts of third parties included).
ReceiptsTruthful ==
  \A p \in Present : \A q \in DOMAIN users[p] :
    LET id == users[p][q] IN
    id # 0 => written[id] = q \/ \E m \in received[q] : m.id = id

\* When nothing is under way, every peer that a message was handed to has been
\* marked under it, shown there or not, unless one of the two has left or an
\* end of their channel has failed: no other interleaving of openings, third
\* parties' receipts and news loses a mark.
Quiet == \A p, q \in Present : wire[p][q] = <<>>
Failed(p, q) == "closed" \in {channel[p][q], channel[q][p]}
SeenAtRest ==
  Quiet => \A id \in DOMAIN written : \A q \in owed[id] \cap Present :
             here[written[id]] = "in" => Failed(written[id], q)

\* README.md:19: chat messages are received from every participant.
\* _postChatMessage drops a message that has arrived when its author's clock is
\* behind that of the page.
ReceivedShown == \A p \in Present : \A m \in received[p] : m.id \in Shown(p)
=============================================================================
