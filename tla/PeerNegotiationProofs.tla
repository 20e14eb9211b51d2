------------------------- MODULE PeerNegotiationProofs -------------------------
(***************************************************************************)
(* Proofs about PeerNegotiation, for any bounds: its types, that answers   *)
(* are applied to the offers they were made for, that the impolite end is  *)
(* never left waiting, and that a newcomer that shares nothing sees what   *)
(* the host shares.                                                        *)
(***************************************************************************)
EXTENDS PeerNegotiation, SequenceTheorems, TLAPS

-----------------------------------------------------------------------------
(* Ends, operations and messages *)

LEMMA EndsAre ==
  /\ Newcomer \in Ends /\ Host \in Ends /\ Newcomer # Host
  /\ \A e \in Ends : /\ Other(e) \in Ends /\ Other(e) # e /\ Other(Other(e)) = e
                     /\ \A d \in Ends : d = e \/ d = Other(e)
  /\ Other(Newcomer) = Host /\ Other(Host) = Newcomer
BY EndsAssumption DEF Ends, Other

Fields == {"role", "making", "ignoring", "aborted", "share", "view", "channel",
           "signaling", "ops", "pending", "session", "media", "sending", "raised",
           "ice", "reaches", "gathering", "candidates", "made", "shares"}
\* q is p but for some fields.
Like(p, q, but) == \A f \in Fields \ but : q[f] = p[f]

LEMMA Descriptions ==
  /\ NoDescription \in Description /\ None \in Offers
  /\ \A d \in Description : /\ d.id \in Offers /\ d.media \in BOOLEAN /\ d.share \in BOOLEAN
                            /\ d.known \in BOOLEAN
                            /\ d.type \in {"none", "offer", "answer"}
                            /\ \A b \in BOOLEAN : [d EXCEPT !.known = b] \in Description
BY EndsAre DEF NoDescription, Description, None, Offers

LEMMA OperationsRead ==
  ASSUME NEW op \in Operation
  PROVE  /\ op.op \in {"createOffer", "setOffer", "rollback", "setRemoteOffer",
                       "createAnswer", "setAnswer", "setRemoteAnswer"}
         /\ op.op # "setRemoteAnswer" => op.way \in Ways
         /\ op.op \notin {"createOffer", "createAnswer"} => op.desc \in Description
         /\ op.op = "rollback" => [op EXCEPT !.op = "setRemoteOffer"] \in Operation
BY DEF Operation

LEMMA OperationsMade ==
  ASSUME NEW w \in Ways, NEW d \in Description
  PROVE  /\ [op |-> "createOffer", way |-> w] \in Operation
         /\ [op |-> "setOffer", way |-> w, desc |-> d] \in Operation
         /\ [op |-> "rollback", way |-> w, desc |-> d] \in Operation
         /\ [op |-> "setRemoteOffer", way |-> w, desc |-> d] \in Operation
         /\ [op |-> "createAnswer", way |-> w] \in Operation
         /\ [op |-> "setAnswer", way |-> w, desc |-> d] \in Operation
         /\ [op |-> "setRemoteAnswer", desc |-> d] \in Operation
BY DEF Operation

LEMMA MessagesRead ==
  ASSUME NEW m \in Message
  PROVE  /\ m.type \in {"none", "offer", "answer", "connected", "candidate"}
         /\ m.type \in {"offer", "answer"} => m \in Description
BY DEF Message, Description

LEMMA DoneIs ==
  ASSUME NEW p \in Peer, p.ops # <<>>, NEW q, q = Done(p)
  PROVE  q \in Peer /\ Like(p, q, {"ops"}) /\ q.ops = Tail(p.ops)
<1>1. p.ops \in Seq(Operation) BY DEF Peer
<1>2. PICK s : s = Tail(p.ops) OBVIOUS
<1>3. s \in Seq(Operation) BY <1>1, <1>2
<1>4. q = [p EXCEPT !.ops = s] BY <1>2 DEF Done
<1>5. p \in Peer OBVIOUS
<1>6. q \in Peer /\ Like(p, q, {"ops"}) /\ q.ops = s
  BY ONLY <1>3, <1>4, <1>5 DEF Peer, Like, Fields
<1>7. QED BY <1>2, <1>6

LEMMA ChainedIs ==
  ASSUME NEW p \in Peer, NEW op \in Operation, NEW q, q = Chained(p, op)
  PROVE  q \in Peer /\ Like(p, q, {"ops"}) /\ q.ops = Append(p.ops, op)
<1>1. p.ops \in Seq(Operation) BY DEF Peer
<1>2. PICK s : s = Append(p.ops, op) OBVIOUS
<1>3. s \in Seq(Operation) BY <1>1, <1>2
<1>4. q = [p EXCEPT !.ops = s] BY <1>2 DEF Chained
<1>5. QED BY <1>2, <1>3, <1>4 DEF Peer, Like, Fields

LEMMA WayIs == ASSUME NEW p PROVE Way(p) \in Ways
BY DEF Way, Ways

LEMMA StartIs ==
  ASSUME NEW p \in Peer, NEW q, q = startNegotiation(p)
  PROVE  /\ q \in Peer /\ Like(p, q, {"ops", "making"}) /\ q.making = TRUE
         /\ q.ops = Append(p.ops, [op |-> "createOffer", way |-> Way(p)])
<1>1. PICK r : r = [p EXCEPT !.making = TRUE] OBVIOUS
<1>2. r \in Peer /\ Like(p, r, {"making"}) /\ r.making = TRUE
  BY <1>1 DEF Peer, Like, Fields
<1>3. PICK op : op = [op |-> "createOffer", way |-> Way(p)] OBVIOUS
<1>4. op \in Operation BY <1>3, WayIs, Descriptions, OperationsMade
<1>5. q = Chained(r, op) BY <1>1, <1>3 DEF startNegotiation
<1>6. q \in Peer /\ Like(r, q, {"ops"}) /\ q.ops = Append(r.ops, op)
  BY <1>2, <1>4, <1>5, ChainedIs
<1>7. QED BY <1>2, <1>3, <1>6 DEF Like, Fields

LEMMA SettledIs ==
  ASSUME NEW p \in Peer, NEW b \in BOOLEAN, NEW q, q = Settled(p, b)
  PROVE  /\ q \in Peer /\ q.signaling = "stable"
         /\ q.session = p.pending.id /\ q.media = p.pending.media /\ q.sending = b
         /\ q.raised = FALSE
         /\ Like(p, q, {"signaling", "pending", "session", "media", "sending", "raised"})
<1>1. p.pending \in Description BY DEF Peer
<1>2. p.pending.id \in Offers /\ p.pending.media \in BOOLEAN /\ NoDescription \in Description
  BY <1>1, Descriptions
<1>3. PICK id \in Offers, m \in BOOLEAN : id = p.pending.id /\ m = p.pending.media BY <1>2
<1>4. PICK d \in Description : d = NoDescription BY <1>2
<1>5. q = [p EXCEPT !.signaling = "stable", !.pending = d, !.session = id, !.media = m,
                    !.sending = b, !.raised = FALSE]
  BY <1>3, <1>4 DEF Settled
<1>6. p \in Peer /\ b \in BOOLEAN /\ id \in Offers /\ m \in BOOLEAN /\ d \in Description
  OBVIOUS
<1>7. q \in Peer
  <2>1. PICK r : r = [p EXCEPT !.signaling = "stable", !.pending = d, !.session = id] OBVIOUS
  <2>2. r \in Peer BY ONLY <1>6, <2>1 DEF Peer
  <2>3. PICK t : t = [r EXCEPT !.media = m] OBVIOUS
  <2>4. t \in Peer BY ONLY <1>6, <2>2, <2>3 DEF Peer
  <2>5. PICK u : u = [t EXCEPT !.sending = b] OBVIOUS
  <2>6. u \in Peer BY ONLY <1>6, <2>4, <2>5 DEF Peer
  <2>7. PICK no : no = FALSE OBVIOUS
  <2>8. no \in BOOLEAN BY <2>7
  <2>9. q = [u EXCEPT !.raised = no] BY ONLY <1>5, <1>6, <2>1, <2>3, <2>5, <2>7 DEF Peer
  <2>10. QED BY ONLY <2>6, <2>8, <2>9 DEF Peer
<1>8. /\ q.signaling = "stable" /\ q.session = id
      /\ Like(p, q, {"signaling", "pending", "session", "media", "sending", "raised"})
  BY ONLY <1>5, <1>6 DEF Peer, Like, Fields
<1>9. q.media = m BY ONLY <1>5, <1>6 DEF Peer
<1>10. q.sending = b BY ONLY <1>5, <1>6 DEF Peer
<1>11. q.raised = FALSE BY ONLY <1>5, <1>6 DEF Peer
<1>12. QED BY <1>3, <1>7, <1>8, <1>9, <1>10, <1>11
-----------------------------------------------------------------------------
(* What each step does *)

\* e's part after the step, the other's being what it was.
Turns(e) ==
  /\ peer'[e] \in Peer /\ peer'[Other(e)] = peer[Other(e)]
  /\ peer' \in [Ends -> Peer]

LEMMA TurnsIs ==
  ASSUME NegotiationTypeOK, NEW e \in Ends, NEW p \in Peer, Becomes(e, p)
  PROVE  Turns(e) /\ peer'[e] = p
<1>1. peer \in [Ends -> Peer] BY DEF NegotiationTypeOK
<1>2. QED BY <1>1, EndsAre DEF Becomes, Turns

\* The first message of a way is taken; a message goes behind the others.
Takes(e, way) ==
  /\ net[e][way] # <<>> /\ net'[e][way] = Tail(net[e][way])
  /\ \A w \in Ways : w # way => net'[e][w] = net[e][w]
  /\ net'[Other(e)] = net[Other(e)]
Mails(e, way, m) ==
  /\ net'[Other(e)][way] = Append(net[Other(e)][way], m)
  /\ \A w \in Ways : w # way => net'[Other(e)][w] = net[Other(e)][w]
  /\ net'[e] = net[e]

LEMMA TakesIs ==
  ASSUME NegotiationTypeOK, NEW e \in Ends, NEW way \in Ways, net[e][way] # <<>>,
         net' = [net EXCEPT ![e][way] = Tail(@)]
  PROVE  Takes(e, way) /\ net' \in [Ends -> [Ways -> Seq(Message)]]
         /\ Head(net[e][way]) \in Message
<1>1. /\ net \in [Ends -> [Ways -> Seq(Message)]] /\ net[e] \in [Ways -> Seq(Message)]
      /\ net[e][way] \in Seq(Message)
  BY DEF NegotiationTypeOK
<1>2. PICK s : s = Tail(net[e][way]) OBVIOUS
<1>3. s \in Seq(Message) /\ Head(net[e][way]) \in Message BY <1>1, <1>2
<1>4. PICK n : n = [net[e] EXCEPT ![way] = s] OBVIOUS
<1>5. n \in [Ways -> Seq(Message)] /\ n[way] = s /\ \A w \in Ways : w # way => n[w] = net[e][w]
  BY <1>1, <1>3, <1>4
<1>6. net' = [net EXCEPT ![e] = n] BY <1>1, <1>2, <1>4
<1>7. QED BY <1>1, <1>2, <1>3, <1>5, <1>6, EndsAre DEF Takes

LEMMA MailsIs ==
  ASSUME NegotiationTypeOK, NEW e \in Ends, NEW way \in Ways, NEW m \in Message,
         Sends(e, way, m)
  PROVE  Mails(e, way, m) /\ net' \in [Ends -> [Ways -> Seq(Message)]]
<1> DEFINE o == Other(e)
<1>0. o \in Ends /\ o # e BY EndsAre
<1>1. /\ net \in [Ends -> [Ways -> Seq(Message)]] /\ net[o] \in [Ways -> Seq(Message)]
      /\ net[o][way] \in Seq(Message)
  BY <1>0 DEF NegotiationTypeOK
<1>2. PICK s : s = Append(net[o][way], m) OBVIOUS
<1>3. s \in Seq(Message) BY <1>1, <1>2
<1>4. PICK n : n = [net[o] EXCEPT ![way] = s] OBVIOUS
<1>5. n \in [Ways -> Seq(Message)] /\ n[way] = s /\ \A w \in Ways : w # way => n[w] = net[o][w]
  BY <1>1, <1>3, <1>4
<1>6. net' = [net EXCEPT ![o] = n] BY <1>1, <1>2, <1>4 DEF Sends
<1>7. QED BY <1>0, <1>1, <1>2, <1>3, <1>5, <1>6 DEF Mails

\* What the properties of offers do not look at.
Beside == {"ignoring", "share", "view", "session", "media", "sending", "raised",
           "reaches", "gathering", "candidates", "made", "shares"}
Same(e, but) == Like(peer[e], peer'[e], but \cup Beside)
Only(e, but) == Like(peer[e], peer'[e], but)
Front(e) == Head(peer[e].ops)
Rest(e) == Tail(peer[e].ops)

LEMMA RunsIs ==
  ASSUME NegotiationTypeOK, NEW e \in Ends, NEW name, Runs(e, name)
  PROVE  /\ peer[e] \in Peer /\ peer[e].ops # <<>> /\ Front(e) \in Operation
         /\ Front(e).op = name /\ Rest(e) \in Seq(Operation)
         /\ Done(peer[e]) \in Peer /\ Done(peer[e]).ops = Rest(e)
         /\ Like(peer[e], Done(peer[e]), {"ops"})
<1>1. peer[e] \in Peer /\ peer[e].ops # <<>> /\ Front(e).op = name
  BY DEF NegotiationTypeOK, Runs, Front
<1>2. peer[e].ops \in Seq(Operation) BY <1>1 DEF Peer
<1>3. PICK q : q = Done(peer[e]) OBVIOUS
<1>4. q \in Peer /\ q.ops = Rest(e) /\ Like(peer[e], q, {"ops"})
  BY <1>1, <1>3, DoneIs DEF Rest
<1>5. QED BY <1>1, <1>2, <1>3, <1>4 DEF Front, Rest

LEMMA CreateOfferDoes ==
  ASSUME NegotiationTypeOK, NEW e \in Ends, CreateOffer(e)
  PROVE  /\ Runs(e, "createOffer") /\ Turns(e) /\ UNCHANGED <<net, hiccups>>
         /\ \/ /\ peer[e].signaling = "remote" /\ Same(e, {"ops", "making"})
               /\ Only(e, {"ops", "making"})
               /\ peer'[e].making = FALSE /\ peer'[e].ops = Rest(e)
            \/ /\ peer[e].signaling # "remote" /\ Same(e, {"ops"}) /\ Only(e, {"ops", "made"})
               /\ \E op \in Operation :
                    /\ op.op = "setOffer" /\ op.desc.type = "offer"
                    /\ op.desc \in Description /\ op.desc.id = <<e, peer[e].made + 1>>
                    /\ op.desc.media => peer[e].media \/ peer[e].share
                    /\ op.desc.share = peer[e].share
                    /\ peer'[e].ops = Append(Rest(e), op)
<1>a. PICK p : p = Done(peer[e]) OBVIOUS
<1>b. PICK d : d = [type |-> "offer", id |-> <<e, p.made + 1>>, media |-> p.media \/ p.share,
                    share |-> p.share, known |-> FALSE] OBVIOUS
<1>c. PICK op : op = [op |-> "setOffer", way |-> Front(e).way, desc |-> d] OBVIOUS
<1>d. PICK q : q = [p EXCEPT !.made = @ + 1] OBVIOUS
<1>e. PICK J : J = IF p.signaling = "remote" THEN [p EXCEPT !.making = FALSE]
                   ELSE Chained(q, op) OBVIOUS
<1>1. Runs(e, "createOffer") /\ Becomes(e, J) /\ UNCHANGED <<net, hiccups>>
  BY <1>a, <1>b, <1>c, <1>d, <1>e DEF CreateOffer, Front
<1>2. /\ peer[e] \in Peer /\ Front(e) \in Operation /\ Front(e).op = "createOffer"
      /\ p \in Peer /\ p.ops = Rest(e) /\ Like(peer[e], p, {"ops"})
  BY <1>1, <1>a, RunsIs
<1>3. CASE p.signaling = "remote"
  <2>1. J = [p EXCEPT !.making = FALSE] BY <1>e, <1>3
  <2>2. J \in Peer /\ Like(p, J, {"making"}) /\ J.making = FALSE
    BY <1>2, <2>1 DEF Peer, Like, Fields
  <2>3. Turns(e) /\ peer'[e] = J BY <1>1, <2>2, TurnsIs
  <2>4. QED BY <1>1, <1>2, <1>3, <2>2, <2>3 DEF Same, Only, Like, Fields, Beside
<1>4. CASE p.signaling # "remote"
  <2>1. J = Chained(q, op) BY <1>e, <1>4
  <2>2. q \in Peer /\ Like(p, q, {"made"})
    <3>1. PICK n : n = p.made + 1 OBVIOUS
    <3>2. p.made \in Nat BY <1>2 DEF Peer
    <3>3. n \in Nat /\ q = [p EXCEPT !.made = n] BY <1>d, <3>1, <3>2
    <3>4. p \in Peer BY <1>2
    <3>5. QED BY ONLY <3>3, <3>4 DEF Peer, Like, Fields
  <2>3. d \in Description /\ d.type = "offer" BY <1>2, <1>b, SMTT(30) DEF Description, Offers, Peer
  <2>a. /\ d.id = <<e, peer[e].made + 1>> /\ d.share = peer[e].share
        /\ d.media => peer[e].media \/ peer[e].share
    BY <1>2, <1>b DEF Like, Fields
  <2>4. Front(e).way \in Ways BY <1>2, OperationsRead
  <2>5. op \in Operation /\ op.op = "setOffer" /\ op.desc = d
    BY <1>c, <2>3, <2>4, OperationsMade
  <2>6. J \in Peer /\ Like(q, J, {"ops"}) /\ J.ops = Append(q.ops, op)
    BY <2>1, <2>2, <2>5, ChainedIs
  <2>7. Turns(e) /\ peer'[e] = J BY <1>1, <2>6, TurnsIs
  <2>8. /\ Same(e, {"ops"}) /\ Only(e, {"ops", "made"}) /\ peer[e].signaling # "remote"
        /\ J.ops = Append(Rest(e), op)
    BY <1>2, <1>4, <2>2, <2>6, <2>7 DEF Same, Only, Like, Fields, Beside
  <2>9. QED BY <1>1, <2>3, <2>a, <2>5, <2>7, <2>8
<1>5. QED BY <1>3, <1>4

LEMMA SetOfferDoes ==
  ASSUME NegotiationTypeOK, NEW e \in Ends, SetOffer(e)
  PROVE  /\ Runs(e, "setOffer") /\ Turns(e) /\ UNCHANGED hiccups
         /\ net' \in [Ends -> [Ways -> Seq(Message)]]
         /\ \/ /\ peer[e].signaling = "remote" /\ Same(e, {"ops", "making"})
               /\ Only(e, {"ops", "making"}) /\ net' = net
               /\ peer'[e].making = FALSE /\ peer'[e].ops = Rest(e)
            \/ /\ peer[e].signaling # "remote" /\ Same(e, {"ops", "signaling", "pending"})
               /\ Only(e, {"ops", "signaling", "pending", "gathering"})
               /\ peer'[e].ops = Rest(e) /\ peer'[e].signaling = "local"
               /\ peer'[e].pending = Front(e).desc /\ peer'[e].gathering = TRUE
               /\ \E m \in Message, way \in Ways :
                    /\ m.type = Front(e).desc.type /\ m.id = Front(e).desc.id
                    /\ m \in Description /\ m.media = Front(e).desc.media
                    /\ m.share = Front(e).desc.share
                    /\ Mails(e, way, m)
<1>a. PICK p : p = Done(peer[e]) OBVIOUS
<1>b. PICK d : d = Front(e).desc OBVIOUS
<1>c. PICK m : m = [d EXCEPT !.known = p.candidates > 0] OBVIOUS
<1>1. Runs(e, "setOffer") /\ UNCHANGED hiccups BY DEF SetOffer
<1>2. /\ peer[e] \in Peer /\ Front(e) \in Operation /\ Front(e).op = "setOffer"
      /\ p \in Peer /\ p.ops = Rest(e) /\ Like(peer[e], p, {"ops"})
  BY <1>1, <1>a, RunsIs
<1>3. CASE p.signaling = "remote"
  <2>1. PICK J : J = [p EXCEPT !.making = FALSE] OBVIOUS
  <2>2. J \in Peer /\ Like(p, J, {"making"}) /\ J.making = FALSE
    BY <1>2, <2>1 DEF Peer, Like, Fields
  <2>3. Becomes(e, J) /\ UNCHANGED net BY <1>3, <1>a, <2>1 DEF SetOffer
  <2>4. Turns(e) /\ peer'[e] = J BY <2>2, <2>3, TurnsIs
  <2>5. net' \in [Ends -> [Ways -> Seq(Message)]] BY <2>3 DEF NegotiationTypeOK
  <2>6. QED BY <1>1, <1>2, <1>3, <2>2, <2>3, <2>4, <2>5 DEF Same, Only, Like, Fields, Beside
<1>4. CASE p.signaling # "remote"
  <2>1. d \in Description /\ Front(e).way \in Ways BY <1>2, <1>b, OperationsRead
  <2>2. PICK J : J = [p EXCEPT !.signaling = "local", !.pending = d, !.gathering = TRUE]
    OBVIOUS
  <2>3. /\ J \in Peer /\ Like(p, J, {"signaling", "pending", "gathering"})
        /\ J.signaling = "local" /\ J.pending = d /\ J.gathering = TRUE
    BY <1>2, <2>1, <2>2 DEF Peer, Like, Fields
  <2>4. Becomes(e, J) /\ Sends(e, Front(e).way, m)
    BY <1>4, <1>a, <1>b, <1>c, <2>2 DEF SetOffer, Front
  <2>5. Turns(e) /\ peer'[e] = J BY <2>3, <2>4, TurnsIs
  <2>6. /\ m \in Description /\ m.type = d.type /\ m.id = d.id
        /\ m.media = d.media /\ m.share = d.share
    <3>1. (p.candidates > 0) \in BOOLEAN OBVIOUS
    <3>2. m \in Description BY <1>c, <2>1, <3>1, Descriptions
    <3>3. QED BY <1>c, <2>1, <3>2 DEF Description
  <2>7. m \in Message BY <2>6 DEF Message
  <2>8. Mails(e, Front(e).way, m) /\ net' \in [Ends -> [Ways -> Seq(Message)]]
    BY <2>1, <2>4, <2>7, MailsIs
  <2>9. /\ Same(e, {"ops", "signaling", "pending"})
        /\ Only(e, {"ops", "signaling", "pending", "gathering"}) /\ peer[e].signaling # "remote"
        /\ peer'[e].ops = Rest(e)
    BY <1>2, <1>4, <2>3, <2>5 DEF Same, Only, Like, Fields, Beside
  <2>10. QED BY <1>1, <1>b, <2>1, <2>3, <2>5, <2>6, <2>7, <2>8, <2>9
<1>5. QED BY <1>3, <1>4

LEMMA RollbackDoes ==
  ASSUME NegotiationTypeOK, NEW e \in Ends, Rollback(e)
  PROVE  /\ Runs(e, "rollback") /\ Turns(e) /\ UNCHANGED <<net, hiccups>>
         /\ \/ /\ peer[e].signaling = "stable" /\ Same(e, {"ops"}) /\ Only(e, {"ops"})
               /\ peer'[e].ops = Rest(e)
            \/ /\ peer[e].signaling # "stable" /\ Same(e, {"ops", "signaling", "pending"})
               /\ Only(e, {"ops", "signaling", "pending", "raised"})
               /\ peer'[e].signaling = "stable"
               /\ \E op \in Operation :
                    /\ op.op = "setRemoteOffer" /\ op.desc = Front(e).desc
                    /\ peer'[e].ops = Append(Rest(e), op)
<1>a. PICK p : p = Done(peer[e]) OBVIOUS
<1>c. PICK op : op = [Front(e) EXCEPT !.op = "setRemoteOffer"] OBVIOUS
<1>d. PICK q : q = [p EXCEPT !.signaling = "stable", !.pending = NoDescription,
                             !.raised = FALSE] OBVIOUS
<1>e. PICK J : J = IF p.signaling = "stable" THEN p ELSE Chained(q, op) OBVIOUS
<1>1. Runs(e, "rollback") /\ Becomes(e, J) /\ UNCHANGED <<net, hiccups>>
  BY <1>a, <1>c, <1>d, <1>e DEF Rollback, Front
<1>2. /\ peer[e] \in Peer /\ Front(e) \in Operation /\ Front(e).op = "rollback"
      /\ p \in Peer /\ p.ops = Rest(e) /\ Like(peer[e], p, {"ops"})
  BY <1>1, <1>a, RunsIs
<1>3. CASE p.signaling = "stable"
  <2>1. J = p BY <1>e, <1>3
  <2>3. Turns(e) /\ peer'[e] = J BY <1>1, <1>2, <2>1, TurnsIs
  <2>4. QED BY <1>1, <1>2, <1>3, <2>1, <2>3 DEF Same, Only, Like, Fields, Beside
<1>4. CASE p.signaling # "stable"
  <2>1. J = Chained(q, op) BY <1>e, <1>4
  <2>a. PICK d : d = NoDescription OBVIOUS
  <2>b. d \in Description /\ p \in Peer BY <1>2, <2>a, Descriptions
  <2>c. q = [p EXCEPT !.signaling = "stable", !.pending = d, !.raised = FALSE] BY <1>d, <2>a
  <2>2. q \in Peer /\ Like(p, q, {"signaling", "pending", "raised"}) /\ q.signaling = "stable"
    BY ONLY <2>b, <2>c DEF Peer, Like, Fields
  <2>3. op \in Operation BY <1>2, <1>c, OperationsRead
  <2>4. op.op = "setRemoteOffer" /\ op.desc = Front(e).desc BY <1>2, <1>c DEF Operation
  <2>6. J \in Peer /\ Like(q, J, {"ops"}) /\ J.ops = Append(q.ops, op)
    BY <2>1, <2>2, <2>3, ChainedIs
  <2>7. Turns(e) /\ peer'[e] = J BY <1>1, <2>6, TurnsIs
  <2>8. /\ Same(e, {"ops", "signaling", "pending"})
        /\ Only(e, {"ops", "signaling", "pending", "raised"}) /\ peer[e].signaling # "stable"
        /\ J.ops = Append(Rest(e), op) /\ peer'[e].signaling = "stable"
    BY <1>2, <1>4, <2>2, <2>6, <2>7 DEF Same, Only, Like, Fields, Beside
  <2>9. QED BY <1>1, <2>3, <2>4, <2>7, <2>8
<1>5. QED BY <1>3, <1>4

LEMMA SetRemoteOfferDoes ==
  ASSUME NegotiationTypeOK, NEW e \in Ends, SetRemoteOffer(e)
  PROVE  /\ Runs(e, "setRemoteOffer") /\ Turns(e) /\ UNCHANGED <<net, hiccups>>
         /\ Same(e, {"ops", "signaling", "pending"})
         /\ Only(e, {"ops", "signaling", "pending", "view", "reaches"})
         /\ peer'[e].signaling = "remote" /\ peer'[e].pending = Front(e).desc
         /\ peer'[e].view = Front(e).desc.share
         /\ peer[e].reaches => peer'[e].reaches
         /\ \E op \in Operation :
              op.op = "createAnswer" /\ peer'[e].ops = Append(Rest(e), op)
<1>a. PICK p : p = Done(peer[e]) OBVIOUS
<1>b. PICK d : d = Front(e).desc OBVIOUS
<1>c. PICK op : op = [op |-> "createAnswer", way |-> Front(e).way] OBVIOUS
<1>d. PICK b : b = (p.reaches \/ d.known) OBVIOUS
<1>e. PICK q : q = [p EXCEPT !.signaling = "remote", !.pending = d, !.view = d.share,
                             !.reaches = b] OBVIOUS
<1>1. Runs(e, "setRemoteOffer") /\ UNCHANGED <<net, hiccups>> BY DEF SetRemoteOffer
<1>2. /\ peer[e] \in Peer /\ Front(e) \in Operation /\ Front(e).op = "setRemoteOffer"
      /\ p \in Peer /\ p.ops = Rest(e) /\ Like(peer[e], p, {"ops"})
  BY <1>1, <1>a, RunsIs
<1>3. d \in Description /\ Front(e).way \in Ways BY <1>2, <1>b, OperationsRead
<1>4. d.share \in BOOLEAN BY <1>3, Descriptions
<1>5. b \in BOOLEAN BY <1>d
<1>6. /\ q \in Peer /\ Like(p, q, {"signaling", "pending", "view", "reaches"})
      /\ q.signaling = "remote" /\ q.pending = d
  BY <1>2, <1>3, <1>4, <1>5, <1>e DEF Peer, Like, Fields
<1>f. q.view = d.share /\ q.reaches = b
  <2>1. p \in Peer /\ d \in Description /\ d.share \in BOOLEAN /\ b \in BOOLEAN
    BY <1>2, <1>3, <1>4, <1>5
  <2>2. q.view = d.share BY ONLY <2>1, <1>e DEF Peer
  <2>3. q.reaches = b BY ONLY <2>1, <1>e DEF Peer
  <2>4. QED BY <2>2, <2>3
<1>g. p.reaches = peer[e].reaches BY <1>2 DEF Like, Fields
<1>7. op \in Operation /\ op.op = "createAnswer" BY <1>3, <1>c, OperationsMade
<1>8. Becomes(e, Chained(q, op))
  BY <1>a, <1>b, <1>c, <1>d, <1>e DEF SetRemoteOffer, Front
<1>9. PICK J : J = Chained(q, op) OBVIOUS
<1>10. J \in Peer /\ Like(q, J, {"ops"}) /\ J.ops = Append(q.ops, op)
  BY <1>6, <1>7, <1>9, ChainedIs
<1>11. Turns(e) /\ peer'[e] = J BY <1>8, <1>9, <1>10, TurnsIs
<1>12. /\ Same(e, {"ops", "signaling", "pending"})
       /\ Only(e, {"ops", "signaling", "pending", "view", "reaches"})
       /\ J.ops = Append(Rest(e), op)
       /\ peer'[e].signaling = "remote" /\ peer'[e].pending = d
  BY <1>2, <1>6, <1>10, <1>11 DEF Same, Only, Like, Fields, Beside
<1>13. J.view = q.view /\ J.reaches = q.reaches BY <1>10 DEF Like, Fields
<1>14. peer'[e].view = d.share BY <1>f, <1>11, <1>13
<1>15. peer[e].reaches => peer'[e].reaches BY <1>d, <1>f, <1>g, <1>11, <1>13
<1>16. QED BY <1>1, <1>b, <1>7, <1>11, <1>12, <1>14, <1>15

LEMMA CreateAnswerDoes ==
  ASSUME NegotiationTypeOK, NEW e \in Ends, CreateAnswer(e)
  PROVE  /\ Runs(e, "createAnswer") /\ Turns(e) /\ UNCHANGED <<net, hiccups>>
         /\ Same(e, {"ops"}) /\ Only(e, {"ops"})
         /\ \/ peer[e].signaling # "remote" /\ peer'[e].ops = Rest(e)
            \/ /\ peer[e].signaling = "remote"
               /\ \E op \in Operation :
                    /\ op.op = "setAnswer" /\ op.desc.type = "answer"
                    /\ op.desc.id = peer[e].pending.id /\ op.desc \in Description
                    /\ op.desc.media = peer[e].pending.media
                    /\ op.desc.share => peer[e].pending.media /\ peer[e].share
                    /\ peer'[e].ops = Append(Rest(e), op)
<1>a. PICK p : p = Done(peer[e]) OBVIOUS
<1>b. PICK d : d = [type |-> "answer", id |-> p.pending.id, media |-> p.pending.media,
                    share |-> p.pending.media /\ p.share, known |-> FALSE] OBVIOUS
<1>c. PICK op : op = [op |-> "setAnswer", way |-> Front(e).way, desc |-> d] OBVIOUS
<1>e. PICK J : J = IF p.signaling # "remote" THEN p ELSE Chained(p, op) OBVIOUS
<1>1. Runs(e, "createAnswer") /\ Becomes(e, J) /\ UNCHANGED <<net, hiccups>>
  BY <1>a, <1>b, <1>c, <1>e DEF CreateAnswer, Front
<1>2. /\ peer[e] \in Peer /\ Front(e) \in Operation /\ Front(e).op = "createAnswer"
      /\ p \in Peer /\ p.ops = Rest(e) /\ Like(peer[e], p, {"ops"})
  BY <1>1, <1>a, RunsIs
<1>3. CASE p.signaling # "remote"
  <2>1. J = p BY <1>e, <1>3
  <2>3. Turns(e) /\ peer'[e] = J BY <1>1, <1>2, <2>1, TurnsIs
  <2>4. QED BY <1>1, <1>2, <1>3, <2>1, <2>3 DEF Same, Only, Like, Fields, Beside
<1>4. CASE p.signaling = "remote"
  <2>1. J = Chained(p, op) BY <1>e, <1>4
  <2>2. p.pending \in Description BY <1>2 DEF Peer
  <2>3. /\ p.pending.id \in Offers /\ p.pending.media \in BOOLEAN
        /\ (p.pending.media /\ p.share) \in BOOLEAN
    BY <2>2, Descriptions
  <2>4. d \in Description /\ d.type = "answer" /\ d.id = p.pending.id
    BY <1>b, <2>3 DEF Description
  <2>5. Front(e).way \in Ways BY <1>2, OperationsRead
  <2>6. op \in Operation /\ op.op = "setAnswer" /\ op.desc = d
    BY <1>c, <2>4, <2>5, OperationsMade
  <2>7. J \in Peer /\ Like(p, J, {"ops"}) /\ J.ops = Append(p.ops, op)
    BY <1>2, <2>1, <2>6, ChainedIs
  <2>8. Turns(e) /\ peer'[e] = J BY <1>1, <2>7, TurnsIs
  <2>9. /\ Same(e, {"ops"}) /\ Only(e, {"ops"}) /\ peer[e].signaling = "remote"
        /\ J.ops = Append(Rest(e), op)
        /\ peer[e].pending = p.pending
        /\ peer[e].share = p.share
    BY <1>2, <1>4, <2>7, <2>8 DEF Same, Only, Like, Fields, Beside
  <2>10. d.media = p.pending.media /\ (d.share => p.pending.media /\ p.share) BY <1>b
  <2>11. QED BY <1>1, <2>4, <2>6, <2>8, <2>9, <2>10
<1>5. QED BY <1>3, <1>4

LEMMA SetAnswerDoes ==
  ASSUME NegotiationTypeOK, NEW e \in Ends, SetAnswer(e)
  PROVE  /\ Runs(e, "setAnswer") /\ Turns(e) /\ UNCHANGED hiccups
         /\ net' \in [Ends -> [Ways -> Seq(Message)]] /\ peer'[e].ops = Rest(e)
         /\ \/ peer[e].signaling # "remote" /\ Same(e, {"ops"}) /\ Only(e, {"ops"}) /\ net' = net
            \/ /\ peer[e].signaling = "remote" /\ Same(e, {"ops", "signaling", "pending"})
               /\ Only(e, {"ops", "signaling", "pending", "session", "media", "sending",
                           "raised", "gathering"})
               /\ peer'[e].signaling = "stable" /\ peer'[e].session = peer[e].pending.id
               /\ peer'[e].media = peer[e].pending.media
               /\ peer'[e].sending = Front(e).desc.share
               /\ peer'[e].raised = FALSE /\ peer'[e].gathering = TRUE
               /\ \E m \in Message, way \in Ways :
                    /\ m.type = Front(e).desc.type /\ m.id = Front(e).desc.id
                    /\ m \in Description /\ m.media = Front(e).desc.media
                    /\ m.share = Front(e).desc.share
                    /\ Mails(e, way, m)
<1>a. PICK p : p = Done(peer[e]) OBVIOUS
<1>b. PICK d : d = Front(e).desc OBVIOUS
<1>c. PICK m : m = [d EXCEPT !.known = p.candidates > 0] OBVIOUS
<1>1. Runs(e, "setAnswer") /\ UNCHANGED hiccups BY DEF SetAnswer
<1>2. /\ peer[e] \in Peer /\ Front(e) \in Operation /\ Front(e).op = "setAnswer"
      /\ p \in Peer /\ p.ops = Rest(e) /\ Like(peer[e], p, {"ops"})
  BY <1>1, <1>a, RunsIs
<1>3. CASE p.signaling # "remote"
  <2>3. Becomes(e, p) /\ UNCHANGED net BY <1>3, <1>a DEF SetAnswer
  <2>4. Turns(e) /\ peer'[e] = p BY <1>2, <2>3, TurnsIs
  <2>5. net' \in [Ends -> [Ways -> Seq(Message)]] BY <2>3 DEF NegotiationTypeOK
  <2>6. QED BY <1>1, <1>2, <1>3, <2>3, <2>4, <2>5 DEF Same, Only, Like, Fields, Beside
<1>4. CASE p.signaling = "remote"
  <2>1. d \in Description /\ Front(e).way \in Ways BY <1>2, <1>b, OperationsRead
  <2>a. d.share \in BOOLEAN BY <2>1, Descriptions
  <2>b. PICK r : r = Settled(p, d.share) OBVIOUS
  <2>c. /\ r \in Peer /\ r.signaling = "stable"
        /\ r.session = p.pending.id /\ r.media = p.pending.media /\ r.sending = d.share
        /\ r.raised = FALSE
        /\ Like(p, r, {"signaling", "pending", "session", "media", "sending", "raised"})
    <3>1. p \in Peer BY <1>2
    <3>2. PICK shown \in BOOLEAN : shown = d.share BY <2>a
    <3>3. r = Settled(p, shown) BY <2>b, <3>2
    <3>4. QED BY ONLY <3>1, <3>2, <3>3, SettledIs
  <2>2. PICK J : J = [r EXCEPT !.gathering = TRUE] OBVIOUS
  <2>d. r \in Peer BY <2>c
  <2>3. J \in Peer /\ Like(r, J, {"gathering"}) /\ J.gathering = TRUE
    BY ONLY <2>d, <2>2 DEF Peer, Like, Fields
  <2>4. Becomes(e, J) /\ Sends(e, Front(e).way, m)
    BY <1>4, <1>a, <1>b, <1>c, <2>b, <2>2 DEF SetAnswer, Front
  <2>5. Turns(e) /\ peer'[e] = J BY <2>3, <2>4, TurnsIs
  <2>6. /\ m \in Description /\ m.type = d.type /\ m.id = d.id
        /\ m.media = d.media /\ m.share = d.share
    <3>1. (p.candidates > 0) \in BOOLEAN OBVIOUS
    <3>2. m \in Description BY <1>c, <2>1, <3>1, Descriptions
    <3>3. QED BY <1>c, <2>1, <3>2 DEF Description
  <2>7. m \in Message BY <2>6 DEF Message
  <2>8. Mails(e, Front(e).way, m) /\ net' \in [Ends -> [Ways -> Seq(Message)]]
    BY <2>1, <2>4, <2>7, MailsIs
  <2>9. /\ Same(e, {"ops", "signaling", "pending"})
               /\ Only(e, {"ops", "signaling", "pending", "session", "media", "sending",
                           "raised", "gathering"}) /\ peer[e].signaling = "remote"
        /\ peer'[e].ops = Rest(e) /\ peer'[e].signaling = "stable"
    BY <1>2, <1>4, <2>c, <2>3, <2>5 DEF Same, Only, Like, Fields, Beside
  <2>10. /\ peer'[e].session = r.session /\ peer'[e].media = r.media
         /\ peer'[e].sending = r.sending /\ peer'[e].raised = r.raised
         /\ peer'[e].gathering = TRUE /\ p.pending = peer[e].pending
    BY <1>2, <2>3, <2>5 DEF Like, Fields
  <2>11. QED BY <1>1, <1>b, <2>1, <2>c, <2>5, <2>6, <2>7, <2>8, <2>9, <2>10
<1>5. QED BY <1>3, <1>4

LEMMA SetRemoteAnswerDoes ==
  ASSUME NegotiationTypeOK, NEW e \in Ends, SetRemoteAnswer(e)
  PROVE  /\ Runs(e, "setRemoteAnswer") /\ Turns(e) /\ UNCHANGED <<net, hiccups>>
         /\ peer'[e].ops = Rest(e)
         /\ \/ peer[e].signaling # "local" /\ Same(e, {"ops"}) /\ Only(e, {"ops"})
            \/ /\ peer[e].signaling = "local" /\ Same(e, {"ops", "signaling", "pending"})
               /\ Only(e, {"ops", "signaling", "pending", "session", "media", "sending",
                           "raised", "view", "reaches"})
               /\ peer'[e].signaling = "stable" /\ peer'[e].session = peer[e].pending.id
               /\ peer'[e].media = peer[e].pending.media
               /\ peer'[e].sending = peer[e].pending.share /\ peer'[e].raised = FALSE
               /\ peer'[e].view = Front(e).desc.share
               /\ peer[e].reaches => peer'[e].reaches
<1>a. PICK p : p = Done(peer[e]) OBVIOUS
<1>b. PICK d : d = Front(e).desc OBVIOUS
<1>c. PICK b : b = (p.reaches \/ d.known) OBVIOUS
<1>d. PICK r : r = Settled(p, p.pending.share) OBVIOUS
<1>r. PICK r2 : r2 = [r EXCEPT !.view = d.share, !.reaches = @ \/ d.known] OBVIOUS
<1>e. PICK J : J = IF p.signaling # "local" THEN p ELSE r2 OBVIOUS
<1>1. Runs(e, "setRemoteAnswer") /\ Becomes(e, J) /\ UNCHANGED <<net, hiccups>>
  BY <1>a, <1>b, <1>d, <1>r, <1>e DEF SetRemoteAnswer, Front
<1>2. /\ peer[e] \in Peer /\ Front(e) \in Operation /\ Front(e).op = "setRemoteAnswer"
      /\ p \in Peer /\ p.ops = Rest(e) /\ Like(peer[e], p, {"ops"})
  BY <1>1, <1>a, RunsIs
<1>3. CASE p.signaling # "local"
  <2>1. J = p BY <1>e, <1>3
  <2>3. Turns(e) /\ peer'[e] = J BY <1>1, <1>2, <2>1, TurnsIs
  <2>4. QED BY <1>1, <1>2, <1>3, <2>1, <2>3 DEF Same, Only, Like, Fields, Beside
<1>4. CASE p.signaling = "local"
  <2>1. J = r2 BY <1>e, <1>4
  <2>2. d \in Description /\ p.pending \in Description
    <3>1. d \in Description BY <1>2, <1>b, OperationsRead
    <3>2. QED BY <1>2, <3>1 DEF Peer
  <2>3. d.share \in BOOLEAN /\ p.pending.share \in BOOLEAN BY <2>2, Descriptions
  <2>4. /\ r \in Peer /\ r.signaling = "stable"
        /\ r.session = p.pending.id /\ r.media = p.pending.media
        /\ r.sending = p.pending.share /\ r.raised = FALSE
        /\ Like(p, r, {"signaling", "pending", "session", "media", "sending", "raised"})
    <3>1. p \in Peer BY <1>2
    <3>2. PICK shown \in BOOLEAN : shown = p.pending.share BY <2>3
    <3>3. r = Settled(p, shown) BY <1>d, <3>2
    <3>4. QED BY ONLY <3>1, <3>2, <3>3, SettledIs
  <2>5. PICK c : c = (r.reaches \/ d.known) OBVIOUS
  <2>6. c \in BOOLEAN BY <2>5
  <2>7. r2 = [r EXCEPT !.view = d.share, !.reaches = c] BY <1>r, <2>5
  <2>8. J \in Peer /\ Like(r, J, {"view", "reaches"})
    BY ONLY <2>1, <2>3, <2>4, <2>6, <2>7 DEF Peer, Like, Fields
  <2>9. Turns(e) /\ peer'[e] = J BY <1>1, <2>8, TurnsIs
  <2>10. J.view = d.share
    <3>1. r \in Peer BY <2>4
    <3>2. QED BY ONLY <2>1, <2>3, <3>1, <2>6, <2>7 DEF Peer
  <2>11. J.reaches = c
    <3>1. r \in Peer BY <2>4
    <3>2. QED BY ONLY <2>1, <2>3, <3>1, <2>6, <2>7 DEF Peer
  <2>12. p.pending = peer[e].pending /\ p.reaches = peer[e].reaches /\ r.reaches = p.reaches
    BY <1>2, <2>4 DEF Like, Fields
  <2>13. /\ peer'[e].session = r.session /\ peer'[e].media = r.media
         /\ peer'[e].sending = r.sending /\ peer'[e].raised = r.raised
    BY <2>8, <2>9 DEF Like, Fields
  <2>14. peer[e].reaches => peer'[e].reaches BY <2>5, <2>9, <2>11, <2>12
  <2>15. /\ peer'[e].session = peer[e].pending.id /\ peer'[e].media = peer[e].pending.media
         /\ peer'[e].sending = peer[e].pending.share /\ peer'[e].raised = FALSE
         /\ peer'[e].view = Front(e).desc.share
    BY <1>b, <2>4, <2>9, <2>10, <2>12, <2>13
  <2>16. /\ peer[e].signaling = "local" /\ Same(e, {"ops", "signaling", "pending"})
         /\ Only(e, {"ops", "signaling", "pending", "session", "media", "sending",
                     "raised", "view", "reaches"})
         /\ peer'[e].signaling = "stable" /\ peer'[e].ops = Rest(e)
    BY <1>2, <1>4, <2>4, <2>8, <2>9 DEF Same, Only, Like, Fields, Beside
  <2>17. QED BY <1>1, <2>9, <2>14, <2>15, <2>16
<1>5. QED BY <1>3, <1>4

LEMMA ReceivesIs ==
  ASSUME NegotiationTypeOK, NEW e \in Ends, NEW way \in Ways, NEW type,
         Receives(e, way, type)
  PROVE  /\ Takes(e, way) /\ net' \in [Ends -> [Ways -> Seq(Message)]]
         /\ Head(net[e][way]) \in Message /\ Head(net[e][way]).type = type
<1>1. /\ net[e][way] # <<>> /\ Head(net[e][way]).type = type
      /\ net' = [net EXCEPT ![e][way] = Tail(@)]
  BY DEF Receives
<1>2. QED BY <1>1, TakesIs

LEMMA OnRemoteOfferDoes ==
  ASSUME NegotiationTypeOK, NEW e \in Ends, NEW way \in Ways, onRemoteOffer(e, way)
  PROVE  /\ Turns(e) /\ UNCHANGED hiccups /\ peer[e].role # "none"
         /\ Takes(e, way) /\ net' \in [Ends -> [Ways -> Seq(Message)]]
         /\ Head(net[e][way]).type = "offer"
         /\ peer'[e].ignoring => peer[e].role = "impolite"
         /\ \/ /\ peer[e].role = "impolite" /\ Colliding(peer[e])
               /\ Same(e, {}) /\ Only(e, {"ignoring"})
            \/ /\ peer[e].role = "polite" /\ peer[e].making /\ peer[e].signaling # "stable"
               /\ Same(e, {"making", "aborted", "ops"})
               /\ Only(e, {"ignoring", "making", "aborted", "ops"})
               /\ peer'[e].making = FALSE /\ peer'[e].aborted = TRUE
               /\ \E op \in Operation :
                    /\ op.op = "rollback" /\ op.desc = Head(net[e][way])
                    /\ peer'[e].ops = Append(peer[e].ops, op)
            \/ /\ ~(peer[e].role = "impolite" /\ Colliding(peer[e]))
               /\ ~(peer[e].role = "polite" /\ peer[e].making /\ peer[e].signaling # "stable")
               /\ Same(e, {"ops"}) /\ Only(e, {"ignoring", "ops"})
               /\ \E op \in Operation :
                    /\ op.op = "setRemoteOffer" /\ op.desc = Head(net[e][way])
                    /\ peer'[e].ops = Append(peer[e].ops, op)
<1>a. PICK b : b = (peer[e].role = "impolite" /\ Colliding(peer[e])) OBVIOUS
<1>b. PICK p : p = [peer[e] EXCEPT !.ignoring = b] OBVIOUS
<1>c. PICK d : d = Head(net[e][way]) OBVIOUS
<1>d. PICK q : q = [p EXCEPT !.making = FALSE, !.aborted = TRUE] OBVIOUS
<1>e. PICK back : back = [op |-> "rollback", way |-> way, desc |-> d] OBVIOUS
<1>f. PICK set : set = [op |-> "setRemoteOffer", way |-> way, desc |-> d] OBVIOUS
<1>1. /\ peer[e].role # "none" /\ Receives(e, way, "offer") /\ UNCHANGED hiccups
      /\ Becomes(e, IF p.ignoring THEN p
                    ELSE IF p.role = "polite" /\ p.making /\ p.signaling # "stable"
                    THEN Chained(q, back) ELSE Chained(p, set))
  BY <1>a, <1>b, <1>c, <1>d, <1>e, <1>f DEF onRemoteOffer
<1>2. /\ Takes(e, way) /\ net' \in [Ends -> [Ways -> Seq(Message)]]
      /\ d \in Message /\ d.type = "offer"
  BY <1>1, <1>c, ReceivesIs
<1>3. d \in Description BY <1>2, MessagesRead
<1>4. back \in Operation /\ set \in Operation BY <1>3, <1>e, <1>f, OperationsMade
<1>5. /\ back.op = "rollback" /\ back.desc = d
      /\ set.op = "setRemoteOffer" /\ set.desc = d
  BY <1>e, <1>f
<1>6. b \in BOOLEAN /\ peer[e] \in Peer BY <1>a DEF NegotiationTypeOK
<1>7. p \in Peer /\ Like(peer[e], p, {"ignoring"}) /\ p.ignoring = b
  BY ONLY <1>6, <1>b DEF Peer, Like, Fields
<1>8. p.role = peer[e].role /\ p.making = peer[e].making /\ p.signaling = peer[e].signaling
  BY <1>7 DEF Like, Fields
<1>9. CASE b
  <2>1. Becomes(e, p) BY <1>1, <1>7, <1>9
  <2>2. Turns(e) /\ peer'[e] = p BY <1>7, <2>1, TurnsIs
  <2>3. /\ Same(e, {}) /\ Only(e, {"ignoring"}) /\ peer'[e].ignoring = p.ignoring
    BY <1>7, <2>2 DEF Same, Only, Like, Fields, Beside
  <2>4. QED BY <1>1, <1>2, <1>7, <1>a, <1>c, <1>9, <2>2, <2>3
<1>10. CASE ~b /\ p.role = "polite" /\ p.making /\ p.signaling # "stable"
  <2>1. PICK J : J = Chained(q, back) OBVIOUS
  <2>2. Becomes(e, J) BY <1>1, <1>7, <1>10, <2>1
  <2>3. /\ q \in Peer /\ Like(p, q, {"making", "aborted"})
        /\ q.making = FALSE /\ q.aborted = TRUE
    BY ONLY <1>7, <1>d DEF Peer, Like, Fields
  <2>4. J \in Peer /\ Like(q, J, {"ops"}) /\ J.ops = Append(q.ops, back)
    BY <2>1, <2>3, <1>4, ChainedIs
  <2>5. Turns(e) /\ peer'[e] = J BY <2>2, <2>4, TurnsIs
  <2>6. /\ Same(e, {"making", "aborted", "ops"})
        /\ Only(e, {"ignoring", "making", "aborted", "ops"}) /\ J.making = FALSE
        /\ J.aborted = TRUE
        /\ J.ops = Append(peer[e].ops, back) /\ J.ignoring = p.ignoring
    BY <1>7, <2>3, <2>4, <2>5 DEF Same, Only, Like, Fields, Beside
  <2>7. QED BY <1>1, <1>2, <1>7, <1>c, <1>4, <1>5, <1>8, <1>10, <2>5, <2>6
<1>11. CASE ~b /\ ~(p.role = "polite" /\ p.making /\ p.signaling # "stable")
  <2>1. PICK J : J = Chained(p, set) OBVIOUS
  <2>2. Becomes(e, J) BY <1>1, <1>7, <1>11, <2>1
  <2>4. J \in Peer /\ Like(p, J, {"ops"}) /\ J.ops = Append(p.ops, set)
    BY <2>1, <1>7, <1>4, ChainedIs
  <2>5. Turns(e) /\ peer'[e] = J BY <2>2, <2>4, TurnsIs
  <2>6. Same(e, {"ops"}) /\ Only(e, {"ignoring", "ops"}) /\ J.ops = Append(peer[e].ops, set)
        /\ J.ignoring = p.ignoring
    BY <1>7, <2>4, <2>5 DEF Same, Only, Like, Fields, Beside
  <2>7. QED BY <1>1, <1>2, <1>7, <1>a, <1>c, <1>4, <1>5, <1>8, <1>11, <2>5, <2>6
<1>12. QED BY <1>9, <1>10, <1>11

LEMMA OnRemoteAnswerDoes ==
  ASSUME NegotiationTypeOK, NEW e \in Ends, NEW way \in Ways, onRemoteAnswer(e, way)
  PROVE  /\ Turns(e) /\ UNCHANGED hiccups /\ peer[e].role # "none"
         /\ Takes(e, way) /\ net' \in [Ends -> [Ways -> Seq(Message)]]
         /\ Head(net[e][way]).type = "answer"
         /\ \/ peer[e].signaling = "stable" /\ Same(e, {}) /\ Only(e, {})
            \/ /\ peer[e].signaling # "stable" /\ Same(e, {"making", "ops"})
               /\ Only(e, {"making", "ops"})
               /\ peer'[e].making = FALSE
               /\ \E op \in Operation :
                    /\ op.op = "setRemoteAnswer" /\ op.desc = Head(net[e][way])
                    /\ peer'[e].ops = Append(peer[e].ops, op)
<1>a. PICK d : d = Head(net[e][way]) OBVIOUS
<1>b. PICK op : op = [op |-> "setRemoteAnswer", desc |-> d] OBVIOUS
<1>c. PICK q : q = [peer[e] EXCEPT !.making = FALSE] OBVIOUS
<1>1. /\ peer[e].role # "none" /\ Receives(e, way, "answer") /\ UNCHANGED hiccups
      /\ Becomes(e, IF peer[e].signaling = "stable" THEN peer[e] ELSE Chained(q, op))
  BY <1>a, <1>b, <1>c DEF onRemoteAnswer
<1>2. /\ Takes(e, way) /\ net' \in [Ends -> [Ways -> Seq(Message)]]
      /\ d \in Message /\ d.type = "answer"
  BY <1>1, <1>a, ReceivesIs
<1>3. d \in Description BY <1>2, MessagesRead
<1>4. op \in Operation /\ op.op = "setRemoteAnswer" /\ op.desc = d
  <2>1. PICK w \in Ways : TRUE BY DEF Ways
  <2>2. QED BY <1>3, <1>b, <2>1, OperationsMade
<1>5. peer[e] \in Peer BY DEF NegotiationTypeOK
<1>6. CASE peer[e].signaling = "stable"
  <2>1. Becomes(e, peer[e]) BY <1>1, <1>6
  <2>2. Turns(e) /\ peer'[e] = peer[e] BY <1>5, <2>1, TurnsIs
  <2>3. Same(e, {}) /\ Only(e, {}) BY <2>2 DEF Same, Only, Like, Fields, Beside
  <2>4. QED BY <1>1, <1>2, <1>a, <1>6, <2>2, <2>3
<1>7. CASE peer[e].signaling # "stable"
  <2>1. PICK J : J = Chained(q, op) OBVIOUS
  <2>2. Becomes(e, J) BY <1>1, <1>7, <2>1
  <2>3. q \in Peer /\ Like(peer[e], q, {"making"}) /\ q.making = FALSE
    BY ONLY <1>5, <1>c DEF Peer, Like, Fields
  <2>4. J \in Peer /\ Like(q, J, {"ops"}) /\ J.ops = Append(q.ops, op)
    BY <2>1, <2>3, <1>4, ChainedIs
  <2>5. Turns(e) /\ peer'[e] = J BY <2>2, <2>4, TurnsIs
  <2>6. /\ Same(e, {"making", "ops"}) /\ Only(e, {"making", "ops"}) /\ J.making = FALSE
        /\ J.ops = Append(peer[e].ops, op)
    BY <2>3, <2>4, <2>5 DEF Same, Only, Like, Fields, Beside
  <2>7. QED BY <1>1, <1>2, <1>a, <1>4, <1>7, <2>5, <2>6
<1>8. QED BY <1>6, <1>7

LEMMA OnRemoteIceCandidateDoes ==
  ASSUME NegotiationTypeOK, NEW e \in Ends, NEW way \in Ways, onRemoteIceCandidate(e, way)
  PROVE  /\ Turns(e) /\ UNCHANGED hiccups /\ Same(e, {}) /\ Only(e, {"reaches"})
         /\ peer[e].role # "none"
         /\ Takes(e, way) /\ net' \in [Ends -> [Ways -> Seq(Message)]]
         /\ Head(net[e][way]).type = "candidate"
         /\ peer[e].reaches => peer'[e].reaches
         /\ peer[e].session # None /\ ~peer[e].ignoring => peer'[e].reaches
<1>a. PICK J : J = IF peer[e].session # None /\ ~peer[e].ignoring
                   THEN [peer[e] EXCEPT !.reaches = TRUE] ELSE peer[e] OBVIOUS
<1>1. /\ peer[e].role # "none" /\ Receives(e, way, "candidate") /\ UNCHANGED hiccups
      /\ Becomes(e, J)
  BY <1>a DEF onRemoteIceCandidate
<1>2. /\ Takes(e, way) /\ net' \in [Ends -> [Ways -> Seq(Message)]]
      /\ Head(net[e][way]).type = "candidate"
  BY <1>1, ReceivesIs
<1>3. peer[e] \in Peer BY DEF NegotiationTypeOK
<1>4. J \in Peer /\ Like(peer[e], J, {"reaches"}) BY ONLY <1>3, <1>a DEF Peer, Like, Fields
<1>5. Turns(e) /\ peer'[e] = J BY <1>1, <1>4, TurnsIs
<1>6. Same(e, {}) /\ Only(e, {"reaches"}) BY <1>4, <1>5 DEF Same, Only, Like, Fields, Beside
<1>7. peer[e].session # None /\ ~peer[e].ignoring => J.reaches
  BY ONLY <1>3, <1>a DEF Peer
<1>8. peer[e].reaches => J.reaches BY ONLY <1>3, <1>a DEF Peer
<1>9. QED BY <1>1, <1>2, <1>5, <1>6, <1>7, <1>8

LEMMA OnUserConnectedDoes ==
  ASSUME NegotiationTypeOK, NEW e \in Ends, OnUserConnected(e)
  PROVE  /\ Turns(e) /\ UNCHANGED hiccups
         /\ Takes(e, "relay") /\ net' \in [Ends -> [Ways -> Seq(Message)]]
         /\ Head(net[e]["relay"]).type = "connected"
         /\ \E share \in BOOLEAN : peer'[e] = OtherPeer("polite", share)
<1>1. PICK share \in BOOLEAN : Becomes(e, OtherPeer("polite", share)) BY DEF OnUserConnected
<1>2. /\ net[e]["relay"] # <<>> /\ Head(net[e]["relay"]).type = "connected"
      /\ net' = [net EXCEPT ![e]["relay"] = Tail(@)] /\ UNCHANGED hiccups
  BY DEF OnUserConnected
<1>3. "relay" \in Ways BY DEF Ways
<1>4. Takes(e, "relay") /\ net' \in [Ends -> [Ways -> Seq(Message)]]
  BY <1>2, <1>3, TakesIs
<1>5. OtherPeer("polite", share) \in Peer
  BY Descriptions DEF OtherPeer, Peer
<1>6. Turns(e) /\ peer'[e] = OtherPeer("polite", share) BY <1>1, <1>5, TurnsIs
<1>7. QED BY <1>2, <1>4, <1>6

LEMMA ShareDoes ==
  ASSUME NegotiationTypeOK, NEW e \in Ends, Share(e)
  PROVE  /\ Turns(e) /\ UNCHANGED <<net, hiccups>> /\ Same(e, {})
         /\ Only(e, {"share", "shares"}) /\ peer[e].role # "none"
         /\ peer[e].shares \in Nat /\ peer'[e].shares = peer[e].shares + 1
<1>1. peer[e] \in Peer BY DEF NegotiationTypeOK
<1>2. peer[e].share \in BOOLEAN /\ peer[e].shares \in Nat BY <1>1 DEF Peer
<1>3. PICK b : b = ~peer[e].share OBVIOUS
<1>4. PICK n : n = peer[e].shares + 1 OBVIOUS
<1>5. PICK J : J = [peer[e] EXCEPT !.share = b, !.shares = n] OBVIOUS
<1>6. b \in BOOLEAN /\ n \in Nat BY <1>2, <1>3, <1>4
<1>7. J \in Peer /\ Like(peer[e], J, {"share", "shares"}) /\ J.shares = n
  BY ONLY <1>1, <1>5, <1>6 DEF Peer, Like, Fields
<1>8. Becomes(e, J) /\ UNCHANGED <<net, hiccups>> /\ peer[e].role # "none"
  BY <1>3, <1>4, <1>5 DEF Share
<1>9. Turns(e) /\ peer'[e] = J BY <1>7, <1>8, TurnsIs
<1>10. QED BY <1>2, <1>4, <1>7, <1>8, <1>9 DEF Same, Only, Like, Fields, Beside

LEMMA OnNegotiationNeededDoes ==
  ASSUME NegotiationTypeOK, NEW e \in Ends, OnNegotiationNeeded(e)
  PROVE  /\ Turns(e) /\ UNCHANGED <<net, hiccups>> /\ peer[e].role # "none"
         /\ Needed(peer[e]) # peer[e].raised
         /\ \/ /\ Same(e, {}) /\ Only(e, {"raised"})
               /\ peer'[e].raised => \/ peer[e].making \/ peer[e].aborted
                                     \/ peer[e].role = "polite" /\ peer[e].channel # "open"
            \/ /\ peer[e].signaling = "stable" /\ peer[e].ops = <<>>
               /\ ~peer[e].making /\ ~peer[e].aborted
               /\ ~(peer[e].role = "polite" /\ peer[e].channel # "open")
               /\ Same(e, {"making", "ops"}) /\ Only(e, {"raised", "making", "ops"})
               /\ peer'[e].making = TRUE
               /\ \E op \in Operation :
                    /\ op.op = "createOffer" /\ peer'[e].ops = Append(peer[e].ops, op)
<1>1. peer[e] \in Peer BY DEF NegotiationTypeOK
<1>2. PICK b : b = ~peer[e].raised OBVIOUS
<1>3. PICK p : p = [peer[e] EXCEPT !.raised = b] OBVIOUS
<1>4. b \in BOOLEAN BY <1>2
<1>5. p \in Peer /\ Like(peer[e], p, {"raised"})
  BY ONLY <1>1, <1>3, <1>4 DEF Peer, Like, Fields
<1>6. PICK J : J = IF p.raised /\ MayOffer(p) THEN startNegotiation(p) ELSE p OBVIOUS
<1>7. NegotiationDue(peer[e]) /\ Becomes(e, J) /\ UNCHANGED <<net, hiccups>>
  BY <1>2, <1>3, <1>6 DEF OnNegotiationNeeded
<1>8. /\ peer[e].role # "none" /\ peer[e].signaling = "stable" /\ peer[e].ops = <<>>
      /\ Needed(peer[e]) # peer[e].raised
  BY <1>7 DEF NegotiationDue
<1>9. CASE ~(p.raised /\ MayOffer(p))
  <2>1. J = p BY <1>6, <1>9
  <2>2. Turns(e) /\ peer'[e] = p BY <1>5, <1>7, <2>1, TurnsIs
  <2>3. Same(e, {}) /\ Only(e, {"raised"}) BY <1>5, <2>2 DEF Same, Only, Like, Fields, Beside
  <2>4. p.raised => \/ peer[e].making \/ peer[e].aborted
                    \/ peer[e].role = "polite" /\ peer[e].channel # "open"
    BY <1>5, <1>9 DEF MayOffer, Like, Fields
  <2>5. QED BY <1>7, <1>8, <2>2, <2>3, <2>4
<1>10. CASE p.raised /\ MayOffer(p)
  <2>1. J = startNegotiation(p) BY <1>6, <1>10
  <2>2. PICK op : op = [op |-> "createOffer", way |-> Way(p)] OBVIOUS
  <2>3. op \in Operation /\ op.op = "createOffer"
    BY <2>2, WayIs, Descriptions, OperationsMade
  <2>4. /\ J \in Peer /\ Like(p, J, {"ops", "making"}) /\ J.making = TRUE
        /\ J.ops = Append(p.ops, op)
    BY <1>5, <2>1, <2>2, StartIs
  <2>5. Turns(e) /\ peer'[e] = J BY <1>7, <2>4, TurnsIs
  <2>6. /\ Same(e, {"making", "ops"}) /\ Only(e, {"raised", "making", "ops"})
        /\ J.ops = Append(peer[e].ops, op)
    BY <1>5, <2>4, <2>5 DEF Same, Only, Like, Fields, Beside
  <2>7. /\ ~peer[e].making /\ ~peer[e].aborted
        /\ ~(peer[e].role = "polite" /\ peer[e].channel # "open")
    BY <1>5, <1>10 DEF MayOffer, Like, Fields
  <2>8. QED BY <1>7, <1>8, <2>3, <2>4, <2>5, <2>6, <2>7
<1>11. QED BY <1>9, <1>10

LEMMA OnIceCandidateDoes ==
  ASSUME NegotiationTypeOK, NEW e \in Ends, OnIceCandidate(e)
  PROVE  /\ Turns(e) /\ UNCHANGED hiccups /\ Same(e, {}) /\ Only(e, {"candidates"})
         /\ Finds(e) /\ peer'[e].candidates = peer[e].candidates + 1
         /\ net' \in [Ends -> [Ways -> Seq(Message)]]
         /\ \E m \in Message, way \in Ways : m.type = "candidate" /\ Mails(e, way, m)
<1>1. peer[e] \in Peer BY DEF NegotiationTypeOK
<1>2. PICK n : n = peer[e].candidates + 1 OBVIOUS
<1>3. n \in Nat BY <1>1, <1>2 DEF Peer
<1>4. PICK J : J = [peer[e] EXCEPT !.candidates = n] OBVIOUS
<1>5. J \in Peer /\ Like(peer[e], J, {"candidates"}) /\ J.candidates = n
  BY ONLY <1>1, <1>3, <1>4 DEF Peer, Like, Fields
<1>6. PICK m : m = [type |-> "candidate"] OBVIOUS
<1>7. m \in Message /\ m.type = "candidate" BY <1>6 DEF Message
<1>8. Becomes(e, J) /\ Sends(e, Way(peer[e]), m) /\ UNCHANGED hiccups /\ Finds(e)
  BY <1>2, <1>4, <1>6 DEF OnIceCandidate
<1>9. Turns(e) /\ peer'[e] = J BY <1>5, <1>8, TurnsIs
<1>10. Mails(e, Way(peer[e]), m) /\ net' \in [Ends -> [Ways -> Seq(Message)]]
  BY <1>7, <1>8, WayIs, MailsIs
<1>11. Same(e, {}) /\ Only(e, {"candidates"}) BY <1>5, <1>9 DEF Same, Only, Like, Fields, Beside
<1>12. QED BY <1>2, <1>5, <1>7, <1>8, <1>9, <1>10, <1>11, WayIs

LEMMA OnIceConnectedDoes ==
  ASSUME NegotiationTypeOK, NEW e \in Ends, OnIceConnected(e)
  PROVE  /\ Turns(e) /\ UNCHANGED <<net, hiccups>>
         /\ peer[e].ice # "connected" /\ peer'[e].ice = "connected" /\ Reachable
         /\ \/ ~peer[e].aborted /\ Same(e, {"ice"}) /\ Only(e, {"ice"})
            \/ /\ peer[e].aborted /\ Same(e, {"ice", "aborted", "making", "ops"})
               /\ Only(e, {"ice", "aborted", "making", "ops"})
               /\ peer'[e].aborted = FALSE /\ peer'[e].making = TRUE
               /\ \E op \in Operation :
                    /\ op.op = "createOffer" /\ peer'[e].ops = Append(peer[e].ops, op)
<1>1. peer[e] \in Peer BY DEF NegotiationTypeOK
<1>2. PICK p : p = [peer[e] EXCEPT !.ice = "connected"] OBVIOUS
<1>3. p \in Peer /\ Like(peer[e], p, {"ice"}) /\ p.ice = "connected"
  BY ONLY <1>1, <1>2 DEF Peer, Like, Fields
<1>4. PICK q : q = [p EXCEPT !.aborted = FALSE] OBVIOUS
<1>5. q \in Peer /\ Like(p, q, {"aborted"}) /\ q.aborted = FALSE
  BY ONLY <1>3, <1>4 DEF Peer, Like, Fields
<1>6. PICK J : J = IF p.aborted THEN startNegotiation(q) ELSE p OBVIOUS
<1>7. /\ Becomes(e, J) /\ UNCHANGED <<net, hiccups>> /\ peer[e].ice # "connected"
      /\ Reachable
  BY <1>2, <1>4, <1>6 DEF OnIceConnected
<1>8. p.aborted = peer[e].aborted BY <1>3 DEF Like, Fields
<1>9. CASE ~p.aborted
  <2>1. J = p BY <1>6, <1>9
  <2>2. Turns(e) /\ peer'[e] = p BY <1>3, <1>7, <2>1, TurnsIs
  <2>3. Same(e, {"ice"}) /\ Only(e, {"ice"}) BY <1>3, <2>2 DEF Same, Only, Like, Fields, Beside
  <2>4. QED BY <1>3, <1>7, <1>8, <1>9, <2>2, <2>3
<1>10. CASE p.aborted
  <2>1. J = startNegotiation(q) BY <1>6, <1>10
  <2>2. PICK op : op = [op |-> "createOffer", way |-> Way(q)] OBVIOUS
  <2>3. op \in Operation /\ op.op = "createOffer"
    BY <2>2, WayIs, Descriptions, OperationsMade
  <2>4. /\ J \in Peer /\ Like(q, J, {"ops", "making"}) /\ J.making = TRUE
        /\ J.ops = Append(q.ops, op)
    BY <1>5, <2>1, <2>2, StartIs
  <2>5. Turns(e) /\ peer'[e] = J BY <1>7, <2>4, TurnsIs
  <2>6. /\ Same(e, {"ice", "aborted", "making", "ops"})
        /\ Only(e, {"ice", "aborted", "making", "ops"}) /\ J.ops = Append(peer[e].ops, op)
        /\ J.aborted = FALSE /\ J.ice = "connected"
    BY <1>3, <1>5, <2>4, <2>5 DEF Same, Only, Like, Fields, Beside
  <2>7. QED BY <1>7, <1>8, <1>10, <2>3, <2>4, <2>5, <2>6
<1>11. QED BY <1>9, <1>10

LEMMA OnIceDisconnectedDoes ==
  ASSUME NegotiationTypeOK, NEW e \in Ends, OnIceDisconnected(e)
  PROVE  /\ Turns(e) /\ UNCHANGED net /\ hiccups < MaxHiccups /\ hiccups' = hiccups + 1
         /\ peer[e].ice = "connected" /\ Same(e, {"ice"}) /\ Only(e, {"ice"})
<1>1. peer[e] \in Peer BY DEF NegotiationTypeOK
<1>2. PICK J : J = [peer[e] EXCEPT !.ice = "disconnected"] OBVIOUS
<1>3. J \in Peer /\ Like(peer[e], J, {"ice"}) BY ONLY <1>1, <1>2 DEF Peer, Like, Fields
<1>4. /\ Becomes(e, J) /\ UNCHANGED net /\ hiccups' = hiccups + 1 /\ hiccups < MaxHiccups
      /\ peer[e].ice = "connected"
  BY <1>2 DEF OnIceDisconnected
<1>5. Turns(e) /\ peer'[e] = J BY <1>3, <1>4, TurnsIs
<1>6. QED BY <1>3, <1>4, <1>5 DEF Same, Only, Like, Fields, Beside

LEMMA OnDataChannelOpenDoes ==
  ASSUME NegotiationTypeOK, NEW e \in Ends, OnDataChannelOpen(e)
  PROVE  /\ Turns(e) /\ UNCHANGED <<net, hiccups>>
         /\ peer[e].channel # "open" /\ peer'[e].channel = "open"
         /\ \A d \in Ends : peer[d].ice # "new"
         /\ \/ peer[e].role # "polite" /\ Same(e, {"channel"}) /\ Only(e, {"channel"})
            \/ /\ peer[e].role = "polite" /\ Same(e, {"channel", "making", "ops"})
               /\ Only(e, {"channel", "making", "ops"})
               /\ peer'[e].making = TRUE
               /\ \E op \in Operation :
                    /\ op.op = "createOffer" /\ peer'[e].ops = Append(peer[e].ops, op)
<1>1. peer[e] \in Peer BY DEF NegotiationTypeOK
<1>2. PICK p : p = [peer[e] EXCEPT !.channel = "open"] OBVIOUS
<1>3. p \in Peer /\ Like(peer[e], p, {"channel"}) /\ p.channel = "open"
  BY ONLY <1>1, <1>2 DEF Peer, Like, Fields
<1>6. PICK J : J = IF p.role = "polite" THEN startNegotiation(p) ELSE p OBVIOUS
<1>7. /\ Becomes(e, J) /\ UNCHANGED <<net, hiccups>> /\ peer[e].channel # "open"
      /\ \A d \in Ends : peer[d].ice # "new"
  BY <1>2, <1>6 DEF OnDataChannelOpen, Opens
<1>8. p.role = peer[e].role BY <1>3 DEF Like, Fields
<1>9. CASE p.role # "polite"
  <2>1. J = p BY <1>6, <1>9
  <2>2. Turns(e) /\ peer'[e] = p BY <1>3, <1>7, <2>1, TurnsIs
  <2>3. /\ Same(e, {"channel"}) /\ Only(e, {"channel"})
    BY <1>3, <2>2 DEF Same, Only, Like, Fields, Beside
  <2>4. QED BY <1>3, <1>7, <1>8, <1>9, <2>2, <2>3
<1>10. CASE p.role = "polite"
  <2>1. J = startNegotiation(p) BY <1>6, <1>10
  <2>2. PICK op : op = [op |-> "createOffer", way |-> Way(p)] OBVIOUS
  <2>3. op \in Operation /\ op.op = "createOffer"
    BY <2>2, WayIs, Descriptions, OperationsMade
  <2>4. /\ J \in Peer /\ Like(p, J, {"ops", "making"}) /\ J.making = TRUE
        /\ J.ops = Append(p.ops, op)
    BY <1>3, <2>1, <2>2, StartIs
  <2>5. Turns(e) /\ peer'[e] = J BY <1>7, <2>4, TurnsIs
  <2>6. /\ Same(e, {"channel", "making", "ops"}) /\ Only(e, {"channel", "making", "ops"})
        /\ J.ops = Append(peer[e].ops, op)
        /\ J.channel = "open"
    BY <1>3, <2>4, <2>5 DEF Same, Only, Like, Fields, Beside
  <2>7. QED BY <1>7, <1>8, <1>10, <2>3, <2>4, <2>5, <2>6
<1>11. QED BY <1>9, <1>10

-----------------------------------------------------------------------------
(* Types *)

LEMMA TypesAtFirst == ASSUME Init PROVE NegotiationTypeOK
<1>1. \A e \in Ends : OtherPeer(IF e = Newcomer THEN "impolite" ELSE "none", FALSE) \in Peer
  BY Descriptions DEF OtherPeer, Peer
<1>2. peer \in [Ends -> Peer] BY <1>1 DEF Init
<1>3. [type |-> "connected"] \in Message BY DEF Message
<1>4. <<>> \in Seq(Message) /\ <<[type |-> "connected"]>> \in Seq(Message) BY <1>3
<1>5. net \in [Ends -> [Ways -> Seq(Message)]] BY <1>4 DEF Init
<1>6. hiccups \in 0 .. MaxHiccups BY BoundsAssumption DEF Init
<1>7. QED BY <1>2, <1>5, <1>6 DEF NegotiationTypeOK

LEMMA TypesKept ==
  ASSUME NegotiationTypeOK, NEW e \in Ends, Turns(e), hiccups' \in 0 .. MaxHiccups,
         net' \in [Ends -> [Ways -> Seq(Message)]]
  PROVE  NegotiationTypeOK'
BY DEF Turns, NegotiationTypeOK

LEMMA TypesStep == ASSUME NegotiationTypeOK, [Next]_peerVars PROVE NegotiationTypeOK'
<1>1. /\ net \in [Ends -> [Ways -> Seq(Message)]] /\ hiccups \in 0 .. MaxHiccups
  BY DEF NegotiationTypeOK
<1>2. CASE UNCHANGED peerVars BY <1>2 DEF peerVars, NegotiationTypeOK
<1>3. ASSUME NEW e \in Ends, CreateOffer(e) PROVE NegotiationTypeOK'
  BY <1>1, <1>3, CreateOfferDoes, TypesKept
<1>4. ASSUME NEW e \in Ends, SetOffer(e) PROVE NegotiationTypeOK'
  BY <1>1, <1>4, SetOfferDoes, TypesKept
<1>5. ASSUME NEW e \in Ends, Rollback(e) PROVE NegotiationTypeOK'
  BY <1>1, <1>5, RollbackDoes, TypesKept
<1>6. ASSUME NEW e \in Ends, SetRemoteOffer(e) PROVE NegotiationTypeOK'
  BY <1>1, <1>6, SetRemoteOfferDoes, TypesKept
<1>7. ASSUME NEW e \in Ends, CreateAnswer(e) PROVE NegotiationTypeOK'
  BY <1>1, <1>7, CreateAnswerDoes, TypesKept
<1>8. ASSUME NEW e \in Ends, SetAnswer(e) PROVE NegotiationTypeOK'
  BY <1>1, <1>8, SetAnswerDoes, TypesKept
<1>9. ASSUME NEW e \in Ends, SetRemoteAnswer(e) PROVE NegotiationTypeOK'
  BY <1>1, <1>9, SetRemoteAnswerDoes, TypesKept
<1>10. ASSUME NEW e \in Ends, OnUserConnected(e) PROVE NegotiationTypeOK'
  BY <1>1, <1>10, OnUserConnectedDoes, TypesKept
<1>11. ASSUME NEW e \in Ends, NEW way \in Ways, onRemoteOffer(e, way)
       PROVE NegotiationTypeOK'
  BY <1>1, <1>11, OnRemoteOfferDoes, TypesKept
<1>12. ASSUME NEW e \in Ends, NEW way \in Ways, onRemoteAnswer(e, way)
       PROVE NegotiationTypeOK'
  BY <1>1, <1>12, OnRemoteAnswerDoes, TypesKept
<1>13. ASSUME NEW e \in Ends, NEW way \in Ways, onRemoteIceCandidate(e, way)
       PROVE NegotiationTypeOK'
  BY <1>1, <1>13, OnRemoteIceCandidateDoes, TypesKept
<1>14. ASSUME NEW e \in Ends, OnNegotiationNeeded(e) PROVE NegotiationTypeOK'
  BY <1>1, <1>14, OnNegotiationNeededDoes, TypesKept
<1>15. ASSUME NEW e \in Ends, OnIceCandidate(e) PROVE NegotiationTypeOK'
  BY <1>1, <1>15, OnIceCandidateDoes, TypesKept
<1>16. ASSUME NEW e \in Ends, OnIceConnected(e) PROVE NegotiationTypeOK'
  BY <1>1, <1>16, OnIceConnectedDoes, TypesKept
<1>17. ASSUME NEW e \in Ends, OnDataChannelOpen(e) PROVE NegotiationTypeOK'
  BY <1>1, <1>17, OnDataChannelOpenDoes, TypesKept
<1>18. ASSUME NEW e \in Ends, Share(e) PROVE NegotiationTypeOK'
  BY <1>1, <1>18, ShareDoes, TypesKept
<1>19. ASSUME NEW e \in Ends, OnIceDisconnected(e) PROVE NegotiationTypeOK'
  <2>1. Turns(e) /\ UNCHANGED net /\ hiccups < MaxHiccups /\ hiccups' = hiccups + 1
    BY <1>19, OnIceDisconnectedDoes
  <2>2. hiccups' \in 0 .. MaxHiccups BY <1>1, <2>1, BoundsAssumption
  <2>3. QED BY <1>1, <2>1, <2>2, TypesKept
<1>20. QED
  BY <1>2, <1>3, <1>4, <1>5, <1>6, <1>7, <1>8, <1>9, <1>10, <1>11, <1>12, <1>13, <1>14,
     <1>15, <1>16, <1>17, <1>18, <1>19 DEF Next, ChainStep, MessageStep, EventStep

(* Each end, its chain of operations and both ways of the link keep their  *)
(* types, whoever acts (peer-controller.ts, the members of OtherPeer).     *)
THEOREM NegotiationTypeCorrect == Spec => []NegotiationTypeOK
<1>1. Init => NegotiationTypeOK BY TypesAtFirst
<1>2. NegotiationTypeOK /\ [Next]_peerVars => NegotiationTypeOK' BY TypesStep
<1>3. QED BY <1>1, <1>2, PTL DEF Spec

-----------------------------------------------------------------------------
(* What there is in a chain of operations and in a mail box.  Something    *)
(* moves when a step takes an operation or a message named "out" away and  *)
(* puts one named "in" there; Nothing names neither.                       *)

Offering == {"createOffer", "setOffer"}
Answering == {"rollback", "setRemoteOffer", "createAnswer", "setAnswer"}
Applying == {"setRemoteAnswer"}
Rolling == {"rollback"}
Replying == {"createAnswer", "setAnswer"}
Kinds == {Offering, Answering, Applying, Rolling, Replying}
Types == {"offer", "answer", "connected", "candidate"}
Nothing == "nothing"

InOps(q, S) == \E i \in DOMAIN q : q[i].op \in S
OnceIn(q, S) == \A i, j \in DOMAIN q : q[i].op \in S /\ q[j].op \in S => i = j
Moves(q, r, out, in, S) ==
  /\ InOps(r, S) => in \in S \/ InOps(q, S)
  /\ in \in S => InOps(r, S)
  /\ InOps(q, S) => InOps(r, S) \/ out \in S
  /\ out \in S => InOps(q, S)
  /\ OnceIn(q, S) /\ out \in S /\ in \notin S => ~InOps(r, S)
  /\ OnceIn(q, S) /\ (in \in S => out \in S \/ ~InOps(q, S)) => OnceIn(r, S)

Mail(n, t) == \E w \in Ways : \E i \in DOMAIN n[w] : n[w][i].type = t
OnceMail(n, t) ==
  \A v, w \in Ways : \A i \in DOMAIN n[v] : \A j \in DOMAIN n[w] :
    n[v][i].type = t /\ n[w][j].type = t => v = w /\ i = j
MailMoves(n, r, out, in, t) ==
  /\ Mail(r, t) => in = t \/ Mail(n, t)
  /\ in = t => Mail(r, t)
  /\ Mail(n, t) => Mail(r, t) \/ out = t
  /\ out = t => Mail(n, t)
  /\ OnceMail(n, t) /\ out = t /\ in # t => ~Mail(r, t)
  /\ OnceMail(n, t) /\ (in = t => ~Mail(n, t)) => OnceMail(r, t)

LEMMA Tails ==
  ASSUME NEW T, NEW q \in Seq(T), q # <<>>
  PROVE  /\ Tail(q) \in Seq(T) /\ 1 \in DOMAIN q /\ q[1] = Head(q)
         /\ \A i \in DOMAIN Tail(q) : i + 1 \in DOMAIN q /\ Tail(q)[i] = q[i + 1]
         /\ \A i \in DOMAIN q : i = 1 \/ (i - 1 \in DOMAIN Tail(q) /\ Tail(q)[i - 1] = q[i])
         /\ DOMAIN q \subseteq Nat \ {0} /\ DOMAIN Tail(q) \subseteq Nat \ {0}
BY HeadTailProperties

LEMMA Appends ==
  ASSUME NEW T, NEW q \in Seq(T), NEW x \in T
  PROVE  /\ Append(q, x) \in Seq(T)
         /\ Len(q) + 1 \in DOMAIN Append(q, x) /\ Append(q, x)[Len(q) + 1] = x
         /\ \A i \in DOMAIN q : /\ i \in DOMAIN Append(q, x) /\ Append(q, x)[i] = q[i]
                                /\ i < Len(q) + 1
         /\ \A i \in DOMAIN Append(q, x) : i \in DOMAIN q \/ i = Len(q) + 1
         /\ Len(q) + 1 \notin DOMAIN q
BY AppendProperties

LEMMA OpsTaken ==
  ASSUME NEW q \in Seq(Operation), q # <<>>, NEW S, Nothing \notin S
  PROVE  Moves(q, Tail(q), Head(q).op, Nothing, S)
<1> DEFINE r == Tail(q)
<1>1. /\ 1 \in DOMAIN q /\ q[1] = Head(q)
      /\ \A i \in DOMAIN r : i + 1 \in DOMAIN q /\ r[i] = q[i + 1]
      /\ \A i \in DOMAIN q : i = 1 \/ (i - 1 \in DOMAIN r /\ r[i - 1] = q[i])
      /\ DOMAIN q \subseteq Nat \ {0} /\ DOMAIN r \subseteq Nat \ {0}
  BY Tails
<1> HIDE DEF r
<1>2. InOps(r, S) => InOps(q, S) BY <1>1 DEF InOps
<1>3. InOps(q, S) => InOps(r, S) \/ Head(q).op \in S BY <1>1 DEF InOps
<1>4. Head(q).op \in S => InOps(q, S) BY <1>1 DEF InOps
<1>5. OnceIn(q, S) /\ Head(q).op \in S => ~InOps(r, S) BY <1>1 DEF InOps, OnceIn
<1>6. OnceIn(q, S) => OnceIn(r, S) BY <1>1 DEF OnceIn
<1>7. QED BY <1>2, <1>3, <1>4, <1>5, <1>6 DEF Moves, r

LEMMA OpsChained ==
  ASSUME NEW q \in Seq(Operation), NEW op \in Operation, NEW S, Nothing \notin S
  PROVE  Moves(q, Append(q, op), Nothing, op.op, S)
<1> DEFINE r == Append(q, op)
           n == Len(q) + 1
<1>1. /\ n \in DOMAIN r /\ r[n] = op /\ n \notin DOMAIN q
      /\ \A i \in DOMAIN q : i \in DOMAIN r /\ r[i] = q[i] /\ i < n
      /\ \A i \in DOMAIN r : i \in DOMAIN q \/ i = n
  BY Appends
<1> HIDE DEF r, n
<1>2. InOps(r, S) => InOps(q, S) \/ op.op \in S BY <1>1 DEF InOps
<1>3. InOps(q, S) => InOps(r, S) BY <1>1 DEF InOps
<1>4. op.op \in S => InOps(r, S) BY <1>1 DEF InOps
<1>6. OnceIn(q, S) /\ (op.op \in S => ~InOps(q, S)) => OnceIn(r, S)
  BY <1>1 DEF OnceIn, InOps
<1>7. QED BY <1>2, <1>3, <1>4, <1>6 DEF Moves, r

LEMMA OpsReplaced ==
  ASSUME NEW q \in Seq(Operation), q # <<>>, NEW op \in Operation, NEW S, Nothing \notin S
  PROVE  Moves(q, Append(Tail(q), op), Head(q).op, op.op, S)
<1>1. PICK r : r = Tail(q) OBVIOUS
<1>2. r \in Seq(Operation) BY <1>1
<1>3. Moves(q, r, Head(q).op, Nothing, S) BY <1>1, OpsTaken
<1>4. Moves(r, Append(r, op), Nothing, op.op, S) BY <1>2, OpsChained
<1>5. QED BY <1>1, <1>3, <1>4 DEF Moves

LEMMA MailTaken ==
  ASSUME NegotiationTypeOK, NEW e \in Ends, NEW way \in Ways, Takes(e, way), NEW t,
         t # Nothing
  PROVE  MailMoves(net[e], net'[e], Head(net[e][way]).type, Nothing, t)
<1> DEFINE n == net[e]
           r == net'[e]
<1>1. n[way] \in Seq(Message) /\ n[way] # <<>> BY DEF NegotiationTypeOK, Takes
<1>2. r[way] = Tail(n[way]) /\ \A w \in Ways : w # way => r[w] = n[w] BY DEF Takes
<1>3. /\ 1 \in DOMAIN n[way] /\ n[way][1] = Head(n[way])
      /\ \A i \in DOMAIN r[way] : i + 1 \in DOMAIN n[way] /\ r[way][i] = n[way][i + 1]
      /\ \A i \in DOMAIN n[way] :
           i = 1 \/ (i - 1 \in DOMAIN r[way] /\ r[way][i - 1] = n[way][i])
      /\ DOMAIN n[way] \subseteq Nat \ {0} /\ DOMAIN r[way] \subseteq Nat \ {0}
  BY <1>1, <1>2, Tails
<1> HIDE DEF n, r
<1>4. Mail(r, t) => Mail(n, t)
  <2> SUFFICES ASSUME NEW w \in Ways, NEW i \in DOMAIN r[w], r[w][i].type = t
               PROVE  \E j \in DOMAIN n[w] : n[w][j].type = t
    BY DEF Mail
  <2>1. CASE w = way BY <1>3, <2>1
  <2>2. CASE w # way BY <1>2, <2>2
  <2>3. QED BY <2>1, <2>2
<1>5. Mail(n, t) => Mail(r, t) \/ Head(n[way]).type = t
  <2> SUFFICES ASSUME NEW w \in Ways, NEW i \in DOMAIN n[w], n[w][i].type = t,
                      Head(n[way]).type # t
               PROVE  \E j \in DOMAIN r[w] : r[w][j].type = t
    BY DEF Mail
  <2>1. CASE w = way BY <1>3, <2>1
  <2>2. CASE w # way BY <1>2, <2>2
  <2>3. QED BY <2>1, <2>2
<1>6. Head(n[way]).type = t => Mail(n, t) BY <1>3 DEF Mail
<1>7. OnceMail(n, t) /\ Head(n[way]).type = t => ~Mail(r, t)
  <2> SUFFICES ASSUME OnceMail(n, t), Head(n[way]).type = t,
                      NEW w \in Ways, NEW i \in DOMAIN r[w], r[w][i].type = t
               PROVE  FALSE
    BY DEF Mail
  <2>1. \A v \in Ways : \A j \in DOMAIN n[v] : n[v][j].type = t => v = way /\ j = 1
    BY <1>3 DEF OnceMail
  <2>2. w = way BY <1>2, <2>1
  <2>3. QED BY <1>3, <2>1, <2>2
<1>8. OnceMail(n, t) => OnceMail(r, t)
  <2> SUFFICES ASSUME OnceMail(n, t), NEW v \in Ways, NEW w \in Ways,
                      NEW i \in DOMAIN r[v], NEW j \in DOMAIN r[w],
                      r[v][i].type = t, r[w][j].type = t
               PROVE  v = w /\ i = j
    BY DEF OnceMail
  <2>1. \E a \in DOMAIN n[v] : /\ n[v][a].type = t /\ a = (IF v = way THEN i + 1 ELSE i)
    <3>1. CASE v = way BY <1>3, <3>1
    <3>2. CASE v # way BY <1>2, <3>2
    <3>3. QED BY <3>1, <3>2
  <2>2. \E a \in DOMAIN n[w] : /\ n[w][a].type = t /\ a = (IF w = way THEN j + 1 ELSE j)
    <3>1. CASE w = way BY <1>3, <3>1
    <3>2. CASE w # way BY <1>2, <3>2
    <3>3. QED BY <3>1, <3>2
  <2>3. v = w BY <2>1, <2>2 DEF OnceMail
  <2>4. CASE v = way
    <3>1. i \in Nat /\ j \in Nat BY <1>3, <2>3, <2>4
    <3>2. i + 1 = j + 1 BY <2>1, <2>2, <2>3, <2>4 DEF OnceMail
    <3>3. QED BY <2>3, <3>1, <3>2
  <2>5. CASE v # way BY <2>1, <2>2, <2>3, <2>5 DEF OnceMail
  <2>6. QED BY <2>4, <2>5
<1>9. QED BY <1>4, <1>5, <1>6, <1>7, <1>8 DEF MailMoves, n, r

LEMMA MailSent ==
  ASSUME NegotiationTypeOK, NEW e \in Ends, NEW way \in Ways, NEW m \in Message,
         Mails(e, way, m), NEW t, t # Nothing
  PROVE  MailMoves(net[Other(e)], net'[Other(e)], Nothing, m.type, t)
<1> DEFINE n == net[Other(e)]
           r == net'[Other(e)]
           k == Len(n[way]) + 1
<1>1. n[way] \in Seq(Message) BY EndsAre DEF NegotiationTypeOK
<1>2. r[way] = Append(n[way], m) /\ \A w \in Ways : w # way => r[w] = n[w] BY DEF Mails
<1>3. /\ k \in DOMAIN r[way] /\ r[way][k] = m /\ k \notin DOMAIN n[way]
      /\ \A i \in DOMAIN n[way] : i \in DOMAIN r[way] /\ r[way][i] = n[way][i]
      /\ \A i \in DOMAIN r[way] : i \in DOMAIN n[way] \/ i = k
  BY <1>1, <1>2, Appends
<1> HIDE DEF n, r, k
<1>4. Mail(r, t) => m.type = t \/ Mail(n, t) BY <1>2, <1>3 DEF Mail
<1>5. Mail(n, t) => Mail(r, t) BY <1>2, <1>3 DEF Mail
<1>6. m.type = t => Mail(r, t) BY <1>3 DEF Mail
<1>7. OnceMail(n, t) /\ (m.type = t => ~Mail(n, t)) => OnceMail(r, t)
  <2> SUFFICES ASSUME OnceMail(n, t), m.type = t => ~Mail(n, t), NEW v \in Ways, NEW w \in Ways,
                      NEW i \in DOMAIN r[v], NEW j \in DOMAIN r[w],
                      r[v][i].type = t, r[w][j].type = t
               PROVE  v = w /\ i = j
    BY DEF OnceMail
  <2>1. (i \in DOMAIN n[v] /\ n[v][i].type = t) \/ (v = way /\ i = k /\ m.type = t)
    BY <1>2, <1>3
  <2>2. (j \in DOMAIN n[w] /\ n[w][j].type = t) \/ (w = way /\ j = k /\ m.type = t)
    BY <1>2, <1>3
  <2>3. QED BY <2>1, <2>2 DEF OnceMail, Mail
<1>8. QED BY <1>4, <1>5, <1>6, <1>7 DEF MailMoves, n, r

\* S comes before T.
Before(q, S, T) == \A i, j \in DOMAIN q : q[i].op \in S /\ q[j].op \in T => i < j
Orders(q, r, out, in, S, T) ==
  /\ Before(q, S, T) /\ (in \in S => in \notin T /\ ~InOps(q, T)) => Before(r, S, T)
  /\ Before(q, S, T) /\ out \in T => ~InOps(q, S)
Late == {"createOffer", "setOffer", "setRemoteAnswer"}

LEMMA OrderTaken ==
  ASSUME NEW q \in Seq(Operation), q # <<>>, NEW S, Nothing \notin S, NEW T
  PROVE  Orders(q, Tail(q), Head(q).op, Nothing, S, T)
<1> DEFINE r == Tail(q)
<1>1. /\ 1 \in DOMAIN q /\ q[1] = Head(q)
      /\ \A i \in DOMAIN r : i + 1 \in DOMAIN q /\ r[i] = q[i + 1]
      /\ DOMAIN q \subseteq Nat \ {0} /\ DOMAIN r \subseteq Nat \ {0}
  BY Tails
<1> HIDE DEF r
<1>2. Before(q, S, T) => Before(r, S, T)
  <2> SUFFICES ASSUME Before(q, S, T), NEW i \in DOMAIN r, NEW j \in DOMAIN r,
                      r[i].op \in S, r[j].op \in T
               PROVE  i < j
    BY DEF Before
  <2>1. i \in Nat /\ j \in Nat /\ i + 1 \in DOMAIN q /\ j + 1 \in DOMAIN q BY <1>1
  <2>2. q[i + 1].op \in S /\ q[j + 1].op \in T BY <1>1
  <2>3. i + 1 < j + 1 BY <2>1, <2>2 DEF Before
  <2>4. QED BY <2>1, <2>3
<1>3. Before(q, S, T) /\ Head(q).op \in T => ~InOps(q, S)
  <2> SUFFICES ASSUME Before(q, S, T), Head(q).op \in T, NEW i \in DOMAIN q, q[i].op \in S
               PROVE  FALSE
    BY DEF InOps
  <2>1. i < 1 BY <1>1 DEF Before
  <2>2. QED BY <1>1, <2>1
<1>4. QED BY <1>2, <1>3 DEF Orders, r

LEMMA OrderChained ==
  ASSUME NEW q \in Seq(Operation), NEW op \in Operation, NEW S, NEW T, Nothing \notin T
  PROVE  Orders(q, Append(q, op), Nothing, op.op, S, T)
<1> DEFINE r == Append(q, op)
           n == Len(q) + 1
<1>1. /\ n \in DOMAIN r /\ r[n] = op /\ n \notin DOMAIN q
      /\ \A i \in DOMAIN q : i \in DOMAIN r /\ r[i] = q[i] /\ i < n
      /\ \A i \in DOMAIN r : i \in DOMAIN q \/ i = n
  BY Appends
<1> HIDE DEF r, n
<1>2. ASSUME Before(q, S, T), op.op \in S => op.op \notin T /\ ~InOps(q, T),
             NEW i \in DOMAIN r, NEW j \in DOMAIN r, r[i].op \in S, r[j].op \in T
      PROVE  i < j
  BY <1>1, <1>2 DEF Before, InOps
<1>3. QED BY <1>2 DEF Orders, Before, r

LEMMA OrderReplaced ==
  ASSUME NEW q \in Seq(Operation), q # <<>>, NEW op \in Operation, NEW S, Nothing \notin S,
         NEW T, Nothing \notin T
  PROVE  Orders(q, Append(Tail(q), op), Head(q).op, op.op, S, T)
<1>1. PICK r : r = Tail(q) OBVIOUS
<1>2. r \in Seq(Operation) BY <1>1
<1>3. Orders(q, r, Head(q).op, Nothing, S, T) BY <1>1, OrderTaken
<1>4. Orders(r, Append(r, op), Nothing, op.op, S, T) BY <1>2, OrderChained
<1>5. InOps(r, T) => InOps(q, T)
  <2>1. Moves(q, r, Head(q).op, Nothing, T) BY <1>1, OpsTaken
  <2>2. QED BY <2>1 DEF Moves
<1>6. QED BY <1>1, <1>3, <1>4, <1>5 DEF Orders

\* The operations of S, the messages of a type, are about offer id.
Bears(q, S, id) == \A i \in DOMAIN q : q[i].op \in S => q[i].desc.id = id
MailBears(n, t, id) ==
  \A w \in Ways : \A i \in DOMAIN n[w] : n[w][i].type = t => n[w][i].id = id

LEMMA BearsTaken ==
  ASSUME NEW q \in Seq(Operation), q # <<>>, NEW S, NEW id, Bears(q, S, id)
  PROVE  Bears(Tail(q), S, id) /\ (Head(q).op \in S => Head(q).desc.id = id)
BY Tails DEF Bears

LEMMA BearsChained ==
  ASSUME NEW q \in Seq(Operation), NEW op \in Operation, NEW S, NEW id, Bears(q, S, id),
         op.op \in S => op.desc.id = id
  PROVE  Bears(Append(q, op), S, id)
BY Appends DEF Bears

LEMMA BearsNone ==
  ASSUME NEW q, NEW S, NEW id, ~InOps(q, S)
  PROVE  Bears(q, S, id)
BY DEF Bears, InOps

LEMMA MailBearsNone ==
  ASSUME NEW n, NEW t, NEW id, ~Mail(n, t)
  PROVE  MailBears(n, t, id)
BY DEF MailBears, Mail

LEMMA MailBearsTaken ==
  ASSUME NegotiationTypeOK, NEW e \in Ends, NEW way \in Ways, Takes(e, way), NEW t, NEW id,
         MailBears(net[e], t, id)
  PROVE  /\ MailBears(net'[e], t, id)
         /\ Head(net[e][way]).type = t => Head(net[e][way]).id = id
<1> DEFINE n == net[e]
           r == net'[e]
<1>1. n[way] \in Seq(Message) /\ n[way] # <<>> BY DEF NegotiationTypeOK, Takes
<1>2. r[way] = Tail(n[way]) /\ \A w \in Ways : w # way => r[w] = n[w] BY DEF Takes
<1>3. /\ 1 \in DOMAIN n[way] /\ n[way][1] = Head(n[way])
      /\ \A i \in DOMAIN r[way] : i + 1 \in DOMAIN n[way] /\ r[way][i] = n[way][i + 1]
  BY <1>1, <1>2, Tails
<1>4. MailBears(n, t, id) OBVIOUS
<1> HIDE DEF n, r
<1>5. ASSUME NEW w \in Ways, NEW i \in DOMAIN r[w], r[w][i].type = t PROVE r[w][i].id = id
  <2>1. CASE w = way BY <1>3, <1>4, <1>5, <2>1 DEF MailBears
  <2>2. CASE w # way BY <1>2, <1>4, <1>5, <2>2 DEF MailBears
  <2>3. QED BY <2>1, <2>2
<1>6. Head(n[way]).type = t => Head(n[way]).id = id BY <1>3, <1>4 DEF MailBears
<1>7. QED BY <1>5, <1>6 DEF MailBears, n, r

LEMMA HeadBears ==
  ASSUME NegotiationTypeOK, NEW e \in Ends, NEW way \in Ways, Takes(e, way), NEW t,
         Head(net[e][way]).type = t
  PROVE  \A id : MailBears(net[e], t, id) => Head(net[e][way]).id = id
<1>1. ASSUME NEW id, MailBears(net[e], t, id) PROVE Head(net[e][way]).id = id
  BY <1>1, MailBearsTaken
<1>2. QED BY <1>1

LEMMA MailBearsSent ==
  ASSUME NegotiationTypeOK, NEW e \in Ends, NEW way \in Ways, NEW m \in Message,
         Mails(e, way, m), NEW t, NEW id, MailBears(net[Other(e)], t, id),
         m.type = t => m.id = id
  PROVE  MailBears(net'[Other(e)], t, id)
<1> DEFINE n == net[Other(e)]
           r == net'[Other(e)]
           k == Len(n[way]) + 1
<1>1. n[way] \in Seq(Message) BY EndsAre DEF NegotiationTypeOK
<1>2. r[way] = Append(n[way], m) /\ \A w \in Ways : w # way => r[w] = n[w] BY DEF Mails
<1>3. /\ r[way][k] = m
      /\ \A i \in DOMAIN n[way] : i \in DOMAIN r[way] /\ r[way][i] = n[way][i]
      /\ \A i \in DOMAIN r[way] : i \in DOMAIN n[way] \/ i = k
  BY <1>1, <1>2, Appends
<1>4. MailBears(n, t, id) OBVIOUS
<1> HIDE DEF n, r, k
<1>5. ASSUME NEW w \in Ways, NEW i \in DOMAIN r[w], r[w][i].type = t PROVE r[w][i].id = id
  <2>1. CASE w = way BY <1>3, <1>4, <1>5, <2>1 DEF MailBears
  <2>2. CASE w # way BY <1>2, <1>4, <1>5, <2>2 DEF MailBears
  <2>3. QED BY <2>1, <2>2
<1>7. QED BY <1>5 DEF MailBears, n, r

-----------------------------------------------------------------------------
(* What a step of e moves: in its chain, in its mail box, in the other's   *)

Creating == {"createAnswer"}
Bearing == {"rollback", "setRemoteOffer", "setAnswer"}
ChainMoves(e, out, in) ==
  /\ \A S \in Kinds : Moves(peer[e].ops, peer'[e].ops, out, in, S)
  /\ Moves(peer[e].ops, peer'[e].ops, out, in, Creating)
  /\ Orders(peer[e].ops, peer'[e].ops, out, in, Rolling, Late)
  /\ Orders(peer[e].ops, peer'[e].ops, out, in, Applying, Offering)
BoxMoves(e, out, in) == \A t \in Types : MailMoves(net[e], net'[e], out, in, t)
Acts(e, out, in, took, sent) ==
  /\ peer'[Other(e)] = peer[Other(e)] /\ ChainMoves(e, out, in)
  /\ BoxMoves(e, took, Nothing) /\ BoxMoves(Other(e), Nothing, sent)

LEMMA KindsAre ==
  /\ \A S \in Kinds : Nothing \notin S
  /\ Nothing \notin Rolling /\ Nothing \notin Applying /\ Nothing \notin Late
  /\ Nothing \notin Offering /\ Nothing \notin Creating /\ \A t \in Types : t # Nothing
BY DEF Kinds, Rolling, Applying, Late, Offering, Answering, Replying, Creating, Types, Nothing

LEMMA NothingMoves ==
  /\ \A q, S : Nothing \notin S => Moves(q, q, Nothing, Nothing, S)
  /\ \A n, t : t # Nothing => MailMoves(n, n, Nothing, Nothing, t)
  /\ \A q, S, T : Nothing \notin S /\ Nothing \notin T => Orders(q, q, Nothing, Nothing, S, T)
<1>1. \A q, S : Nothing \notin S => Moves(q, q, Nothing, Nothing, S) BY DEF Moves
<1>2. \A n, t : t # Nothing => MailMoves(n, n, Nothing, Nothing, t) BY DEF MailMoves
<1>3. \A q, S, T : Nothing \notin S /\ Nothing \notin T
                     => Orders(q, q, Nothing, Nothing, S, T)
  BY DEF Orders
<1>4. QED BY <1>1, <1>2, <1>3

LEMMA ChainStays ==
  ASSUME NEW e \in Ends, peer'[e].ops = peer[e].ops
  PROVE  ChainMoves(e, Nothing, Nothing)
<1>1. PICK q : q = peer[e].ops OBVIOUS
<1>2. peer'[e].ops = q BY <1>1
<1>3. QED BY <1>1, <1>2, KindsAre, NothingMoves DEF ChainMoves

LEMMA ChainTaken ==
  ASSUME NegotiationTypeOK, NEW e \in Ends, NEW name, Runs(e, name), peer'[e].ops = Rest(e)
  PROVE  ChainMoves(e, name, Nothing)
<1>1. PICK q : q = peer[e].ops OBVIOUS
<1>2. q \in Seq(Operation) /\ q # <<>> /\ Head(q).op = name
  BY <1>1 DEF NegotiationTypeOK, Peer, Runs
<1>3. peer'[e].ops = Tail(q) BY <1>1 DEF Rest
<1>4. \A S : Nothing \notin S => Moves(q, Tail(q), name, Nothing, S) BY <1>2, OpsTaken
<1>5. \A S, T : Nothing \notin S => Orders(q, Tail(q), name, Nothing, S, T)
  BY <1>2, OrderTaken
<1>6. QED BY <1>1, <1>3, <1>4, <1>5, KindsAre DEF ChainMoves

LEMMA ChainReplaced ==
  ASSUME NegotiationTypeOK, NEW e \in Ends, NEW name, Runs(e, name), NEW op \in Operation,
         peer'[e].ops = Append(Rest(e), op)
  PROVE  ChainMoves(e, name, op.op)
<1>1. PICK q : q = peer[e].ops OBVIOUS
<1>2. q \in Seq(Operation) /\ q # <<>> /\ Head(q).op = name
  BY <1>1 DEF NegotiationTypeOK, Peer, Runs
<1>3. peer'[e].ops = Append(Tail(q), op) BY <1>1 DEF Rest
<1>4. \A S : Nothing \notin S => Moves(q, Append(Tail(q), op), name, op.op, S)
  BY <1>2, OpsReplaced
<1>5. \A S, T : Nothing \notin S /\ Nothing \notin T
                  => Orders(q, Append(Tail(q), op), name, op.op, S, T)
  BY <1>2, OrderReplaced
<1>6. QED BY <1>1, <1>3, <1>4, <1>5, KindsAre DEF ChainMoves

LEMMA ChainAdded ==
  ASSUME NegotiationTypeOK, NEW e \in Ends, NEW op \in Operation,
         peer'[e].ops = Append(peer[e].ops, op)
  PROVE  ChainMoves(e, Nothing, op.op)
<1>1. PICK q : q = peer[e].ops OBVIOUS
<1>2. q \in Seq(Operation) BY <1>1 DEF NegotiationTypeOK, Peer
<1>3. peer'[e].ops = Append(q, op) BY <1>1
<1>4. \A S : Nothing \notin S => Moves(q, Append(q, op), Nothing, op.op, S)
  BY <1>2, OpsChained
<1>5. \A S, T : Nothing \notin S /\ Nothing \notin T
                  => Orders(q, Append(q, op), Nothing, op.op, S, T)
  BY <1>2, OrderChained
<1>6. QED BY <1>1, <1>3, <1>4, <1>5, KindsAre DEF ChainMoves

LEMMA BoxesStay ==
  ASSUME NEW e \in Ends, net' = net
  PROVE  BoxMoves(e, Nothing, Nothing) /\ BoxMoves(Other(e), Nothing, Nothing)
BY KindsAre, NothingMoves DEF BoxMoves

LEMMA BoxTaken ==
  ASSUME NegotiationTypeOK, NEW e \in Ends, NEW way \in Ways, Takes(e, way)
  PROVE  /\ BoxMoves(e, Head(net[e][way]).type, Nothing)
         /\ BoxMoves(Other(e), Nothing, Nothing)
<1>1. BoxMoves(e, Head(net[e][way]).type, Nothing) BY MailTaken, KindsAre DEF BoxMoves
<1>2. net'[Other(e)] = net[Other(e)] BY DEF Takes
<1>3. QED BY <1>1, <1>2, KindsAre, NothingMoves DEF BoxMoves

LEMMA BoxSent ==
  ASSUME NegotiationTypeOK, NEW e \in Ends, NEW way \in Ways, NEW m \in Message,
         Mails(e, way, m)
  PROVE  BoxMoves(e, Nothing, Nothing) /\ BoxMoves(Other(e), Nothing, m.type)
<1>1. BoxMoves(Other(e), Nothing, m.type) BY MailSent, KindsAre DEF BoxMoves
<1>2. net'[e] = net[e] BY DEF Mails
<1>3. QED BY <1>1, <1>2, KindsAre, NothingMoves DEF BoxMoves

\* The fields that say where the negotiation stands, for those not in but.
LEMMA SameIs ==
  ASSUME NEW e \in Ends, NEW but, Same(e, but)
  PROVE  /\ "role" \notin but => peer'[e].role = peer[e].role
         /\ "making" \notin but => peer'[e].making = peer[e].making
         /\ "aborted" \notin but => peer'[e].aborted = peer[e].aborted
         /\ "channel" \notin but => peer'[e].channel = peer[e].channel
         /\ "signaling" \notin but => peer'[e].signaling = peer[e].signaling
         /\ "ops" \notin but => peer'[e].ops = peer[e].ops
         /\ "pending" \notin but => peer'[e].pending = peer[e].pending
         /\ "ice" \notin but => peer'[e].ice = peer[e].ice
BY DEF Same, Like, Fields, Beside

-----------------------------------------------------------------------------
(* Where the negotiation of an offer of e can be: its making waits in e's  *)
(* chain, it is on its way, the other end is answering it, the answer is   *)
(* on its way, the answer waits in e's chain.                              *)

Prepared(e) == InOps(peer[e].ops, Offering)
Offered(e) == Mail(net[Other(e)], "offer")
Considered(e) == InOps(peer[Other(e)].ops, Answering)
Answered(e) == Mail(net[e], "answer")
Applied(e) == InOps(peer[e].ops, Applying)
Out(e) == Offered(e) \/ Considered(e) \/ Answered(e)

\* It is in one place at a time, and there is one.
OneOut(e) ==
  /\ OnceIn(peer[e].ops, Offering) /\ OnceMail(net[Other(e)], "offer")
  /\ OnceIn(peer[Other(e)].ops, Answering) /\ OnceMail(net[e], "answer")
  /\ OnceIn(peer[e].ops, Applying)
  /\ Prepared(e) => ~Offered(e) /\ ~Considered(e) /\ ~Answered(e) /\ ~Applied(e)
  /\ Offered(e) => ~Considered(e) /\ ~Answered(e) /\ ~Applied(e)
  /\ Considered(e) => ~Answered(e) /\ ~Applied(e)
  /\ Answered(e) => ~Applied(e)

\* What a step moves is moved along,
Legal(out, in, took, sent) ==
  /\ in \in Answering => out \in Answering \/ (out = Nothing /\ took = "offer")
  /\ in \in Applying => out = Nothing /\ took = "answer"
  /\ in \in Offering => out \in Offering \/ out = Nothing
  /\ sent = "offer" => out \in Offering /\ in = Nothing
  /\ sent = "answer" => out \in Answering /\ in = Nothing
  /\ sent # Nothing => took = Nothing
  /\ took # Nothing => out = Nothing
\* or is a new offer when there is none.
Fresh(e, out, in) ==
  in \in Offering => out \in Offering \/ (~Prepared(e) /\ ~Out(e) /\ ~Applied(e))

LEMMA OwnOneKept ==
  ASSUME NEW e \in Ends, NEW out, NEW in, NEW took, NEW sent,
         Acts(e, out, in, took, sent), Legal(out, in, took, sent), Fresh(e, out, in),
         OneOut(e)
  PROVE  OneOut(e)'
<1>1. /\ Moves(peer[e].ops, peer'[e].ops, out, in, Offering)
      /\ Moves(peer[e].ops, peer'[e].ops, out, in, Applying)
      /\ MailMoves(net[Other(e)], net'[Other(e)], Nothing, sent, "offer")
      /\ MailMoves(net[e], net'[e], took, Nothing, "answer")
      /\ peer'[Other(e)].ops = peer[Other(e)].ops
  BY DEF Acts, ChainMoves, BoxMoves, Kinds, Types
<1>2. QED
  BY <1>1 DEF Legal, Fresh, OneOut, Moves, MailMoves, Prepared, Offered, Considered,
              Answered, Applied, Out, Offering, Applying, Answering, Nothing

LEMMA OthersOneKept ==
  ASSUME NEW e \in Ends, NEW out, NEW in, NEW took, NEW sent,
         Acts(e, out, in, took, sent), Legal(out, in, took, sent), OneOut(Other(e))
  PROVE  OneOut(Other(e))'
<1> DEFINE o == Other(e)
<1>0. Other(o) = e BY EndsAre
<1>1. /\ Moves(peer[e].ops, peer'[e].ops, out, in, Answering)
      /\ MailMoves(net[o], net'[o], Nothing, sent, "answer")
      /\ MailMoves(net[e], net'[e], took, Nothing, "offer")
      /\ peer'[o].ops = peer[o].ops
  BY DEF Acts, ChainMoves, BoxMoves, Kinds, Types
<1>3. OneOut(o)'
  BY <1>0, <1>1 DEF Legal, OneOut, Moves, MailMoves, Prepared, Offered, Considered,
              Answered, Applied, Out, Offering, Applying, Answering, Nothing
<1>2. QED BY <1>3

-----------------------------------------------------------------------------
(* The invariant *)

\* The offers of the newcomer are always in one place; those of the host
\* until the connection is interrupted (a retry may then overtake an offer
\* that was rolled back and not answered yet).
Sure(e) == e = Newcomer \/ hiccups = 0
OneInv == \A e \in Ends : Sure(e) => OneOut(e)

Beginnings ==
  /\ peer[Newcomer].role = "impolite" /\ ~peer[Newcomer].aborted
  /\ peer[Host].role \in {"none", "polite"}
  /\ ~Mail(net[Newcomer], "connected")
  /\ Mail(net[Host], "connected") =>
       peer[Host].role = "none" /\ OnceMail(net[Host], "connected")
  /\ peer[Host].role = "none" =>
       peer[Host] = OtherPeer("none", FALSE) /\ \A e \in Ends : peer[e].ice = "new"

\* An end has applied an offer as long as its answer is being made.
RemoteOf(e) ==
  /\ peer[e].signaling = "remote" => InOps(peer[e].ops, Replying)
  /\ Sure(Other(e)) /\ InOps(peer[e].ops, Replying) => peer[e].signaling = "remote"
RemoteInv == \A e \in Ends : RemoteOf(e)

\* Wherever the negotiation of e's pending offer is, it is about that offer.
Fits(e) ==
  LET id == peer[e].pending.id
      o == Other(e)
  IN
  /\ MailBears(net[o], "offer", id)
  /\ Bears(peer[o].ops, Bearing, id)
  /\ InOps(peer[o].ops, Creating) => peer[o].pending.id = id
  /\ MailBears(net[e], "answer", id)
  /\ Bears(peer[e].ops, Applying, id)
FitsInv == \A e \in Ends : Sure(e) /\ peer[e].signaling = "local" => Fits(e)

\* The newcomer's offers are answered.
NewcomerInv ==
  LET p == peer[Newcomer] IN
  /\ p.making <=> Prepared(Newcomer) \/ Out(Newcomer)
  /\ p.signaling = "local" <=> Out(Newcomer) \/ Applied(Newcomer)
  /\ Prepared(Newcomer) => p.signaling = "stable"
  /\ Prepared(Newcomer) \/ Out(Newcomer) \/ Applied(Newcomer) => ~InOps(p.ops, Answering)

\* The host rolls back an offer that is there.
HostInv ==
  LET p == peer[Host] IN
  /\ p.channel # "open" =>
       ~p.making /\ ~p.aborted /\ p.signaling # "local" /\ ~InOps(p.ops, Offering)
  /\ OnceIn(p.ops, Offering)
  /\ p.aborted => ~p.making /\ ~InOps(p.ops, Offering)
  /\ p.signaling = "local" /\ ~InOps(p.ops, Rolling) =>
       /\ ~p.aborted /\ ~InOps(p.ops, Offering)
       /\ p.making => ~InOps(p.ops, Applying)
  /\ InOps(p.ops, Rolling) => p.signaling = "local"
  /\ Before(p.ops, Rolling, Late)
  /\ p.making => Before(p.ops, Applying, Offering)

\* Until the connection is interrupted the host retries nothing.
SteadyInv ==
  hiccups = 0 =>
    /\ \A e \in Ends : peer[e].ice # "disconnected"
    /\ peer[Host].channel = "open" => \A e \in Ends : peer[e].ice = "connected"
    /\ Prepared(Host) \/ Out(Host) => peer[Host].making \/ peer[Host].aborted
    /\ peer[Host].channel # "open" => ~Prepared(Host) /\ ~Out(Host) /\ ~Applied(Host)

\* What is sent is what its operation is named for.
Written(q) ==
  \A i \in DOMAIN q : /\ q[i].op = "setOffer" => q[i].desc.type = "offer"
                      /\ q[i].op = "setAnswer" => q[i].desc.type = "answer"
WrittenInv == \A e \in Ends : Written(peer[e].ops)

Negotiating ==
  /\ Beginnings /\ WrittenInv
  /\ OneInv /\ RemoteInv /\ FitsInv /\ NewcomerInv /\ HostInv /\ SteadyInv
LinkInv == NegotiationTypeOK /\ Negotiating

-----------------------------------------------------------------------------
(* What a step keeps of it for both ends *)

Ticks == hiccups \in Nat /\ (hiccups' = hiccups \/ hiccups' = hiccups + 1)

LEMMA SureKept == ASSUME Ticks, NEW e, Sure(e)' PROVE Sure(e)
BY DEF Ticks, Sure

LEMMA OneKept ==
  ASSUME OneInv, Ticks, NEW e \in Ends, NEW out, NEW in, NEW took, NEW sent,
         Acts(e, out, in, took, sent), Legal(out, in, took, sent),
         Sure(e) => Fresh(e, out, in)
  PROVE  OneInv'
<1>1. Sure(e)' => OneOut(e)' BY SureKept, OwnOneKept DEF OneInv
<1>2. Sure(Other(e))' => OneOut(Other(e))'
  <2>1. Other(e) \in Ends BY EndsAre
  <2>2. QED BY <2>1, SureKept, OthersOneKept DEF OneInv
<1>3. \A d \in Ends : d = e \/ d = Other(e) BY EndsAre
<1>4. \A d \in Ends : Sure(d)' => OneOut(d)' BY <1>1, <1>2, <1>3
<1>5. QED BY <1>4 DEF OneInv

LEMMA RemoteKept ==
  ASSUME RemoteInv, Ticks, NEW e \in Ends, peer'[Other(e)] = peer[Other(e)], RemoteOf(e)'
  PROVE  RemoteInv'
<1>1. Other(e) \in Ends /\ \A d \in Ends : d = e \/ d = Other(e) BY EndsAre
<1>2. RemoteOf(Other(e)) BY <1>1 DEF RemoteInv
<1>3. RemoteOf(Other(e))'
  <2>1. Sure(Other(Other(e)))' => Sure(Other(Other(e))) BY SureKept
  <2>2. QED BY <1>2, <2>1 DEF RemoteOf
<1>4. \A d \in Ends : RemoteOf(d)' BY <1>1, <1>3
<1>5. QED BY <1>4 DEF RemoteInv

LEMMA WrittenTaken ==
  ASSUME NEW q \in Seq(Operation), q # <<>>, Written(q)
  PROVE  /\ Written(Tail(q))
         /\ Head(q).op = "setOffer" => Head(q).desc.type = "offer"
         /\ Head(q).op = "setAnswer" => Head(q).desc.type = "answer"
BY Tails DEF Written

LEMMA WrittenChained ==
  ASSUME NEW q \in Seq(Operation), NEW op \in Operation, Written(q),
         op.op = "setOffer" => op.desc.type = "offer",
         op.op = "setAnswer" => op.desc.type = "answer"
  PROVE  Written(Append(q, op))
BY Appends DEF Written

LEMMA WrittenKept ==
  ASSUME WrittenInv, NEW e \in Ends, peer'[Other(e)] = peer[Other(e)],
         Written(peer'[e].ops)
  PROVE  WrittenInv'
<1>1. Other(e) \in Ends /\ \A d \in Ends : d = e \/ d = Other(e) BY EndsAre
<1>2. \A d \in Ends : Written(peer[d].ops)' BY <1>1 DEF WrittenInv
<1>3. QED BY <1>2 DEF WrittenInv

\* What e puts in its chain is about offer "about", what it sends about "word".
ChainSays(e, in, about) ==
  \A S \in {Bearing, Applying} : \A id :
    Bears(peer[e].ops, S, id) /\ (in \in S => about = id) => Bears(peer'[e].ops, S, id)
BoxSays(e, sent, word) ==
  \A t \in {"offer", "answer"} : \A id :
    MailBears(net[e], t, id) /\ (sent = t => word = id) => MailBears(net'[e], t, id)
Says(e, in, about, sent, word) ==
  /\ peer'[Other(e)] = peer[Other(e)] /\ ChainSays(e, in, about)
  /\ BoxSays(e, Nothing, word) /\ BoxSays(Other(e), sent, word)

LEMMA SaysSame == ASSUME NEW e, NEW in, NEW about, peer'[e].ops = peer[e].ops
                  PROVE  ChainSays(e, in, about)
BY DEF ChainSays

LEMMA SaysTaken ==
  ASSUME NegotiationTypeOK, NEW e \in Ends, peer[e].ops # <<>>, peer'[e].ops = Rest(e),
         NEW in, NEW about
  PROVE  ChainSays(e, in, about)
<1>1. PICK q : q = peer[e].ops OBVIOUS
<1>2. q \in Seq(Operation) /\ q # <<>> BY <1>1 DEF NegotiationTypeOK, Peer
<1>3. peer'[e].ops = Tail(q) BY <1>1 DEF Rest
<1>4. \A S, id : Bears(q, S, id) => Bears(Tail(q), S, id) BY <1>2, BearsTaken
<1>5. QED BY <1>1, <1>3, <1>4 DEF ChainSays

LEMMA SaysReplaced ==
  ASSUME NegotiationTypeOK, NEW e \in Ends, peer[e].ops # <<>>, NEW op \in Operation,
         peer'[e].ops = Append(Rest(e), op), NEW about,
         op.op \in Bearing \cup Applying => op.desc.id = about
  PROVE  ChainSays(e, op.op, about)
<1>1. PICK q : q = peer[e].ops OBVIOUS
<1>2. q \in Seq(Operation) /\ q # <<>> BY <1>1 DEF NegotiationTypeOK, Peer
<1>3. PICK r : r = Tail(q) OBVIOUS
<1>4. r \in Seq(Operation) /\ peer'[e].ops = Append(r, op) BY <1>1, <1>2, <1>3 DEF Rest
<1>5. \A S, id : Bears(q, S, id) => Bears(r, S, id) BY <1>2, <1>3, BearsTaken
<1>6. \A S, id : Bears(r, S, id) /\ (op.op \in S => op.desc.id = id)
                   => Bears(Append(r, op), S, id)
  BY <1>4, BearsChained
<1>7. QED BY <1>1, <1>4, <1>5, <1>6 DEF ChainSays

LEMMA SaysChained ==
  ASSUME NegotiationTypeOK, NEW e \in Ends, NEW op \in Operation,
         peer'[e].ops = Append(peer[e].ops, op), NEW about,
         op.op \in Bearing \cup Applying => op.desc.id = about
  PROVE  ChainSays(e, op.op, about)
<1>1. PICK q : q = peer[e].ops OBVIOUS
<1>2. q \in Seq(Operation) BY <1>1 DEF NegotiationTypeOK, Peer
<1>3. peer'[e].ops = Append(q, op) BY <1>1
<1>4. \A S, id : Bears(q, S, id) /\ (op.op \in S => op.desc.id = id)
                   => Bears(Append(q, op), S, id)
  BY <1>2, BearsChained
<1>5. QED BY <1>1, <1>3, <1>4 DEF ChainSays

LEMMA SaysNothing ==
  ASSUME NEW e \in Ends, net' = net, NEW word
  PROVE  BoxSays(e, Nothing, word) /\ BoxSays(Other(e), Nothing, word)
BY DEF BoxSays

LEMMA SaysReceived ==
  ASSUME NegotiationTypeOK, NEW e \in Ends, NEW way \in Ways, Takes(e, way), NEW word
  PROVE  BoxSays(e, Nothing, word) /\ BoxSays(Other(e), Nothing, word)
<1>1. net'[Other(e)] = net[Other(e)] BY DEF Takes
<1>2. BoxSays(e, Nothing, word) BY MailBearsTaken DEF BoxSays
<1>3. QED BY <1>1, <1>2 DEF BoxSays

LEMMA SaysSent ==
  ASSUME NegotiationTypeOK, NEW e \in Ends, NEW way \in Ways, NEW m \in Message,
         Mails(e, way, m), NEW word, m.type \in {"offer", "answer"} => m.id = word
  PROVE  BoxSays(e, Nothing, word) /\ BoxSays(Other(e), m.type, word)
<1>1. net'[e] = net[e] BY DEF Mails
<1>2. BoxSays(Other(e), m.type, word) BY MailBearsSent DEF BoxSays
<1>3. QED BY <1>1, <1>2 DEF BoxSays

\* e's own offer: what e applies is about it.
LEMMA OwnFitsKept ==
  ASSUME NEW e \in Ends, NEW in, NEW about, NEW sent, NEW word,
         Says(e, in, about, sent, word), peer'[e].pending = peer[e].pending, Fits(e),
         in \in Applying => about = peer[e].pending.id,
         sent = "offer" => word = peer[e].pending.id
  PROVE  Fits(e)'
<1> DEFINE o == Other(e)
<1>1. /\ peer'[o] = peer[o]
      /\ \A id : Bears(peer[e].ops, Applying, id) /\ (in \in Applying => about = id)
                   => Bears(peer'[e].ops, Applying, id)
      /\ \A id : MailBears(net[e], "answer", id) => MailBears(net'[e], "answer", id)
      /\ \A id : MailBears(net[o], "offer", id) /\ (sent = "offer" => word = id)
                   => MailBears(net'[o], "offer", id)
  BY DEF Says, ChainSays, BoxSays, Nothing
<1>2. QED BY <1>1 DEF Fits

\* The other's offer: what e does with it.
LEMMA OthersFitsKept ==
  ASSUME NEW e \in Ends, NEW in, NEW about, NEW sent, NEW word,
         Says(e, in, about, sent, word), Fits(Other(e)),
         in \in Bearing => about = peer[Other(e)].pending.id,
         sent = "answer" => word = peer[Other(e)].pending.id,
         InOps(peer'[e].ops, Creating) => peer'[e].pending.id = peer[Other(e)].pending.id
  PROVE  Fits(Other(e))'
<1> DEFINE o == Other(e)
<1>0. Other(o) = e BY EndsAre
<1>1. /\ peer'[o] = peer[o]
      /\ \A id : Bears(peer[e].ops, Bearing, id) /\ (in \in Bearing => about = id)
                   => Bears(peer'[e].ops, Bearing, id)
      /\ \A id : MailBears(net[e], "offer", id) => MailBears(net'[e], "offer", id)
      /\ \A id : MailBears(net[o], "answer", id) /\ (sent = "answer" => word = id)
                   => MailBears(net'[o], "answer", id)
  BY DEF Says, ChainSays, BoxSays, Nothing
<1>2. Fits(o)' BY <1>0, <1>1 DEF Fits
<1>3. QED BY <1>2

\* Together: it is enough to look at the end that acts and at the other one.
LEMMA FitsKept ==
  ASSUME FitsInv, Ticks, NEW e \in Ends, peer'[Other(e)] = peer[Other(e)],
         Sure(e) /\ peer'[e].signaling = "local" => Fits(e)',
         Sure(Other(e)) /\ peer[Other(e)].signaling = "local" => Fits(Other(e))'
  PROVE  FitsInv'
<1>1. \A d \in Ends : d = e \/ d = Other(e) BY EndsAre
<1>2. \A d \in Ends : (Sure(d) /\ peer[d].signaling = "local" => Fits(d))'
  BY <1>1, SureKept
<1>3. QED BY <1>2 DEF FitsInv

\* An end that is not there does nothing but come.
LEMMA Awake ==
  ASSUME Beginnings, NEW e \in Ends
  PROVE  /\ \A name : Runs(e, name) => peer[e].role # "none"
         /\ OnIceCandidate(e) => peer[e].role # "none"
         /\ OnIceConnected(e) \/ OnIceDisconnected(e) \/ OnDataChannelOpen(e)
              => peer[e].role # "none" /\ peer[Host].role # "none"
<1>1. e = Newcomer \/ e = Host BY DEF Ends
<1>2. peer[Newcomer].role # "none" BY DEF Beginnings
<1>3. SUFFICES ASSUME peer[Host].role = "none"
               PROVE  /\ \A name : ~Runs(Host, name)
                      /\ ~OnIceCandidate(Host)
                      /\ ~(OnIceConnected(e) \/ OnIceDisconnected(e) \/ OnDataChannelOpen(e))
  BY <1>1, <1>2
<1>4. peer[Host] = OtherPeer("none", FALSE) /\ \A d \in Ends : peer[d].ice = "new"
  BY <1>3 DEF Beginnings
<1>5. peer[Host].ops = <<>> /\ ~peer[Host].gathering /\ peer[Host].session = None
  BY <1>4 DEF OtherPeer
<1>6. \A name : ~Runs(Host, name) BY <1>5 DEF Runs
<1>7. ~OnIceCandidate(Host) BY <1>5 DEF OnIceCandidate, Finds
<1>8. ~OnIceConnected(e) BY <1>5, EndsAre DEF OnIceConnected, Reachable, Negotiated
<1>9. ~OnIceDisconnected(e) BY <1>4 DEF OnIceDisconnected
<1>10. ~OnDataChannelOpen(e) BY <1>4 DEF OnDataChannelOpen, Opens
<1>11. QED BY <1>6, <1>7, <1>8, <1>9, <1>10

LEMMA BeginningsKept ==
  ASSUME Beginnings, NEW e \in Ends, NEW out, NEW in, NEW took, NEW sent,
         Acts(e, out, in, took, sent), took # "connected", sent # "connected",
         peer[e].role # "none", peer'[e].role = peer[e].role,
         e = Newcomer => ~peer'[e].aborted,
         peer[Host].role = "none" => peer'[e].ice = peer[e].ice
  PROVE  Beginnings'
<1>1. /\ Other(Newcomer) = Host /\ Other(Host) = Newcomer /\ (e = Newcomer \/ e = Host)
      /\ Newcomer # Host /\ Ends = {Newcomer, Host}
  BY EndsAre DEF Ends
<1>2. /\ MailMoves(net[e], net'[e], took, Nothing, "connected")
      /\ MailMoves(net[Other(e)], net'[Other(e)], Nothing, sent, "connected")
      /\ peer'[Other(e)] = peer[Other(e)]
  BY DEF Acts, BoxMoves, Types
<1>3. /\ Mail(net'[e], "connected") => Mail(net[e], "connected")
      /\ OnceMail(net[e], "connected") => OnceMail(net'[e], "connected")
      /\ Mail(net'[Other(e)], "connected") => Mail(net[Other(e)], "connected")
      /\ Mail(net[Other(e)], "connected") /\ OnceMail(net[Other(e)], "connected")
           => OnceMail(net'[Other(e)], "connected")
  BY <1>2 DEF MailMoves, Nothing
<1>4. CASE e = Newcomer BY <1>1, <1>2, <1>3, <1>4 DEF Beginnings
<1>5. CASE e = Host BY <1>1, <1>2, <1>3, <1>5 DEF Beginnings
<1>6. QED BY <1>1, <1>4, <1>5

\* The fields of e the invariant is about, but for its role, the channel and ice.
Still(e) ==
  /\ peer'[e].making = peer[e].making
  /\ peer'[e].aborted = peer[e].aborted /\ peer'[e].signaling = peer[e].signaling
  /\ peer'[e].ops = peer[e].ops /\ peer'[e].pending = peer[e].pending

LEMMA IdleKeeps ==
  ASSUME LinkInv, NEW e \in Ends, NEW took, NEW sent, Ticks, Still(e),
         peer'[e].channel = peer[e].channel \/ peer'[e].channel = "open",
         Acts(e, Nothing, Nothing, took, sent), Says(e, Nothing, None, sent, None),
         took \in {Nothing, "offer", "answer", "candidate", "connected"},
         sent \in {Nothing, "candidate"}, sent # Nothing => took = Nothing,
         took = "offer" => e = Newcomer, took = "answer" => e = Host,
         Beginnings',
         hiccups' = 0 => /\ \A d \in Ends : peer'[d].ice # "disconnected"
                         /\ peer'[Host].channel = "open" =>
                              \A d \in Ends : peer'[d].ice = "connected"
  PROVE  Negotiating'
<1> DEFINE o == Other(e)
<1>1. /\ Other(Newcomer) = Host /\ Other(Host) = Newcomer /\ (e = Newcomer \/ e = Host)
      /\ Newcomer # Host /\ o \in Ends /\ Newcomer \in Ends /\ Host \in Ends
  BY EndsAre DEF Ends
<1>2. peer'[o] = peer[o] /\ peer'[e].ops = peer[e].ops BY DEF Acts, Still
<1>3. OneInv'
  <2>1. Legal(Nothing, Nothing, took, sent) /\ Fresh(e, Nothing, Nothing)
    BY DEF Legal, Fresh, Offering, Answering, Applying, Nothing
  <2>2. OneInv BY DEF LinkInv, Negotiating
  <2>3. QED BY <2>1, <2>2, OneKept
<1>4. RemoteInv'
  <2>1. RemoteInv BY DEF LinkInv, Negotiating
  <2>2. RemoteOf(e) BY <2>1 DEF RemoteInv
  <2>3. RemoteOf(e)'
    <3>1. Sure(Other(e))' => Sure(Other(e)) BY SureKept
    <3>2. QED BY <2>2, <3>1 DEF RemoteOf, Still
  <2>4. QED BY <1>2, <2>1, <2>3, RemoteKept
<1>5. FitsInv'
  <2>1. FitsInv BY DEF LinkInv, Negotiating
  <2>2. Sure(e) /\ peer'[e].signaling = "local" => Fits(e)'
    <3>1. Sure(e) /\ peer[e].signaling = "local" => Fits(e) BY <2>1 DEF FitsInv
    <3>2. Nothing \notin Applying /\ sent # "offer" BY DEF Applying, Nothing
    <3>3. QED BY <3>1, <3>2, OwnFitsKept DEF Still
  <2>3. Sure(o) /\ peer[o].signaling = "local" => Fits(o)'
    <3>1. Sure(o) /\ peer[o].signaling = "local" => Fits(o) BY <1>1, <2>1 DEF FitsInv
    <3>2. Nothing \notin Bearing /\ sent # "answer" BY DEF Bearing, Nothing
    <3>3. Fits(o) => (InOps(peer'[e].ops, Creating)
                        => peer'[e].pending.id = peer[o].pending.id)
      BY <1>1 DEF Still, Fits
    <3>4. QED BY <3>1, <3>2, <3>3, OthersFitsKept
  <2>4. QED BY <1>2, <2>1, <2>2, <2>3, FitsKept
<1>6. WrittenInv'
  <2>1. WrittenInv BY DEF LinkInv, Negotiating
  <2>2. QED BY <1>2, <2>1, WrittenKept DEF WrittenInv
<1>7. /\ MailMoves(net[e], net'[e], took, Nothing, "offer")
      /\ MailMoves(net[e], net'[e], took, Nothing, "answer")
      /\ MailMoves(net[o], net'[o], Nothing, sent, "offer")
      /\ MailMoves(net[o], net'[o], Nothing, sent, "answer")
  BY DEF Acts, BoxMoves, Types
<1>8. NewcomerInv'
  <2>1. NewcomerInv BY DEF LinkInv, Negotiating
  <2>2. Offered(Newcomer)' <=> Offered(Newcomer)
    BY <1>1, <1>7 DEF MailMoves, Offered, Nothing
  <2>3. Answered(Newcomer)' <=> Answered(Newcomer)
    BY <1>1, <1>7 DEF MailMoves, Answered, Nothing
  <2>4. /\ peer'[Newcomer].ops = peer[Newcomer].ops /\ peer'[Host].ops = peer[Host].ops
        /\ peer'[Newcomer].making = peer[Newcomer].making
        /\ peer'[Newcomer].signaling = peer[Newcomer].signaling
    BY <1>1, <1>2 DEF Still
  <2>5. QED BY <1>1, <2>1, <2>2, <2>3, <2>4
           DEF NewcomerInv, Prepared, Out, Considered, Applied
<1>9. HostInv'
  <2>1. HostInv BY DEF LinkInv, Negotiating
  <2>2. /\ peer'[Host].ops = peer[Host].ops /\ peer'[Host].making = peer[Host].making
        /\ peer'[Host].signaling = peer[Host].signaling
        /\ peer'[Host].aborted = peer[Host].aborted
        /\ peer'[Host].channel = peer[Host].channel \/ peer'[Host].channel = "open"
    BY <1>1, <1>2 DEF Still
  <2>3. QED BY <2>1, <2>2 DEF HostInv
<1>10. SteadyInv'
  <2>1. SteadyInv /\ hiccups' = 0 => hiccups = 0 BY DEF Ticks
  <2>2. Offered(Host)' => Offered(Host) BY <1>1, <1>7 DEF MailMoves, Offered, Nothing
  <2>3. Answered(Host)' => Answered(Host) BY <1>1, <1>7 DEF MailMoves, Answered, Nothing
  <2>4. /\ peer'[Newcomer].ops = peer[Newcomer].ops /\ peer'[Host].ops = peer[Host].ops
        /\ peer'[Host].making = peer[Host].making
        /\ peer'[Host].aborted = peer[Host].aborted
        /\ peer'[Host].channel = peer[Host].channel \/ peer'[Host].channel = "open"
    BY <1>1, <1>2 DEF Still
  <2>5. SteadyInv BY DEF LinkInv, Negotiating
  <2>6. QED BY <1>1, <2>1, <2>2, <2>3, <2>4, <2>5
           DEF SteadyInv, Prepared, Out, Considered, Applied
<1>11. QED BY <1>3, <1>4, <1>5, <1>6, <1>8, <1>9, <1>10 DEF Negotiating

IceOK ==
  hiccups = 0 =>
    /\ \A e \in Ends : peer[e].ice # "disconnected"
    /\ peer[Host].channel = "open" => \A e \in Ends : peer[e].ice = "connected"

LEMMA IceKept ==
  ASSUME LinkInv, Ticks, NEW e \in Ends, peer'[Other(e)] = peer[Other(e)],
         peer'[e].ice = peer[e].ice, peer'[e].channel = peer[e].channel
  PROVE  IceOK'
<1>1. IceOK BY DEF LinkInv, Negotiating, SteadyInv, IceOK
<1>2. hiccups' = 0 => hiccups = 0 BY DEF Ticks
<1>3. \A d \in Ends : peer'[d].ice = peer[d].ice /\ peer'[d].channel = peer[d].channel
  BY EndsAre
<1>4. QED BY <1>1, <1>2, <1>3, EndsAre DEF IceOK

\* Neither of the two ends' offers gets lost where e answers it.
Answers(out, in, took, sent) ==
  /\ took = "offer" => in \in Answering
  /\ out \in Answering => in \in Answering \/ sent = "answer"

LEMMA NewcomerKept ==
  ASSUME NewcomerInv, NEW out, NEW in, NEW took, NEW sent, Acts(Host, out, in, took, sent),
         Legal(out, in, took, sent), Answers(out, in, took, sent)
  PROVE  NewcomerInv'
<1>1. Other(Host) = Newcomer /\ Other(Newcomer) = Host BY EndsAre
<1>2. /\ Moves(peer[Host].ops, peer'[Host].ops, out, in, Answering)
      /\ MailMoves(net[Host], net'[Host], took, Nothing, "offer")
      /\ MailMoves(net[Newcomer], net'[Newcomer], Nothing, sent, "answer")
      /\ peer'[Newcomer] = peer[Newcomer]
  BY <1>1 DEF Acts, ChainMoves, BoxMoves, Kinds, Types
<1>3. Out(Newcomer)' <=> Out(Newcomer)
  BY <1>1, <1>2 DEF Out, Offered, Considered, Answered, Moves, MailMoves, Legal, Answers,
                    Answering, Nothing
<1>4. QED BY <1>2, <1>3 DEF NewcomerInv, Prepared, Applied

LEMMA SteadyKept ==
  ASSUME SteadyInv, Ticks, NEW out, NEW in, NEW took, NEW sent,
         Acts(Newcomer, out, in, took, sent), Legal(out, in, took, sent), IceOK'
  PROVE  SteadyInv'
<1>1. Other(Host) = Newcomer /\ Other(Newcomer) = Host BY EndsAre
<1>2. /\ Moves(peer[Newcomer].ops, peer'[Newcomer].ops, out, in, Answering)
      /\ MailMoves(net[Newcomer], net'[Newcomer], took, Nothing, "offer")
      /\ MailMoves(net[Host], net'[Host], Nothing, sent, "answer")
      /\ peer'[Host] = peer[Host]
  BY <1>1 DEF Acts, ChainMoves, BoxMoves, Kinds, Types
<1>3. Out(Host)' => Out(Host)
  BY <1>1, <1>2 DEF Out, Offered, Considered, Answered, Moves, MailMoves, Legal,
                    Answering, Nothing
<1>4. hiccups' = 0 => hiccups = 0 BY DEF Ticks
<1>5. QED BY <1>2, <1>3, <1>4 DEF SteadyInv, IceOK, Prepared, Applied

LEMMA Keeps ==
  ASSUME LinkInv, Ticks, NEW e \in Ends, NEW out, NEW in, NEW took, NEW sent,
         NEW about, NEW word,
         Acts(e, out, in, took, sent), Says(e, in, about, sent, word),
         Legal(out, in, took, sent), Sure(e) => Fresh(e, out, in),
         took # "connected", sent # "connected", peer[e].role # "none",
         peer'[e].role = peer[e].role, peer[Host].role = "none" => peer'[e].ice = peer[e].ice,
         RemoteOf(e)', Written(peer'[e].ops),
         Sure(e) /\ peer'[e].signaling = "local" => Fits(e)',
         Sure(Other(e)) /\ peer[Other(e)].signaling = "local" =>
           /\ in \in Bearing => about = peer[Other(e)].pending.id
           /\ sent = "answer" => word = peer[Other(e)].pending.id
           /\ InOps(peer'[e].ops, Creating) => peer'[e].pending.id = peer[Other(e)].pending.id,
         e = Newcomer => ~peer'[e].aborted /\ NewcomerInv' /\ IceOK',
         e = Host => Answers(out, in, took, sent) /\ HostInv' /\ SteadyInv'
  PROVE  Negotiating'
<1> DEFINE o == Other(e)
<1>1. /\ Other(Newcomer) = Host /\ Other(Host) = Newcomer /\ (e = Newcomer \/ e = Host)
      /\ Newcomer # Host /\ o \in Ends
  BY EndsAre DEF Ends
<1>2. /\ Beginnings /\ WrittenInv /\ OneInv /\ RemoteInv /\ FitsInv /\ NewcomerInv
      /\ HostInv /\ SteadyInv
  BY DEF LinkInv, Negotiating
<1>3. peer'[o] = peer[o] BY DEF Acts
<1>4. Beginnings' BY <1>2, BeginningsKept
<1>5. WrittenInv' BY <1>2, <1>3, WrittenKept
<1>6. OneInv' BY <1>2, OneKept
<1>7. RemoteInv' BY <1>2, <1>3, RemoteKept
<1>8. FitsInv'
  <2>1. Sure(o) /\ peer[o].signaling = "local" => Fits(o) BY <1>1, <1>2 DEF FitsInv
  <2>2. Sure(o) /\ peer[o].signaling = "local" => Fits(o)' BY <2>1, OthersFitsKept
  <2>3. QED BY <1>2, <1>3, <2>2, FitsKept
<1>9. NewcomerInv' BY <1>1, <1>2, NewcomerKept
<1>10. HostInv'
  <2>1. CASE e = Host BY <2>1
  <2>2. CASE e = Newcomer
    <3>1. peer'[Host] = peer[Host] BY <1>1, <1>3, <2>2
    <3>2. QED BY <1>2, <3>1 DEF HostInv
  <2>3. QED BY <1>1, <2>1, <2>2
<1>11. SteadyInv' BY <1>1, <1>2, SteadyKept
<1>12. QED BY <1>4, <1>5, <1>6, <1>7, <1>8, <1>9, <1>10, <1>11 DEF Negotiating

LEMMA Parts ==
  ASSUME NEW q
  PROVE  /\ InOps(q, Replying) => InOps(q, Answering)
         /\ InOps(q, Creating) => InOps(q, Replying)
         /\ InOps(q, Rolling) => InOps(q, Answering)
         /\ InOps(q, Offering) \/ InOps(q, Applying) => InOps(q, Late)
         /\ OnceIn(q, Answering) => OnceIn(q, Replying) /\ OnceIn(q, Rolling)
         /\ OnceIn(q, Answering) /\ InOps(q, Rolling) => ~InOps(q, Replying)
<1>1. /\ InOps(q, Replying) => InOps(q, Answering)
      /\ InOps(q, Creating) => InOps(q, Replying)
      /\ InOps(q, Rolling) => InOps(q, Answering)
      /\ InOps(q, Offering) \/ InOps(q, Applying) => InOps(q, Late)
  BY DEF InOps, Replying, Answering, Creating, Rolling, Offering, Applying, Late
<1>2. OnceIn(q, Answering) => OnceIn(q, Replying) /\ OnceIn(q, Rolling)
  BY DEF OnceIn, Replying, Answering, Rolling
<1>3. OnceIn(q, Answering) /\ InOps(q, Rolling) => ~InOps(q, Replying)
  BY DEF OnceIn, InOps, Replying, Answering, Rolling
<1>4. QED BY <1>1, <1>2, <1>3

LEMMA RemoteStays ==
  ASSUME LinkInv, Ticks, NEW e \in Ends, NEW out, NEW in, ChainMoves(e, out, in),
         out \notin Replying, in \notin Replying, peer'[e].signaling = peer[e].signaling
  PROVE  RemoteOf(e)'
<1>1. RemoteOf(e) BY DEF LinkInv, Negotiating, RemoteInv
<1>2. Sure(Other(e))' => Sure(Other(e)) BY SureKept
<1>3. Moves(peer[e].ops, peer'[e].ops, out, in, Replying) BY DEF ChainMoves, Kinds
<1>4. QED BY <1>1, <1>2, <1>3 DEF RemoteOf, Moves

LEMMA CreatingStays ==
  ASSUME LinkInv, NEW e \in Ends, NEW out, NEW in, ChainMoves(e, out, in), in \notin Creating,
         peer'[e].pending = peer[e].pending,
         Sure(Other(e)), peer[Other(e)].signaling = "local", InOps(peer'[e].ops, Creating)
  PROVE  peer'[e].pending.id = peer[Other(e)].pending.id
<1>1. Other(e) \in Ends /\ Other(Other(e)) = e BY EndsAre
<1>2. Fits(Other(e)) BY <1>1 DEF LinkInv, Negotiating, FitsInv
<1>3. Moves(peer[e].ops, peer'[e].ops, out, in, Creating) BY DEF ChainMoves
<1>4. InOps(peer[e].ops, Creating) BY <1>3 DEF Moves
<1>5. QED BY <1>1, <1>2, <1>4 DEF Fits

LEMMA OwnFitsStays ==
  ASSUME LinkInv, NEW e \in Ends, NEW in, NEW about, NEW sent, NEW word,
         Says(e, in, about, sent, word), peer'[e].pending = peer[e].pending,
         in \notin Applying, sent # "offer", Sure(e), peer[e].signaling = "local"
  PROVE  Fits(e)'
<1>1. Fits(e) BY DEF LinkInv, Negotiating, FitsInv
<1>2. QED BY <1>1, OwnFitsKept

LEMMA WrittenRest ==
  ASSUME LinkInv, NEW e \in Ends, peer[e].ops # <<>>
  PROVE  /\ Written(Rest(e)) /\ Rest(e) \in Seq(Operation)
         /\ Front(e).op = "setOffer" => Front(e).desc.type = "offer"
         /\ Front(e).op = "setAnswer" => Front(e).desc.type = "answer"
<1>1. peer[e].ops \in Seq(Operation) BY DEF LinkInv, NegotiationTypeOK, Peer
<1>2. Written(peer[e].ops) BY DEF LinkInv, Negotiating, WrittenInv
<1>3. QED BY <1>1, <1>2, WrittenTaken DEF Rest, Front

\* An end that offers is not applying an offer, unless it retries.
LEMMA OfferingIs ==
  ASSUME LinkInv, NEW e \in Ends, NEW name \in Offering, Runs(e, name)
  PROVE  /\ InOps(peer[e].ops, Offering)
         /\ e = Newcomer => peer[e].signaling = "stable"
         /\ e = Host => /\ peer[e].signaling # "local" /\ peer[e].channel = "open"
                        /\ ~peer[e].aborted /\ ~InOps(peer[e].ops, Rolling)
                        /\ peer[e].making => ~InOps(peer[e].ops, Applying)
<1>1. PICK q : q = peer[e].ops OBVIOUS
<1>2. q \in Seq(Operation) /\ q # <<>> /\ Head(q).op = name
  BY <1>1 DEF LinkInv, NegotiationTypeOK, Peer, Runs
<1>3. Moves(q, Tail(q), name, Nothing, Offering) BY <1>2, OpsTaken, KindsAre
<1>4. /\ Orders(q, Tail(q), name, Nothing, Rolling, Late)
      /\ Orders(q, Tail(q), name, Nothing, Applying, Offering)
  BY <1>2, OrderTaken, KindsAre
<1>5. InOps(q, Offering) BY <1>3 DEF Moves
<1>6. ASSUME e = Newcomer PROVE peer[e].signaling = "stable"
  BY <1>1, <1>5, <1>6 DEF LinkInv, Negotiating, NewcomerInv, Prepared
<1>7. ASSUME e = Host
      PROVE  /\ peer[e].signaling # "local" /\ peer[e].channel = "open"
             /\ ~peer[e].aborted /\ ~InOps(peer[e].ops, Rolling)
             /\ peer[e].making => ~InOps(peer[e].ops, Applying)
  <2>1. HostInv BY DEF LinkInv, Negotiating
  <2>2. name \in Late BY DEF Offering, Late
  <2>3. ~InOps(q, Rolling) BY <1>1, <1>4, <1>7, <2>1, <2>2 DEF HostInv, Orders
  <2>4. peer[e].making => ~InOps(q, Applying) BY <1>1, <1>4, <1>7, <2>1 DEF HostInv, Orders
  <2>5. QED BY <1>1, <1>5, <1>7, <2>1, <2>3, <2>4 DEF HostInv
<1>8. QED BY <1>1, <1>5, <1>6, <1>7

LEMMA TicksSame == ASSUME LinkInv, hiccups' = hiccups PROVE Ticks
BY BoundsAssumption DEF LinkInv, NegotiationTypeOK, Ticks

\* What Acts says, one kind at a time.
LEMMA ActsIs ==
  ASSUME NEW e \in Ends, NEW out, NEW in, NEW took, NEW sent, Acts(e, out, in, took, sent)
  PROVE  /\ peer'[Other(e)] = peer[Other(e)] /\ ChainMoves(e, out, in)
         /\ Moves(peer[e].ops, peer'[e].ops, out, in, Offering)
         /\ Moves(peer[e].ops, peer'[e].ops, out, in, Answering)
         /\ Moves(peer[e].ops, peer'[e].ops, out, in, Applying)
         /\ Moves(peer[e].ops, peer'[e].ops, out, in, Rolling)
         /\ Moves(peer[e].ops, peer'[e].ops, out, in, Replying)
         /\ Orders(peer[e].ops, peer'[e].ops, out, in, Rolling, Late)
         /\ Orders(peer[e].ops, peer'[e].ops, out, in, Applying, Offering)
         /\ MailMoves(net[Other(e)], net'[Other(e)], Nothing, sent, "offer")
         /\ MailMoves(net[e], net'[e], took, Nothing, "answer")
BY DEF Acts, ChainMoves, BoxMoves, Kinds, Types

\* The host's own part of SteadyInv.
HostSteady ==
  /\ Prepared(Host) \/ Out(Host) => peer[Host].making \/ peer[Host].aborted
  /\ peer[Host].channel # "open" => ~Prepared(Host) /\ ~Out(Host) /\ ~Applied(Host)

LEMMA SteadyIs == SteadyInv <=> IceOK /\ (hiccups = 0 => HostSteady)
BY DEF SteadyInv, IceOK, HostSteady

LEMMA HostSteadyKept ==
  ASSUME LinkInv, Ticks, IceOK', hiccups = 0 /\ HostSteady /\ OneOut(Host) => HostSteady'
  PROVE  SteadyInv'
<1>1. hiccups' = 0 => hiccups = 0 BY DEF Ticks
<1>2. SteadyInv /\ OneInv BY DEF LinkInv, Negotiating
<1>3. hiccups = 0 => HostSteady /\ OneOut(Host)
  BY <1>2, EndsAre DEF SteadyInv, HostSteady, OneInv, Sure
<1>4. QED BY <1>1, <1>3 DEF SteadyInv, IceOK, HostSteady

\* An end that is applying an offer makes none.
LEMMA OfferDropped ==
  ASSUME LinkInv, NEW e \in Ends, NEW name \in Offering, Runs(e, name), Turns(e),
         UNCHANGED <<net, hiccups>>, peer[e].signaling = "remote",
         Same(e, {"ops", "making"}), peer'[e].making = FALSE, peer'[e].ops = Rest(e)
  PROVE  Negotiating'
<1>0. NegotiationTypeOK /\ HostInv /\ Beginnings BY DEF LinkInv, Negotiating
<1>1. Ticks /\ peer'[Other(e)] = peer[Other(e)] BY TicksSame DEF Turns
<1>2. peer[e].role # "none" /\ peer[e].ops # <<>> BY <1>0, Awake DEF Runs
<1>3. /\ InOps(peer[e].ops, Offering)
      /\ e = Newcomer => peer[e].signaling = "stable"
      /\ e = Host => /\ peer[e].signaling # "local" /\ peer[e].channel = "open"
                     /\ ~peer[e].aborted /\ ~InOps(peer[e].ops, Rolling)
                     /\ peer[e].making => ~InOps(peer[e].ops, Applying)
  BY OfferingIs
<1>4. BoxMoves(e, Nothing, Nothing) /\ BoxMoves(Other(e), Nothing, Nothing) BY BoxesStay
<1>5. BoxSays(e, Nothing, None) /\ BoxSays(Other(e), Nothing, None) BY SaysNothing
<1>6. Written(Rest(e)) /\ Rest(e) \in Seq(Operation) BY <1>2, WrittenRest
<1>7. /\ Other(Newcomer) = Host /\ Other(Host) = Newcomer /\ (e = Newcomer \/ e = Host)
      /\ Newcomer # Host
  BY EndsAre DEF Ends
<1>8. /\ peer'[e].role = peer[e].role /\ peer'[e].aborted = peer[e].aborted
      /\ peer'[e].channel = peer[e].channel /\ peer'[e].signaling = peer[e].signaling
      /\ peer'[e].pending = peer[e].pending /\ peer'[e].ice = peer[e].ice
  BY SameIs
<1>9. e = Host BY <1>3, <1>7
<1>10. Acts(e, name, Nothing, Nothing, Nothing)
  BY <1>0, <1>1, <1>4, ChainTaken DEF Acts
<1>11. Says(e, Nothing, None, Nothing, None)
  BY <1>0, <1>1, <1>2, <1>5, SaysTaken DEF Says
<1>12. /\ Legal(name, Nothing, Nothing, Nothing) /\ Fresh(e, name, Nothing)
      /\ Answers(name, Nothing, Nothing, Nothing)
  BY DEF Legal, Fresh, Answers, Offering, Answering, Applying, Nothing
<1>13. RemoteOf(e)' BY <1>1, <1>8, <1>10, RemoteStays
  DEF Acts, Offering, Replying, Nothing
<1>14. IceOK' BY <1>1, <1>8, IceKept
<1>15. HostInv'
  BY <1>0, <1>3, <1>8, <1>9, <1>10, ActsIs
  DEF HostInv, Moves, Orders, Offering, Rolling, Applying, Late, Nothing
<1>16. SteadyInv'
  <2>1. ASSUME HostSteady, OneOut(Host) PROVE HostSteady'
    BY <1>3, <1>7, <1>8, <1>9, <1>10, <2>1, ActsIs
    DEF HostSteady, OneOut, Prepared, Out, Offered, Considered, Answered, Applied, Moves,
        MailMoves, Offering, Applying, Nothing
  <2>2. QED BY <1>1, <1>14, <2>1, HostSteadyKept
<1>17. Nothing \notin Bearing /\ Nothing \notin Creating BY DEF Bearing, Creating, Nothing
<1>18. ASSUME Sure(Other(e)), peer[Other(e)].signaling = "local",
              InOps(peer'[e].ops, Creating)
       PROVE  peer'[e].pending.id = peer[Other(e)].pending.id
  BY <1>8, <1>10, <1>17, <1>18, CreatingStays DEF Acts
<1>19. QED
  BY <1>1, <1>2, <1>6, <1>7, <1>8, <1>9, <1>10, <1>11, <1>12, <1>13, <1>15, <1>16, <1>17,
     <1>18, Keeps DEF Nothing

LEMMA CreateOfferKeeps ==
  ASSUME LinkInv, NEW e \in Ends, CreateOffer(e)
  PROVE  Negotiating'
<1>0. NegotiationTypeOK /\ HostInv /\ Beginnings BY DEF LinkInv, Negotiating
<1>1. /\ Runs(e, "createOffer") /\ Turns(e) /\ UNCHANGED <<net, hiccups>>
      /\ \/ /\ peer[e].signaling = "remote" /\ Same(e, {"ops", "making"})
            /\ peer'[e].making = FALSE /\ peer'[e].ops = Rest(e)
         \/ /\ peer[e].signaling # "remote" /\ Same(e, {"ops"})
            /\ \E op \in Operation :
                 /\ op.op = "setOffer" /\ op.desc.type = "offer"
                 /\ peer'[e].ops = Append(Rest(e), op)
  BY <1>0, CreateOfferDoes
<1>2. Ticks /\ peer'[Other(e)] = peer[Other(e)] BY <1>1, TicksSame DEF Turns
<1>3. peer[e].role # "none" /\ peer[e].ops # <<>> BY <1>0, <1>1, Awake DEF Runs
<1>4. /\ InOps(peer[e].ops, Offering)
      /\ e = Newcomer => peer[e].signaling = "stable"
      /\ e = Host => /\ peer[e].signaling # "local" /\ peer[e].channel = "open"
                     /\ ~peer[e].aborted /\ ~InOps(peer[e].ops, Rolling)
                     /\ peer[e].making => ~InOps(peer[e].ops, Applying)
  BY <1>1, OfferingIs DEF Offering
<1>5. BoxMoves(e, Nothing, Nothing) /\ BoxMoves(Other(e), Nothing, Nothing)
  BY <1>1, BoxesStay
<1>6. BoxSays(e, Nothing, None) /\ BoxSays(Other(e), Nothing, None) BY <1>1, SaysNothing
<1>7. Written(Rest(e)) /\ Rest(e) \in Seq(Operation) BY <1>3, WrittenRest
<1>8. /\ Other(Newcomer) = Host /\ Other(Host) = Newcomer /\ (e = Newcomer \/ e = Host)
      /\ Newcomer # Host
  BY EndsAre DEF Ends
<1>9. CASE peer[e].signaling = "remote" /\ Same(e, {"ops", "making"})
           /\ peer'[e].making = FALSE /\ peer'[e].ops = Rest(e)
  BY <1>1, <1>9, OfferDropped DEF Offering
<1>10. ASSUME peer[e].signaling # "remote", Same(e, {"ops"}), NEW op \in Operation,
              op.op = "setOffer", op.desc.type = "offer",
              peer'[e].ops = Append(Rest(e), op)
       PROVE  Negotiating'
  <2>1. /\ peer'[e].role = peer[e].role /\ peer'[e].aborted = peer[e].aborted
        /\ peer'[e].channel = peer[e].channel /\ peer'[e].signaling = peer[e].signaling
        /\ peer'[e].pending = peer[e].pending /\ peer'[e].ice = peer[e].ice
        /\ peer'[e].making = peer[e].making
    BY <1>10, SameIs
  <2>2. Acts(e, "createOffer", "setOffer", Nothing, Nothing)
    <3>1. ChainMoves(e, "createOffer", op.op) BY <1>0, <1>1, <1>10, ChainReplaced
    <3>2. QED BY <1>2, <1>5, <1>10, <3>1 DEF Acts
  <2>3. Says(e, "setOffer", None, Nothing, None)
    <3>1. op.op \notin Bearing \cup Applying BY <1>10 DEF Bearing, Applying
    <3>2. ChainSays(e, op.op, None) BY <1>0, <1>3, <1>10, <3>1, SaysReplaced
    <3>3. QED BY <1>2, <1>6, <1>10, <3>2 DEF Says
  <2>5. /\ Legal("createOffer", "setOffer", Nothing, Nothing)
        /\ Fresh(e, "createOffer", "setOffer")
        /\ Answers("createOffer", "setOffer", Nothing, Nothing)
    BY DEF Legal, Fresh, Answers, Offering, Answering, Applying, Nothing
  <2>6. RemoteOf(e)' BY <1>2, <2>1, <2>2, RemoteStays DEF Acts, Replying
  <2>7. IceOK' BY <1>2, <2>1, IceKept
  <2>8. ASSUME e = Host PROVE HostInv'
    BY <1>0, <1>4, <1>10, <2>1, <2>2, <2>8, ActsIs
    DEF HostInv, Moves, Orders, Offering, Rolling, Applying, Late, Nothing
  <2>9. ASSUME e = Host PROVE SteadyInv'
    <3>1. ASSUME HostSteady, OneOut(Host) PROVE HostSteady'
      BY <1>4, <1>8, <1>10, <2>1, <2>2, <2>9, <3>1, ActsIs
      DEF HostSteady, OneOut, Prepared, Out, Offered, Considered, Answered, Applied, Moves,
          MailMoves, Offering, Applying, Nothing
    <3>2. QED BY <1>2, <2>7, <3>1, HostSteadyKept
  <2>10. ASSUME e = Newcomer PROVE NewcomerInv'
    <3>1. NewcomerInv BY DEF LinkInv, Negotiating
    <3>2. OneOut(Newcomer) BY EndsAre DEF LinkInv, Negotiating, OneInv, Sure
    <3>3. QED
      BY <1>4, <1>8, <1>10, <2>1, <2>2, <2>10, <3>1, <3>2, ActsIs
      DEF NewcomerInv, OneOut, Prepared, Out, Offered, Considered, Answered, Applied, Moves,
          MailMoves, Offering, Answering, Applying, Nothing
  <2>11. "setOffer" \notin Bearing /\ "setOffer" \notin Creating /\ "setOffer" \notin Applying
    BY DEF Bearing, Creating, Applying
  <2>12. ASSUME Sure(Other(e)), peer[Other(e)].signaling = "local",
                InOps(peer'[e].ops, Creating)
         PROVE  peer'[e].pending.id = peer[Other(e)].pending.id
    BY <2>1, <2>2, <2>11, <2>12, CreatingStays DEF Acts
  <2>13. Sure(e) /\ peer'[e].signaling = "local" => Fits(e)'
    BY <2>1, <2>3, <2>11, OwnFitsStays DEF Nothing
  <2>14. Written(peer'[e].ops) BY <1>7, <1>10, WrittenChained
  <2>15. e = Newcomer => ~peer'[e].aborted BY <1>0, <2>1 DEF Beginnings
  <2>16. QED
    BY <1>2, <1>3, <1>8, <2>1, <2>2, <2>3, <2>5, <2>6, <2>7, <2>8, <2>9, <2>10, <2>11,
       <2>12, <2>13, <2>14, <2>15, Keeps DEF Nothing
<1>11. QED BY <1>1, <1>9, <1>10

LEMMA SetOfferKeeps ==
  ASSUME LinkInv, NEW e \in Ends, SetOffer(e)
  PROVE  Negotiating'
<1>0. NegotiationTypeOK /\ HostInv /\ Beginnings BY DEF LinkInv, Negotiating
<1>1. /\ Runs(e, "setOffer") /\ Turns(e) /\ UNCHANGED hiccups
      /\ \/ /\ peer[e].signaling = "remote" /\ Same(e, {"ops", "making"}) /\ net' = net
            /\ peer'[e].making = FALSE /\ peer'[e].ops = Rest(e)
         \/ /\ peer[e].signaling # "remote" /\ Same(e, {"ops", "signaling", "pending"})
            /\ peer'[e].ops = Rest(e) /\ peer'[e].signaling = "local"
            /\ peer'[e].pending = Front(e).desc
            /\ \E m \in Message, way \in Ways :
                 /\ m.type = Front(e).desc.type /\ m.id = Front(e).desc.id
                 /\ Mails(e, way, m)
  BY <1>0, SetOfferDoes
<1>2. CASE peer[e].signaling = "remote" /\ Same(e, {"ops", "making"}) /\ net' = net
           /\ peer'[e].making = FALSE /\ peer'[e].ops = Rest(e)
  BY <1>1, <1>2, OfferDropped DEF Offering
<1>3. ASSUME peer[e].signaling # "remote", Same(e, {"ops", "signaling", "pending"}),
             peer'[e].ops = Rest(e), peer'[e].signaling = "local",
             peer'[e].pending = Front(e).desc,
             NEW m \in Message, NEW way \in Ways,
             m.type = Front(e).desc.type, m.id = Front(e).desc.id, Mails(e, way, m)
      PROVE  Negotiating'
  <2> DEFINE id == Front(e).desc.id
             o == Other(e)
  <2>1. Ticks /\ peer'[o] = peer[o] BY <1>1, TicksSame DEF Turns
  <2>2. /\ peer[e].role # "none" /\ peer[e].ops # <<>> /\ Front(e).op = "setOffer"
    BY <1>0, <1>1, Awake DEF Runs, Front
  <2>3. /\ InOps(peer[e].ops, Offering)
        /\ e = Newcomer => peer[e].signaling = "stable"
        /\ e = Host => /\ peer[e].signaling # "local" /\ peer[e].channel = "open"
                       /\ ~peer[e].aborted /\ ~InOps(peer[e].ops, Rolling)
                       /\ peer[e].making => ~InOps(peer[e].ops, Applying)
    BY <1>1, OfferingIs DEF Offering
  <2>4. Written(Rest(e)) /\ Front(e).desc.type = "offer" BY <2>2, WrittenRest
  <2>5. m.type = "offer" BY <1>3, <2>4
  <2>6. BoxMoves(e, Nothing, Nothing) /\ BoxMoves(o, Nothing, "offer")
    BY <1>0, <1>3, <2>5, BoxSent
  <2>7. BoxSays(e, Nothing, id) /\ BoxSays(o, "offer", id)
    BY <1>0, <1>3, <2>5, SaysSent
  <2>8. /\ Other(Newcomer) = Host /\ Other(Host) = Newcomer /\ (e = Newcomer \/ e = Host)
        /\ Newcomer # Host /\ o \in Ends /\ Other(o) = e
    BY EndsAre DEF Ends
  <2>9. /\ peer'[e].role = peer[e].role /\ peer'[e].aborted = peer[e].aborted
        /\ peer'[e].channel = peer[e].channel /\ peer'[e].making = peer[e].making
        /\ peer'[e].ice = peer[e].ice
    BY <1>3, SameIs
  <2>10. Acts(e, "setOffer", Nothing, Nothing, "offer")
    BY <1>0, <1>1, <1>3, <2>1, <2>6, ChainTaken DEF Acts
  <2>11. Says(e, Nothing, id, "offer", id)
    BY <1>0, <1>3, <2>1, <2>2, <2>7, SaysTaken DEF Says
  <2>12. /\ Legal("setOffer", Nothing, Nothing, "offer") /\ Fresh(e, "setOffer", Nothing)
         /\ Answers("setOffer", Nothing, Nothing, "offer")
    BY DEF Legal, Fresh, Answers, Offering, Answering, Applying, Nothing
  <2>13. Sure(o) => ~InOps(peer[e].ops, Replying)
    BY <1>3 DEF LinkInv, Negotiating, RemoteInv, RemoteOf
  <2>14. InOps(peer'[e].ops, Replying) => InOps(peer[e].ops, Replying)
    BY <2>10, ActsIs DEF Moves, Replying, Nothing
  <2>15. RemoteOf(e)'
    <3>1. Sure(o)' => Sure(o) BY <2>1, SureKept
    <3>2. QED BY <1>3, <2>13, <2>14, <3>1 DEF RemoteOf
  <2>16. IceOK' BY <2>1, <2>9, IceKept
  <2>17. ASSUME e = Host PROVE HostInv'
    BY <1>0, <1>3, <2>3, <2>9, <2>10, <2>17, ActsIs
    DEF HostInv, Moves, Orders, Offering, Rolling, Applying, Late, Nothing
  <2>18. ASSUME e = Host PROVE SteadyInv'
    <3>1. ASSUME HostSteady, OneOut(Host) PROVE HostSteady'
      BY <2>3, <2>9, <2>18, <3>1 DEF HostSteady, Prepared
    <3>2. QED BY <2>1, <2>16, <3>1, HostSteadyKept
  <2>19. ASSUME e = Newcomer PROVE NewcomerInv'
    <3>1. NewcomerInv BY DEF LinkInv, Negotiating
    <3>2. OneOut(Newcomer) BY EndsAre DEF LinkInv, Negotiating, OneInv, Sure
    <3>3. QED
      BY <1>3, <2>3, <2>1, <2>8, <2>9, <2>10, <2>19, <3>1, <3>2, ActsIs
      DEF NewcomerInv, OneOut, Prepared, Out, Offered, Considered, Answered, Applied, Moves,
          MailMoves, Offering, Answering, Applying, Nothing
  <2>20. ASSUME Sure(e) PROVE Fits(e)'
    <3>1. OneOut(e) BY <2>20 DEF LinkInv, Negotiating, OneInv
    <3>2. ~Offered(e) /\ ~Considered(e) /\ ~Answered(e) /\ ~Applied(e)
      BY <2>3, <3>1 DEF OneOut, Prepared
    <3>3. /\ MailMoves(net[e], net'[e], Nothing, Nothing, "answer")
          /\ Moves(peer[e].ops, peer'[e].ops, "setOffer", Nothing, Applying)
      BY <2>10, ActsIs
    <3>4. ~Mail(net'[e], "answer") /\ ~InOps(peer'[e].ops, Applying)
      BY <3>2, <3>3 DEF MailMoves, Moves, Answered, Applied, Applying, Nothing
    <3>5. ~InOps(peer'[o].ops, Answering) BY <2>1, <3>2 DEF Considered
    <3>6. ~InOps(peer'[o].ops, Bearing) /\ ~InOps(peer'[o].ops, Creating)
      BY <3>5 DEF InOps, Bearing, Creating, Answering
    <3>7. MailBears(net'[o], "offer", id)
      BY <2>7, <3>2, MailBearsNone DEF BoxSays, Offered
    <3>8. QED
      BY <1>3, <3>4, <3>6, <3>7, BearsNone, MailBearsNone DEF Fits
  <2>21. Nothing \notin Bearing BY DEF Bearing, Nothing
  <2>22. InOps(peer'[e].ops, Creating) => InOps(peer[e].ops, Replying) BY <2>14, Parts
  <2>23. e = Newcomer => ~peer'[e].aborted BY <1>0, <2>9 DEF Beginnings
  <2>24. Written(peer'[e].ops) BY <1>3, <2>4
  <2> HIDE DEF id
  <2>25. QED
    BY <2>1, <2>2, <2>8, <2>9, <2>10, <2>11, <2>12, <2>13, <2>15, <2>16, <2>17, <2>18, <2>19,
       <2>20, <2>21, <2>22, <2>23, <2>24, Keeps DEF Nothing
<1>4. QED BY <1>1, <1>2, <1>3

\* An end that answers has one offer to answer, and none of its own if it is
\* the newcomer.
LEMMA AnsweringIs ==
  ASSUME LinkInv, NEW e \in Ends, NEW name \in Answering, Runs(e, name)
  PROVE  /\ InOps(peer[e].ops, Answering)
         /\ name \in Rolling => InOps(peer[e].ops, Rolling)
         /\ name \in Replying => InOps(peer[e].ops, Replying)
         /\ name \in Creating => InOps(peer[e].ops, Creating)
         /\ e = Newcomer => /\ peer[e].signaling # "local" /\ ~peer[e].making
                            /\ ~Prepared(e) /\ ~Out(e) /\ ~Applied(e)
         /\ Sure(Other(e)) => /\ OnceIn(peer[e].ops, Answering)
                              /\ name \notin Rolling => ~InOps(peer[e].ops, Rolling)
                              /\ name \notin Replying => ~InOps(peer[e].ops, Replying)
<1>1. PICK q : q = peer[e].ops OBVIOUS
<1>2. q \in Seq(Operation) /\ q # <<>> /\ Head(q).op = name
  BY <1>1 DEF LinkInv, NegotiationTypeOK, Peer, Runs
<1>3. /\ Moves(q, Tail(q), name, Nothing, Answering)
      /\ Moves(q, Tail(q), name, Nothing, Rolling)
      /\ Moves(q, Tail(q), name, Nothing, Replying)
      /\ Moves(q, Tail(q), name, Nothing, Creating)
  BY <1>2, OpsTaken, KindsAre DEF Kinds
<1>4. /\ InOps(q, Answering) /\ (name \in Rolling => InOps(q, Rolling))
      /\ name \in Replying => InOps(q, Replying)
      /\ name \in Creating => InOps(q, Creating)
  BY <1>3 DEF Moves
<1>5. ASSUME e = Newcomer
      PROVE  /\ peer[e].signaling # "local" /\ ~peer[e].making
             /\ ~Prepared(e) /\ ~Out(e) /\ ~Applied(e)
  BY <1>1, <1>4, <1>5 DEF LinkInv, Negotiating, NewcomerInv
<1>6. ASSUME Sure(Other(e))
      PROVE  /\ OnceIn(q, Answering)
             /\ name \notin Rolling => ~InOps(q, Rolling)
             /\ name \notin Replying => ~InOps(q, Replying)
  <2>1. Other(e) \in Ends /\ Other(Other(e)) = e BY EndsAre
  <2>2. OneOut(Other(e)) BY <1>6, <2>1 DEF LinkInv, Negotiating, OneInv
  <2>3. OnceIn(q, Answering) BY <1>1, <2>1, <2>2 DEF OneOut
  <2>4. 1 \in DOMAIN q /\ q[1].op = name BY <1>2, Tails
  <2>5. \A i \in DOMAIN q : q[i].op \in Answering => q[i].op = name
    BY <2>3, <2>4 DEF OnceIn
  <2>6. Rolling \subseteq Answering /\ Replying \subseteq Answering
    BY DEF Rolling, Replying, Answering
  <2>7. QED BY <2>3, <2>5, <2>6 DEF InOps
<1>7. QED BY <1>1, <1>4, <1>5, <1>6

\* What every step of the answering has in common.
LEMMA AnsweringKeeps ==
  ASSUME LinkInv, Ticks, NEW e \in Ends, NEW name \in Answering, Runs(e, name),
         NEW in \in {Nothing} \cup Answering, NEW sent \in {Nothing, "answer"}, NEW id,
         sent = "answer" => in = Nothing,
         Acts(e, name, in, Nothing, sent), Says(e, in, id, sent, id),
         Same(e, {"ops", "signaling", "pending"}), peer'[e].signaling # "local",
         RemoteOf(e)', Written(peer'[e].ops),
         e = Host => (in # Nothing \/ sent = "answer") /\ ~InOps(peer'[e].ops, Rolling),
         Sure(Other(e)) /\ peer[Other(e)].signaling = "local" =>
           /\ in \in Bearing => id = peer[Other(e)].pending.id
           /\ sent = "answer" => id = peer[Other(e)].pending.id
           /\ InOps(peer'[e].ops, Creating) => peer'[e].pending.id = peer[Other(e)].pending.id
  PROVE  Negotiating'
<1>0. NegotiationTypeOK /\ HostInv /\ Beginnings BY DEF LinkInv, Negotiating
<1>1. /\ Other(Newcomer) = Host /\ Other(Host) = Newcomer /\ (e = Newcomer \/ e = Host)
      /\ Newcomer # Host /\ peer'[Other(e)] = peer[Other(e)]
  BY EndsAre DEF Ends, Acts
<1>2. /\ peer'[e].role = peer[e].role /\ peer'[e].aborted = peer[e].aborted
      /\ peer'[e].channel = peer[e].channel /\ peer'[e].making = peer[e].making
      /\ peer'[e].ice = peer[e].ice
  BY SameIs
<1>3. peer[e].role # "none" BY <1>0, Awake
<1>4. /\ Legal(name, in, Nothing, sent) /\ Fresh(e, name, in)
      /\ e = Host => Answers(name, in, Nothing, sent)
  BY DEF Legal, Fresh, Answers, Offering, Answering, Applying, Nothing
<1>5. IceOK' BY <1>1, <1>2, IceKept
<1>6. /\ InOps(peer'[e].ops, Offering) <=> InOps(peer[e].ops, Offering)
      /\ InOps(peer'[e].ops, Applying) <=> InOps(peer[e].ops, Applying)
      /\ OnceIn(peer[e].ops, Offering) => OnceIn(peer'[e].ops, Offering)
      /\ MailMoves(net[Other(e)], net'[Other(e)], Nothing, sent, "offer")
      /\ MailMoves(net[e], net'[e], Nothing, Nothing, "answer")
  BY ActsIs DEF Moves, Offering, Answering, Applying, Nothing
<1>7. /\ Mail(net'[Other(e)], "offer") <=> Mail(net[Other(e)], "offer")
      /\ Mail(net'[e], "answer") <=> Mail(net[e], "answer")
  BY <1>6 DEF MailMoves, Nothing
<1>8. ASSUME e = Newcomer PROVE NewcomerInv'
  <2>1. ~Prepared(e) /\ ~Out(e) /\ ~Applied(e) /\ ~peer[e].making BY <1>8, AnsweringIs
  <2>2. QED
    BY <1>1, <1>2, <1>6, <1>7, <1>8, <2>1
    DEF NewcomerInv, Prepared, Out, Offered, Considered, Answered, Applied
<1>9. ASSUME e = Host PROVE HostInv'
  <2>1. /\ Before(peer[e].ops, Rolling, Late) => Before(peer'[e].ops, Rolling, Late)
        /\ Before(peer[e].ops, Applying, Offering) => Before(peer'[e].ops, Applying, Offering)
    <3>1. in \in Rolling => ~InOps(peer[e].ops, Late) \/ InOps(peer'[e].ops, Rolling)
      BY ActsIs DEF Moves
    <3>2. in \notin Applying BY DEF Answering, Applying, Nothing
    <3>3. QED BY <1>9, <3>1, <3>2, ActsIs DEF Orders, Moves
  <2>2. QED BY <1>0, <1>2, <1>6, <1>9, <2>1 DEF HostInv
<1>10. ASSUME e = Host PROVE SteadyInv'
  <2>1. ASSUME HostSteady PROVE HostSteady'
    BY <1>1, <1>2, <1>6, <1>7, <1>10, <2>1
    DEF HostSteady, Prepared, Out, Offered, Considered, Answered, Applied
  <2>2. QED BY <1>5, <2>1, HostSteadyKept
<1>11. e = Newcomer => ~peer'[e].aborted BY <1>0, <1>2 DEF Beginnings
<1>12. QED
  BY <1>1, <1>2, <1>3, <1>4, <1>5, <1>8, <1>9, <1>10, <1>11, Keeps DEF Nothing

\* What e has of the other's offer is about it.
LEMMA AnsweringFits ==
  ASSUME LinkInv, NEW e \in Ends, Sure(Other(e)), peer[Other(e)].signaling = "local"
  PROVE  /\ InOps(peer[e].ops, Creating) => peer[e].pending.id = peer[Other(e)].pending.id
         /\ peer[e].ops # <<>> /\ Front(e).op \in Bearing
              => Front(e).desc.id = peer[Other(e)].pending.id
<1>1. Other(e) \in Ends /\ Other(Other(e)) = e BY EndsAre
<1>2. Fits(Other(e)) BY <1>1 DEF LinkInv, Negotiating, FitsInv
<1>3. peer[e].ops \in Seq(Operation) BY DEF LinkInv, NegotiationTypeOK, Peer
<1>4. Bears(peer[e].ops, Bearing, peer[Other(e)].pending.id) BY <1>1, <1>2 DEF Fits
<1>5. QED BY <1>1, <1>2, <1>3, <1>4, BearsTaken DEF Fits, Front

LEMMA RollbackKeeps ==
  ASSUME LinkInv, NEW e \in Ends, Rollback(e)
  PROVE  Negotiating'
<1> DEFINE id == Front(e).desc.id
           o == Other(e)
<1>0. NegotiationTypeOK /\ HostInv /\ Beginnings /\ RemoteOf(e)
  BY DEF LinkInv, Negotiating, RemoteInv
<1>1. /\ Runs(e, "rollback") /\ Turns(e) /\ UNCHANGED <<net, hiccups>>
      /\ \/ /\ peer[e].signaling = "stable" /\ Same(e, {"ops"}) /\ peer'[e].ops = Rest(e)
         \/ /\ peer[e].signaling # "stable" /\ Same(e, {"ops", "signaling", "pending"})
            /\ peer'[e].signaling = "stable"
            /\ \E op \in Operation :
                 /\ op.op = "setRemoteOffer" /\ op.desc = Front(e).desc
                 /\ peer'[e].ops = Append(Rest(e), op)
  BY <1>0, RollbackDoes
<1>2. Ticks /\ peer'[o] = peer[o] BY <1>1, TicksSame DEF Turns
<1>3. peer[e].ops # <<>> /\ Front(e).op = "rollback" BY <1>1 DEF Runs, Front
<1>4. /\ "rollback" \in Answering /\ "rollback" \in Rolling /\ "rollback" \notin Replying
      /\ "rollback" \in Bearing
  BY DEF Answering, Rolling, Replying, Bearing
<1>5. /\ InOps(peer[e].ops, Rolling)
      /\ Sure(o) => OnceIn(peer[e].ops, Answering) /\ ~InOps(peer[e].ops, Replying)
  BY <1>1, <1>4, AnsweringIs
<1>6. BoxMoves(e, Nothing, Nothing) /\ BoxMoves(o, Nothing, Nothing) BY <1>1, BoxesStay
<1>7. BoxSays(e, Nothing, id) /\ BoxSays(o, Nothing, id) BY <1>1, SaysNothing
<1>8. Written(Rest(e)) /\ Rest(e) \in Seq(Operation) BY <1>3, WrittenRest
<1>9. e = Newcomer \/ e = Host BY DEF Ends
<1>10. e = Host => peer[e].signaling = "local" /\ Sure(o)
  BY <1>0, <1>5, EndsAre DEF HostInv, Sure
<1>11. ASSUME peer[e].signaling = "stable", Same(e, {"ops"}), peer'[e].ops = Rest(e)
       PROVE  Negotiating'
  <2>1. Acts(e, "rollback", Nothing, Nothing, Nothing)
    BY <1>0, <1>1, <1>2, <1>6, <1>11, ChainTaken DEF Acts
  <2>2. Says(e, Nothing, id, Nothing, id)
    BY <1>0, <1>2, <1>3, <1>7, <1>11, SaysTaken DEF Says
  <2>3. peer'[e].signaling = peer[e].signaling /\ peer'[e].pending = peer[e].pending
    BY <1>11, SameIs
  <2>4. Nothing \notin Replying /\ Nothing \notin Bearing /\ Nothing \notin Creating
    BY DEF Replying, Bearing, Creating, Nothing
  <2>5. RemoteOf(e)' BY <1>2, <1>4, <2>1, <2>3, <2>4, RemoteStays DEF Acts
  <2>6. Same(e, {"ops", "signaling", "pending"}) BY <1>11 DEF Same, Like
  <2>7. e # Host BY <1>10, <1>11
  <2>8. Sure(o) /\ peer[o].signaling = "local" =>
          (InOps(peer'[e].ops, Creating) => peer'[e].pending.id = peer[o].pending.id)
    BY <2>1, <2>3, <2>4, CreatingStays DEF Acts
  <2>9. QED
    BY <1>1, <1>2, <1>4, <1>8, <1>11, <2>1, <2>2, <2>3, <2>4, <2>5, <2>6, <2>7, <2>8,
       AnsweringKeeps DEF Nothing
<1>12. ASSUME Same(e, {"ops", "signaling", "pending"}), peer'[e].signaling = "stable",
              NEW op \in Operation, op.op = "setRemoteOffer", op.desc = Front(e).desc,
              peer'[e].ops = Append(Rest(e), op)
       PROVE  Negotiating'
  <2>1. Acts(e, "rollback", "setRemoteOffer", Nothing, Nothing)
    <3>1. ChainMoves(e, "rollback", op.op) BY <1>0, <1>1, <1>12, ChainReplaced
    <3>2. QED BY <1>2, <1>6, <1>12, <3>1 DEF Acts
  <2>2. Says(e, "setRemoteOffer", id, Nothing, id)
    <3>1. ChainSays(e, op.op, id) BY <1>0, <1>3, <1>12, SaysReplaced
    <3>2. QED BY <1>2, <1>7, <1>12, <3>1 DEF Says
  <2>3. InOps(peer'[e].ops, Replying) => InOps(peer[e].ops, Replying)
    BY <2>1, ActsIs DEF Moves, Replying
  <2>4. RemoteOf(e)'
    <3>1. Sure(o)' => Sure(o) BY <1>2, SureKept
    <3>2. QED BY <1>5, <1>12, <2>3, <3>1 DEF RemoteOf
  <2>5. Written(peer'[e].ops) BY <1>8, <1>12, WrittenChained
  <2>6. e = Host => ~InOps(peer'[e].ops, Rolling)
    <3>1. Sure(o) => OnceIn(peer[e].ops, Rolling) BY <1>5, Parts
    <3>2. QED BY <1>10, <2>1, <3>1, ActsIs DEF Moves, Rolling
  <2>7. Sure(o) /\ peer[o].signaling = "local" => id = peer[o].pending.id
    BY <1>3, <1>4, AnsweringFits
  <2>8. Sure(o) => ~InOps(peer'[e].ops, Creating) BY <1>5, <2>3, Parts
  <2>9. "setRemoteOffer" \in Answering BY DEF Answering
  <2> HIDE DEF id
  <2>10. QED
    BY <1>1, <1>2, <1>4, <1>12, <2>1, <2>2, <2>4, <2>5, <2>6, <2>7, <2>8, <2>9,
       AnsweringKeeps DEF Nothing
<1>13. QED BY <1>1, <1>11, <1>12

LEMMA SetRemoteOfferKeeps ==
  ASSUME LinkInv, NEW e \in Ends, SetRemoteOffer(e)
  PROVE  Negotiating'
<1> DEFINE id == Front(e).desc.id
           o == Other(e)
<1>0. NegotiationTypeOK BY DEF LinkInv
<1>1. /\ Runs(e, "setRemoteOffer") /\ Turns(e) /\ UNCHANGED <<net, hiccups>>
      /\ Same(e, {"ops", "signaling", "pending"})
      /\ peer'[e].signaling = "remote" /\ peer'[e].pending = Front(e).desc
      /\ \E op \in Operation : op.op = "createAnswer" /\ peer'[e].ops = Append(Rest(e), op)
  BY <1>0, SetRemoteOfferDoes
<1>2. PICK op \in Operation : op.op = "createAnswer" /\ peer'[e].ops = Append(Rest(e), op)
  BY <1>1
<1>3. Ticks /\ peer'[o] = peer[o] BY <1>1, TicksSame DEF Turns
<1>4. peer[e].ops # <<>> /\ Front(e).op = "setRemoteOffer" BY <1>1 DEF Runs, Front
<1>5. /\ "setRemoteOffer" \in Answering /\ "setRemoteOffer" \notin Rolling
      /\ "setRemoteOffer" \in Bearing /\ "createAnswer" \in Answering
      /\ "createAnswer" \notin Bearing /\ "createAnswer" \in Replying
      /\ "createAnswer" \notin Applying
  BY DEF Answering, Rolling, Bearing, Replying, Applying
<1>6. Sure(o) => ~InOps(peer[e].ops, Rolling) BY <1>1, <1>5, AnsweringIs
<1>7. Acts(e, "setRemoteOffer", "createAnswer", Nothing, Nothing)
  <2>1. ChainMoves(e, "setRemoteOffer", op.op) BY <1>0, <1>1, <1>2, ChainReplaced
  <2>2. BoxMoves(e, Nothing, Nothing) /\ BoxMoves(o, Nothing, Nothing) BY <1>1, BoxesStay
  <2>3. QED BY <1>2, <1>3, <2>1, <2>2 DEF Acts
<1>8. Says(e, "createAnswer", id, Nothing, id)
  <2>1. ChainSays(e, op.op, id) BY <1>0, <1>2, <1>4, <1>5, SaysReplaced
  <2>2. BoxSays(e, Nothing, id) /\ BoxSays(o, Nothing, id) BY <1>1, SaysNothing
  <2>3. QED BY <1>2, <1>3, <2>1, <2>2 DEF Says
<1>9. RemoteOf(e)'
  <2>1. InOps(peer'[e].ops, Replying) BY <1>5, <1>7, ActsIs DEF Moves
  <2>2. QED BY <1>1, <2>1 DEF RemoteOf
<1>10. Written(peer'[e].ops) BY <1>2, <1>4, WrittenRest, WrittenChained
<1>11. e = Host => ~InOps(peer'[e].ops, Rolling)
  BY <1>6, <1>7, ActsIs, EndsAre DEF Moves, Rolling, Sure
<1>12. Sure(o) /\ peer[o].signaling = "local" => id = peer[o].pending.id
  BY <1>4, <1>5, AnsweringFits
<1>13. peer'[e].pending.id = id BY <1>1
<1> HIDE DEF id
<1>14. QED
  BY <1>1, <1>3, <1>5, <1>7, <1>8, <1>9, <1>10, <1>11, <1>12, <1>13, AnsweringKeeps
  DEF Nothing

LEMMA CreateAnswerKeeps ==
  ASSUME LinkInv, NEW e \in Ends, CreateAnswer(e)
  PROVE  Negotiating'
<1> DEFINE id == peer[e].pending.id
           o == Other(e)
<1>0. NegotiationTypeOK /\ RemoteOf(e) BY DEF LinkInv, Negotiating, RemoteInv
<1>1. /\ Runs(e, "createAnswer") /\ Turns(e) /\ UNCHANGED <<net, hiccups>> /\ Same(e, {"ops"})
      /\ \/ peer[e].signaling # "remote" /\ peer'[e].ops = Rest(e)
         \/ /\ peer[e].signaling = "remote"
            /\ \E op \in Operation :
                 /\ op.op = "setAnswer" /\ op.desc.type = "answer"
                 /\ op.desc.id = peer[e].pending.id
                 /\ peer'[e].ops = Append(Rest(e), op)
  BY <1>0, CreateAnswerDoes
<1>2. Ticks /\ peer'[o] = peer[o] BY <1>1, TicksSame DEF Turns
<1>3. peer[e].ops # <<>> BY <1>1 DEF Runs
<1>4. /\ "createAnswer" \in Answering /\ "createAnswer" \in Replying
      /\ "createAnswer" \in Creating /\ "createAnswer" \notin Rolling
      /\ "setAnswer" \in Answering /\ "setAnswer" \in Replying
      /\ "setAnswer" \notin Rolling /\ "setAnswer" \notin Creating
      /\ Nothing \notin Replying /\ Nothing \notin Bearing /\ Nothing \notin Creating
  BY DEF Answering, Replying, Creating, Rolling, Bearing, Nothing
<1>5. /\ InOps(peer[e].ops, Replying) /\ InOps(peer[e].ops, Creating)
      /\ e = Newcomer => peer[e].signaling # "local"
      /\ Sure(o) => ~InOps(peer[e].ops, Rolling) /\ OnceIn(peer[e].ops, Answering)
  BY <1>1, <1>4, AnsweringIs
<1>6. BoxMoves(e, Nothing, Nothing) /\ BoxMoves(o, Nothing, Nothing) BY <1>1, BoxesStay
<1>7. BoxSays(e, Nothing, id) /\ BoxSays(o, Nothing, id) BY <1>1, SaysNothing
<1>8. Written(Rest(e)) /\ Rest(e) \in Seq(Operation) BY <1>3, WrittenRest
<1>9. (e = Newcomer \/ e = Host) /\ Other(Host) = Newcomer BY EndsAre DEF Ends
<1>10. Sure(o) => peer[e].signaling = "remote" BY <1>0, <1>5 DEF RemoteOf
<1>11. Same(e, {"ops", "signaling", "pending"}) BY <1>1 DEF Same, Like
<1>12. peer'[e].signaling = peer[e].signaling /\ peer'[e].pending = peer[e].pending
  BY <1>1, SameIs
<1>13. ASSUME peer[e].signaling # "remote", peer'[e].ops = Rest(e) PROVE Negotiating'
  <2>1. Acts(e, "createAnswer", Nothing, Nothing, Nothing)
    BY <1>0, <1>1, <1>2, <1>6, <1>13, ChainTaken DEF Acts
  <2>2. Says(e, Nothing, id, Nothing, id)
    BY <1>0, <1>2, <1>3, <1>7, <1>13, SaysTaken DEF Says
  <2>3. ~Sure(o) BY <1>10, <1>13
  <2>4. e = Newcomer BY <1>9, <2>3 DEF Sure
  <2>5. RemoteOf(e)'
    <3>1. Sure(o)' => Sure(o) BY <1>2, SureKept
    <3>2. QED BY <1>12, <1>13, <2>3, <3>1 DEF RemoteOf
  <2> HIDE DEF id
  <2>6. QED
    BY <1>1, <1>2, <1>4, <1>5, <1>8, <1>11, <1>12, <1>13, <2>1, <2>2, <2>3, <2>4, <2>5,
       EndsAre, AnsweringKeeps DEF Nothing
<1>14. ASSUME peer[e].signaling = "remote", NEW op \in Operation,
              op.op = "setAnswer", op.desc.type = "answer", op.desc.id = id,
              peer'[e].ops = Append(Rest(e), op)
       PROVE  Negotiating'
  <2>1. Acts(e, "createAnswer", "setAnswer", Nothing, Nothing)
    <3>1. ChainMoves(e, "createAnswer", op.op) BY <1>0, <1>1, <1>14, ChainReplaced
    <3>2. QED BY <1>2, <1>6, <1>14, <3>1 DEF Acts
  <2>2. Says(e, "setAnswer", id, Nothing, id)
    <3>1. ChainSays(e, op.op, id) BY <1>0, <1>3, <1>14, SaysReplaced
    <3>2. QED BY <1>2, <1>7, <1>14, <3>1 DEF Says
  <2>3. RemoteOf(e)'
    <3>1. InOps(peer'[e].ops, Replying) BY <1>4, <2>1, ActsIs DEF Moves
    <3>2. QED BY <1>12, <1>14, <3>1 DEF RemoteOf
  <2>4. Written(peer'[e].ops) BY <1>8, <1>14, WrittenChained
  <2>5. e = Host => ~InOps(peer'[e].ops, Rolling)
    BY <1>5, <1>9, <2>1, ActsIs DEF Moves, Rolling, Sure
  <2>6. Sure(o) /\ peer[o].signaling = "local" => id = peer[o].pending.id
    BY <1>5, AnsweringFits
  <2>7. peer'[e].pending.id = id BY <1>12
  <2> HIDE DEF id
  <2>8. QED
    BY <1>1, <1>2, <1>4, <1>11, <1>12, <1>14, <2>1, <2>2, <2>3, <2>4, <2>5, <2>6, <2>7,
       AnsweringKeeps DEF Nothing
<1>15. QED BY <1>1, <1>13, <1>14

LEMMA SetAnswerKeeps ==
  ASSUME LinkInv, NEW e \in Ends, SetAnswer(e)
  PROVE  Negotiating'
<1> DEFINE id == Front(e).desc.id
           o == Other(e)
<1>0. NegotiationTypeOK /\ RemoteOf(e) BY DEF LinkInv, Negotiating, RemoteInv
<1>1. /\ Runs(e, "setAnswer") /\ Turns(e) /\ UNCHANGED hiccups /\ peer'[e].ops = Rest(e)
      /\ \/ peer[e].signaling # "remote" /\ Same(e, {"ops"}) /\ net' = net
         \/ /\ peer[e].signaling = "remote" /\ Same(e, {"ops", "signaling", "pending"})
            /\ peer'[e].signaling = "stable"
            /\ \E m \in Message, way \in Ways :
                 /\ m.type = Front(e).desc.type /\ m.id = Front(e).desc.id
                 /\ Mails(e, way, m)
  BY <1>0, SetAnswerDoes
<1>2. Ticks /\ peer'[o] = peer[o] BY <1>1, TicksSame DEF Turns
<1>3. peer[e].ops # <<>> /\ Front(e).op = "setAnswer" BY <1>1 DEF Runs, Front
<1>4. /\ "setAnswer" \in Answering /\ "setAnswer" \in Replying
      /\ "setAnswer" \in Bearing /\ "setAnswer" \notin Rolling
      /\ Nothing \notin Answering /\ Nothing \notin Bearing /\ Nothing \notin Rolling
  BY DEF Answering, Replying, Rolling, Bearing, Nothing
<1>5. /\ InOps(peer[e].ops, Replying)
      /\ e = Newcomer => peer[e].signaling # "local"
      /\ Sure(o) => ~InOps(peer[e].ops, Rolling) /\ OnceIn(peer[e].ops, Answering)
  BY <1>1, <1>4, AnsweringIs
<1>6. Written(Rest(e)) /\ Front(e).desc.type = "answer" BY <1>3, WrittenRest
<1>7. (e = Newcomer \/ e = Host) /\ Other(Host) = Newcomer BY EndsAre DEF Ends
<1>8. Sure(o) => peer[e].signaling = "remote" BY <1>0, <1>5 DEF RemoteOf
<1>9. Sure(o)' => Sure(o) BY <1>2, SureKept
<1>10. ChainMoves(e, "setAnswer", Nothing) /\ ChainSays(e, Nothing, id)
  BY <1>0, <1>1, <1>3, ChainTaken, SaysTaken
<1>11. /\ Sure(o) => ~InOps(peer'[e].ops, Answering)
       /\ InOps(peer'[e].ops, Rolling) => InOps(peer[e].ops, Rolling)
  BY <1>4, <1>5, <1>10 DEF ChainMoves, Kinds, Moves
<1>12. Sure(o) => ~InOps(peer'[e].ops, Replying) /\ ~InOps(peer'[e].ops, Creating)
  BY <1>11, Parts
<1>13. ASSUME peer[e].signaling # "remote", Same(e, {"ops"}), net' = net PROVE Negotiating'
  <2>1. Acts(e, "setAnswer", Nothing, Nothing, Nothing)
    BY <1>2, <1>10, <1>13, BoxesStay DEF Acts
  <2>2. Says(e, Nothing, id, Nothing, id)
    BY <1>2, <1>10, <1>13, SaysNothing DEF Says
  <2>3. ~Sure(o) BY <1>8, <1>13
  <2>4. e = Newcomer BY <1>7, <2>3 DEF Sure
  <2>5. peer'[e].signaling = peer[e].signaling BY <1>13, SameIs
  <2>6. RemoteOf(e)' BY <1>9, <1>13, <2>3, <2>5 DEF RemoteOf
  <2>7. Same(e, {"ops", "signaling", "pending"}) BY <1>13 DEF Same, Like
  <2> HIDE DEF id
  <2>8. QED
    BY <1>1, <1>2, <1>4, <1>5, <1>6, <2>1, <2>2, <2>3, <2>4, <2>5, <2>6, <2>7,
       EndsAre, AnsweringKeeps DEF Nothing
<1>14. ASSUME peer[e].signaling = "remote", Same(e, {"ops", "signaling", "pending"}),
              peer'[e].signaling = "stable", NEW m \in Message, NEW way \in Ways,
              m.type = Front(e).desc.type, m.id = id, Mails(e, way, m)
       PROVE  Negotiating'
  <2>1. m.type = "answer" BY <1>6, <1>14
  <2>2. Acts(e, "setAnswer", Nothing, Nothing, "answer")
    <3>1. BoxMoves(e, Nothing, Nothing) /\ BoxMoves(o, Nothing, m.type)
      BY <1>0, <1>14, BoxSent
    <3>2. QED BY <1>2, <1>10, <2>1, <3>1 DEF Acts
  <2>3. Says(e, Nothing, id, "answer", id)
    <3>1. BoxSays(e, Nothing, id) /\ BoxSays(o, m.type, id) BY <1>0, <1>14, SaysSent
    <3>2. QED BY <1>2, <1>10, <2>1, <3>1 DEF Says
  <2>4. RemoteOf(e)' BY <1>9, <1>12, <1>14 DEF RemoteOf
  <2>5. Written(peer'[e].ops) BY <1>1, <1>6
  <2>6. e = Host => ~InOps(peer'[e].ops, Rolling) BY <1>5, <1>7, <1>11 DEF Sure
  <2>7. Sure(o) /\ peer[o].signaling = "local" => id = peer[o].pending.id
    BY <1>3, <1>4, AnsweringFits
  <2> HIDE DEF id
  <2>8. QED
    BY <1>1, <1>2, <1>4, <1>12, <1>14, <2>2, <2>3, <2>4, <2>5, <2>6, <2>7,
       AnsweringKeeps DEF Nothing
<1>15. QED BY <1>1, <1>13, <1>14

LEMMA SetRemoteAnswerKeeps ==
  ASSUME LinkInv, NEW e \in Ends, SetRemoteAnswer(e)
  PROVE  Negotiating'
<1> DEFINE o == Other(e)
<1>0. /\ NegotiationTypeOK /\ RemoteOf(e) /\ Beginnings /\ HostInv /\ NewcomerInv
      /\ OneOut(Newcomer)
  BY EndsAre DEF LinkInv, Negotiating, RemoteInv, OneInv, Sure
<1>1. /\ Runs(e, "setRemoteAnswer") /\ Turns(e) /\ UNCHANGED <<net, hiccups>>
      /\ peer'[e].ops = Rest(e)
      /\ \/ peer[e].signaling # "local" /\ Same(e, {"ops"})
         \/ /\ peer[e].signaling = "local" /\ Same(e, {"ops", "signaling", "pending"})
            /\ peer'[e].signaling = "stable"
  BY <1>0, SetRemoteAnswerDoes
<1>2. Ticks /\ peer'[o] = peer[o] BY <1>1, TicksSame DEF Turns
<1>3. peer[e].role # "none" /\ peer[e].ops # <<>> BY <1>0, <1>1, Awake DEF Runs
<1>4. /\ peer'[e].role = peer[e].role /\ peer'[e].making = peer[e].making
      /\ peer'[e].aborted = peer[e].aborted /\ peer'[e].channel = peer[e].channel
      /\ peer'[e].ice = peer[e].ice /\ peer'[e].signaling # "local"
      /\ peer[e].signaling # "local" =>
           /\ peer'[e].pending = peer[e].pending
           /\ peer'[e].signaling = peer[e].signaling
      /\ peer[e].signaling = "local" => peer'[e].signaling = "stable"
  BY <1>1, SameIs
<1>5. /\ Other(Newcomer) = Host /\ Other(Host) = Newcomer /\ (e = Newcomer \/ e = Host)
      /\ Newcomer # Host
  BY EndsAre DEF Ends
<1>6. Acts(e, "setRemoteAnswer", Nothing, Nothing, Nothing)
  BY <1>0, <1>1, <1>2, BoxesStay, ChainTaken DEF Acts
<1>7. Says(e, Nothing, None, Nothing, None)
  BY <1>0, <1>1, <1>2, <1>3, SaysNothing, SaysTaken DEF Says
<1>8. /\ Legal("setRemoteAnswer", Nothing, Nothing, Nothing)
      /\ Fresh(e, "setRemoteAnswer", Nothing)
      /\ Answers("setRemoteAnswer", Nothing, Nothing, Nothing)
  BY DEF Legal, Fresh, Answers, Offering, Answering, Applying, Nothing
<1>9. /\ InOps(peer[e].ops, Applying)
      /\ InOps(peer'[e].ops, Applying) => InOps(peer[e].ops, Applying)
      /\ InOps(peer'[e].ops, Offering) <=> InOps(peer[e].ops, Offering)
      /\ InOps(peer'[e].ops, Answering) <=> InOps(peer[e].ops, Answering)
      /\ InOps(peer'[e].ops, Replying) <=> InOps(peer[e].ops, Replying)
      /\ InOps(peer'[e].ops, Rolling) <=> InOps(peer[e].ops, Rolling)
      /\ OnceIn(peer[e].ops, Offering) => OnceIn(peer'[e].ops, Offering)
      /\ OnceIn(peer[e].ops, Applying) => ~InOps(peer'[e].ops, Applying)
      /\ Before(peer[e].ops, Rolling, Late) => /\ Before(peer'[e].ops, Rolling, Late)
                                               /\ ~InOps(peer[e].ops, Rolling)
      /\ Before(peer[e].ops, Applying, Offering) => Before(peer'[e].ops, Applying, Offering)
  BY <1>6, ActsIs DEF Moves, Orders, Offering, Answering, Applying, Rolling, Replying, Late,
                      Nothing
<1>10. RemoteOf(e)'
  <2>1. Sure(o)' => Sure(o) BY <1>2, SureKept
  <2>2. QED BY <1>0, <1>4, <1>9, <2>1 DEF RemoteOf
<1>11. IceOK' BY <1>2, <1>4, IceKept
<1>12. ASSUME e = Newcomer PROVE NewcomerInv'
  <2>1. peer'[Host] = peer[Host] BY <1>2, <1>5, <1>12
  <2>2. QED
    BY <1>0, <1>1, <1>4, <1>5, <1>9, <1>12, <2>1
    DEF NewcomerInv, OneOut, Prepared, Out, Offered, Considered, Answered, Applied
<1>13. ASSUME e = Host PROVE HostInv'
  BY <1>0, <1>4, <1>9, <1>13 DEF HostInv
<1>14. ASSUME e = Host PROVE SteadyInv'
  <2>1. peer'[Newcomer] = peer[Newcomer] BY <1>2, <1>5, <1>14
  <2>2. ASSUME HostSteady PROVE HostSteady'
    BY <1>1, <1>4, <1>5, <1>9, <1>14, <2>1, <2>2
    DEF HostSteady, Prepared, Out, Offered, Considered, Answered, Applied
  <2>3. QED BY <1>2, <1>11, <2>2, HostSteadyKept
<1>15. ASSUME Sure(o), peer[o].signaling = "local", InOps(peer'[e].ops, Creating)
       PROVE  peer'[e].pending.id = peer[o].pending.id
  <2>1. InOps(peer[e].ops, Replying) BY <1>9, <1>15, Parts
  <2>2. peer[e].signaling = "remote" BY <1>0, <1>15, <2>1 DEF RemoteOf
  <2>3. Nothing \notin Creating BY DEF Creating, Nothing
  <2>4. QED BY <1>4, <1>6, <1>15, <2>2, <2>3, CreatingStays DEF Acts
<1>16. Written(peer'[e].ops) /\ Nothing \notin Bearing
  BY <1>1, <1>3, WrittenRest DEF Bearing, Nothing
<1>17. e = Newcomer => ~peer'[e].aborted BY <1>0, <1>4 DEF Beginnings
<1>18. QED
  BY <1>2, <1>3, <1>4, <1>5, <1>6, <1>7, <1>8, <1>10, <1>11, <1>12, <1>13, <1>14, <1>15,
     <1>16, <1>17, Keeps DEF Nothing

\* A new offer of an end that makes none.
LEMMA StartKeeps ==
  ASSUME LinkInv, NEW e \in Ends, Turns(e), UNCHANGED <<net, hiccups>>,
         peer[e].role # "none", peer[Host].role = "none" => peer'[e].ice = peer[e].ice,
         Same(e, {"ice", "channel", "aborted", "making", "ops"}),
         NEW op \in Operation, op.op = "createOffer", peer'[e].ops = Append(peer[e].ops, op),
         peer'[e].making = TRUE, ~peer'[e].aborted, IceOK', ~Prepared(e),
         e = Newcomer => /\ peer[e].signaling = "stable" /\ peer[e].ops = <<>>
                         /\ ~peer[e].making,
         e = Host => /\ peer'[e].channel = "open"
                     /\ peer[e].signaling = "local" => InOps(peer[e].ops, Rolling),
         Sure(e) => ~Out(e) /\ ~Applied(e)
  PROVE  Negotiating'
<1> DEFINE o == Other(e)
<1>0. /\ NegotiationTypeOK /\ Beginnings /\ HostInv /\ NewcomerInv
      /\ OneOut(Newcomer)
  BY EndsAre DEF LinkInv, Negotiating, OneInv, Sure
<1>1. Ticks /\ peer'[o] = peer[o] BY TicksSame DEF Turns
<1>2. /\ peer'[e].role = peer[e].role /\ peer'[e].signaling = peer[e].signaling
      /\ peer'[e].pending = peer[e].pending
  BY SameIs
<1>3. /\ Other(Newcomer) = Host /\ Other(Host) = Newcomer /\ (e = Newcomer \/ e = Host)
      /\ Newcomer # Host
  BY EndsAre DEF Ends
<1>4. Acts(e, Nothing, "createOffer", Nothing, Nothing)
  <2>1. ChainMoves(e, Nothing, op.op) BY <1>0, ChainAdded
  <2>2. QED BY <1>1, <2>1, BoxesStay DEF Acts
<1>5. "createOffer" \notin Bearing /\ "createOffer" \notin Applying
      /\ "createOffer" \notin Creating /\ "createOffer" \notin Replying
      /\ Nothing \notin Replying
  BY DEF Bearing, Applying, Creating, Replying, Nothing
<1>6. Says(e, "createOffer", None, Nothing, None)
  <2>1. ChainSays(e, op.op, None) BY <1>0, <1>5, SaysChained
  <2>2. QED BY <1>1, <2>1, SaysNothing DEF Says
<1>7. /\ Legal(Nothing, "createOffer", Nothing, Nothing)
      /\ Sure(e) => Fresh(e, Nothing, "createOffer")
      /\ Answers(Nothing, "createOffer", Nothing, Nothing)
  BY DEF Legal, Fresh, Answers, Offering, Answering, Applying, Nothing
<1>8. RemoteOf(e)' BY <1>1, <1>2, <1>4, <1>5, RemoteStays DEF Acts
<1>9. /\ InOps(peer'[e].ops, Applying) <=> InOps(peer[e].ops, Applying)
      /\ InOps(peer'[e].ops, Offering)
      /\ InOps(peer'[e].ops, Answering) <=> InOps(peer[e].ops, Answering)
      /\ InOps(peer'[e].ops, Rolling) <=> InOps(peer[e].ops, Rolling)
      /\ ~InOps(peer[e].ops, Offering) => OnceIn(peer'[e].ops, Offering)
      /\ Before(peer[e].ops, Rolling, Late) => Before(peer'[e].ops, Rolling, Late)
      /\ Before(peer[e].ops, Applying, Offering) => Before(peer'[e].ops, Applying, Offering)
  <2>1. ~InOps(peer[e].ops, Offering) => OnceIn(peer[e].ops, Offering)
    BY DEF InOps, OnceIn
  <2>2. "createOffer" \in Offering /\ "createOffer" \notin Answering
        /\ "createOffer" \notin Rolling /\ "createOffer" \notin Applying
        /\ Nothing \notin Answering /\ Nothing \notin Rolling /\ Nothing \notin Applying
    BY DEF Offering, Answering, Rolling, Applying, Nothing
  <2>3. /\ InOps(peer'[e].ops, Applying) <=> InOps(peer[e].ops, Applying)
        /\ InOps(peer'[e].ops, Answering) <=> InOps(peer[e].ops, Answering)
        /\ InOps(peer'[e].ops, Rolling) <=> InOps(peer[e].ops, Rolling)
    BY <1>4, <2>2, ActsIs DEF Moves
  <2>4. /\ InOps(peer'[e].ops, Offering)
        /\ ~InOps(peer[e].ops, Offering) => OnceIn(peer'[e].ops, Offering)
    BY <1>4, <2>1, <2>2, ActsIs DEF Moves
  <2>5. QED BY <1>4, <2>2, <2>3, <2>4, ActsIs DEF Orders
<1>10. ~InOps(peer[e].ops, Offering) /\ Before(peer[e].ops, Applying, Offering)
  BY DEF Prepared, InOps, Before
<1>11. ASSUME e = Newcomer PROVE NewcomerInv'
  <2>1. peer'[Host] = peer[Host] BY <1>1, <1>3, <1>11
  <2>2. ~InOps(peer[e].ops, Answering) BY <1>11 DEF InOps
  <2>3. QED
    BY <1>0, <1>2, <1>3, <1>9, <1>11, <2>1, <2>2
    DEF NewcomerInv, Prepared, Out, Offered, Considered, Answered, Applied
<1>12. ASSUME e = Host PROVE HostInv'
  BY <1>0, <1>2, <1>9, <1>10, <1>12 DEF HostInv
<1>13. ASSUME e = Host PROVE SteadyInv'
  <2>1. HostSteady' BY <1>13 DEF HostSteady
  <2>2. QED BY <1>1, <2>1, HostSteadyKept
<1>14. Sure(e) /\ peer'[e].signaling = "local" => Fits(e)'
  BY <1>2, <1>5, <1>6, OwnFitsStays DEF Nothing
<1>15. ASSUME Sure(o), peer[o].signaling = "local", InOps(peer'[e].ops, Creating)
       PROVE  peer'[e].pending.id = peer[o].pending.id
  BY <1>2, <1>4, <1>5, <1>15, CreatingStays DEF Acts
<1>16. Written(peer'[e].ops)
  <2>1. Written(peer[e].ops) BY DEF LinkInv, Negotiating, WrittenInv
  <2>2. peer[e].ops \in Seq(Operation) BY <1>0 DEF NegotiationTypeOK, Peer
  <2>3. QED BY <2>1, <2>2, WrittenChained
<1>17. QED
  BY <1>1, <1>2, <1>3, <1>4, <1>5, <1>6, <1>7, <1>8, <1>11, <1>12, <1>13, <1>14, <1>15,
     <1>16, Keeps DEF Nothing

LEMMA OnRemoteOfferKeeps ==
  ASSUME LinkInv, NEW e \in Ends, NEW way \in Ways, onRemoteOffer(e, way)
  PROVE  Negotiating'
<1> DEFINE o == Other(e)
           id == Head(net[e][way]).id
<1>0. /\ NegotiationTypeOK /\ Beginnings /\ HostInv /\ NewcomerInv /\ RemoteOf(e)
      /\ OneOut(Newcomer)
  BY EndsAre DEF LinkInv, Negotiating, RemoteInv, OneInv, Sure
<1>1. /\ Turns(e) /\ UNCHANGED hiccups /\ peer[e].role # "none"
      /\ Takes(e, way) /\ Head(net[e][way]).type = "offer"
      /\ \/ /\ peer[e].role = "impolite" /\ Colliding(peer[e])
            /\ Same(e, {})
         \/ /\ peer[e].role = "polite" /\ peer[e].making /\ peer[e].signaling # "stable"
            /\ Same(e, {"making", "aborted", "ops"})
            /\ peer'[e].making = FALSE /\ peer'[e].aborted = TRUE
            /\ \E op \in Operation :
                 /\ op.op = "rollback" /\ op.desc = Head(net[e][way])
                 /\ peer'[e].ops = Append(peer[e].ops, op)
         \/ /\ ~(peer[e].role = "impolite" /\ Colliding(peer[e]))
            /\ Same(e, {"ops"})
            /\ \E op \in Operation :
                 /\ op.op = "setRemoteOffer" /\ op.desc = Head(net[e][way])
                 /\ peer'[e].ops = Append(peer[e].ops, op)
  BY <1>0, OnRemoteOfferDoes
<1>2. Ticks /\ peer'[o] = peer[o] BY <1>1, TicksSame DEF Turns
<1>3. /\ Other(Newcomer) = Host /\ Other(Host) = Newcomer /\ (e = Newcomer \/ e = Host)
      /\ Newcomer # Host /\ o \in Ends /\ Other(o) = e
  BY EndsAre DEF Ends
<1>4. BoxMoves(e, "offer", Nothing) /\ BoxMoves(o, Nothing, Nothing)
  BY <1>0, <1>1, BoxTaken
<1>5. \A i : BoxSays(e, Nothing, i) /\ BoxSays(o, Nothing, i) BY <1>0, <1>1, SaysReceived
<1>6. Mail(net[e], "offer")
  BY <1>4 DEF BoxMoves, Types, MailMoves
<1>7. Sure(o) /\ peer[o].signaling = "local" => id = peer[o].pending.id
  <2>0. FitsInv /\ o \in Ends BY <1>3 DEF LinkInv, Negotiating
  <2> HIDE DEF o
  <2>1. Sure(o) /\ peer[o].signaling = "local" => Fits(o) BY <2>0 DEF FitsInv
  <2> USE DEF o
  <2>2. Fits(o) => MailBears(net[e], "offer", peer[o].pending.id) BY <1>3 DEF Fits
  <2>3. Takes(e, way) /\ Head(net[e][way]).type = "offer" BY <1>1
  <2>4. \A j : MailBears(net[e], "offer", j) => id = j BY <1>0, <2>3, HeadBears
  <2>5. QED BY <2>1, <2>2, <2>4
<1>8. Written(peer[e].ops) /\ peer[e].ops \in Seq(Operation)
  BY <1>0 DEF LinkInv, Negotiating, WrittenInv, NegotiationTypeOK, Peer
<1>9. /\ "offer" # "connected" /\ Nothing # "connected" /\ "offer" # "answer"
      /\ "rollback" \in Answering /\ "setRemoteOffer" \in Answering
      /\ "rollback" \notin Replying /\ "setRemoteOffer" \notin Replying
      /\ "rollback" \notin Applying /\ "setRemoteOffer" \notin Applying
      /\ "rollback" \notin Creating /\ "setRemoteOffer" \notin Creating
      /\ "rollback" \notin Offering /\ "setRemoteOffer" \notin Offering
      /\ "rollback" \in Rolling /\ "setRemoteOffer" \notin Rolling /\ "rollback" \notin Late
      /\ Nothing \notin Offering /\ Nothing \notin Answering /\ Nothing \notin Applying
      /\ Nothing \notin Rolling /\ Nothing \notin Replying
  BY DEF Nothing, Answering, Replying, Applying, Creating, Offering, Rolling, Late
<1>10. ASSUME Same(e, {}), peer[e].role = "impolite" PROVE Negotiating'
  <2>1. /\ Still(e) /\ peer'[e].role = peer[e].role /\ peer'[e].channel = peer[e].channel
        /\ peer'[e].ice = peer[e].ice /\ peer'[e].ops = peer[e].ops
        /\ peer'[e].aborted = peer[e].aborted
    BY <1>10, SameIs DEF Still
  <2>2. e = Newcomer BY <1>0, <1>3, <1>10 DEF Beginnings
  <2>3. Acts(e, Nothing, Nothing, "offer", Nothing) BY <1>2, <1>4, <2>1, ChainStays DEF Acts
  <2>4. Says(e, Nothing, None, Nothing, None) BY <1>2, <1>5, <2>1, SaysSame DEF Says
  <2>5. IceOK' BY <1>2, <2>1, IceKept
  <2>6. Beginnings' BY <1>0, <1>1, <1>9, <2>1, <2>3, BeginningsKept DEF Beginnings
  <2>7. QED BY <1>2, <1>9, <2>1, <2>2, <2>3, <2>4, <2>5, <2>6, IdleKeeps DEF IceOK, Nothing
<1>11. ASSUME peer[e].role = "polite", peer[e].making, peer[e].signaling # "stable",
              Same(e, {"making", "aborted", "ops"}),
              peer'[e].making = FALSE, peer'[e].aborted = TRUE,
              NEW op \in Operation, op.op = "rollback", op.desc = Head(net[e][way]),
              peer'[e].ops = Append(peer[e].ops, op)
       PROVE  Negotiating'
  <2>1. /\ peer'[e].role = peer[e].role /\ peer'[e].channel = peer[e].channel
        /\ peer'[e].ice = peer[e].ice /\ peer'[e].signaling = peer[e].signaling
        /\ peer'[e].pending = peer[e].pending
    BY <1>11, SameIs
  <2>2. e = Host BY <1>0, <1>3, <1>11 DEF Beginnings
  <2>3. Acts(e, Nothing, "rollback", "offer", Nothing)
    <3>1. ChainMoves(e, Nothing, op.op) BY <1>0, <1>11, ChainAdded
    <3>2. QED BY <1>2, <1>4, <1>11, <3>1 DEF Acts
  <2>4. Says(e, "rollback", id, Nothing, id)
    <3>1. ChainSays(e, op.op, id) BY <1>0, <1>11, SaysChained
    <3>2. QED BY <1>2, <1>5, <1>11, <3>1 DEF Says
  <2>5. /\ Legal(Nothing, "rollback", "offer", Nothing) /\ Fresh(e, Nothing, "rollback")
        /\ Answers(Nothing, "rollback", "offer", Nothing)
    BY <1>9 DEF Legal, Fresh, Answers, Nothing
  <2>6. RemoteOf(e)' BY <1>2, <1>9, <2>1, <2>3, RemoteStays DEF Acts
  <2>7. IceOK' BY <1>2, <2>1, IceKept
  <2>8. ~InOps(peer[e].ops, Answering)
    BY <1>0, <1>3, <1>6, <2>2 DEF OneOut, Offered, Considered
  <2>9. ~InOps(peer[e].ops, Replying) /\ ~InOps(peer[e].ops, Rolling) BY <2>8, Parts
  <2>10. peer[e].signaling = "local"
    <3>1. peer[e].signaling \in {"stable", "local", "remote"}
      BY <1>0 DEF NegotiationTypeOK, Peer
    <3>2. QED BY <1>0, <1>11, <2>9, <3>1 DEF RemoteOf
  <2>11. /\ ~InOps(peer[e].ops, Offering) /\ ~InOps(peer[e].ops, Applying)
         /\ peer[e].channel = "open"
    BY <1>0, <1>11, <2>2, <2>9, <2>10 DEF HostInv
  <2>12. ~InOps(peer[e].ops, Late) BY <2>11 DEF InOps, Late, Offering, Applying
  <2>13. HostInv'
    <3>1. ~InOps(peer'[e].ops, Offering) /\ InOps(peer'[e].ops, Rolling)
      BY <1>9, <2>3, <2>11, ActsIs DEF Moves
    <3>2. OnceIn(peer'[e].ops, Offering) BY <3>1 DEF InOps, OnceIn
    <3>3. Before(peer'[e].ops, Rolling, Late)
      BY <1>0, <1>9, <2>2, <2>3, <2>12, ActsIs DEF Orders, HostInv
    <3>4. QED BY <1>11, <2>1, <2>2, <2>10, <2>11, <3>1, <3>2, <3>3 DEF HostInv
  <2>14. SteadyInv'
    <3>1. HostSteady' BY <1>11, <2>1, <2>2, <2>11 DEF HostSteady
    <3>2. QED BY <1>2, <2>7, <3>1, HostSteadyKept
  <2>15. Sure(e) /\ peer'[e].signaling = "local" => Fits(e)'
    BY <1>9, <2>1, <2>4, OwnFitsStays DEF Nothing
  <2>16. ASSUME Sure(o), peer[o].signaling = "local", InOps(peer'[e].ops, Creating)
         PROVE  peer'[e].pending.id = peer[o].pending.id
    BY <1>9, <2>1, <2>3, <2>16, CreatingStays DEF Acts
  <2>17. Written(peer'[e].ops) BY <1>8, <1>11, WrittenChained
  <2> HIDE DEF id
  <2>18. QED
    BY <1>1, <1>2, <1>3, <1>7, <1>9, <2>1, <2>2, <2>3, <2>4, <2>5, <2>6, <2>13, <2>14,
       <2>15, <2>16, <2>17, Keeps DEF Nothing
<1>12. ASSUME ~(peer[e].role = "impolite" /\ Colliding(peer[e])), Same(e, {"ops"}),
              NEW op \in Operation, op.op = "setRemoteOffer", op.desc = Head(net[e][way]),
              peer'[e].ops = Append(peer[e].ops, op)
       PROVE  Negotiating'
  <2>1. /\ peer'[e].role = peer[e].role /\ peer'[e].channel = peer[e].channel
        /\ peer'[e].ice = peer[e].ice /\ peer'[e].signaling = peer[e].signaling
        /\ peer'[e].pending = peer[e].pending /\ peer'[e].making = peer[e].making
        /\ peer'[e].aborted = peer[e].aborted
    BY <1>12, SameIs
  <2>2. Acts(e, Nothing, "setRemoteOffer", "offer", Nothing)
    <3>1. ChainMoves(e, Nothing, op.op) BY <1>0, <1>12, ChainAdded
    <3>2. QED BY <1>2, <1>4, <1>12, <3>1 DEF Acts
  <2>3. Says(e, "setRemoteOffer", id, Nothing, id)
    <3>1. ChainSays(e, op.op, id) BY <1>0, <1>12, SaysChained
    <3>2. QED BY <1>2, <1>5, <1>12, <3>1 DEF Says
  <2>4. /\ Legal(Nothing, "setRemoteOffer", "offer", Nothing)
        /\ Fresh(e, Nothing, "setRemoteOffer")
        /\ Answers(Nothing, "setRemoteOffer", "offer", Nothing)
    BY <1>9 DEF Legal, Fresh, Answers, Nothing
  <2>5. RemoteOf(e)' BY <1>2, <1>9, <2>1, <2>2, RemoteStays DEF Acts
  <2>6. IceOK' BY <1>2, <2>1, IceKept
  <2>7. /\ InOps(peer'[e].ops, Offering) <=> InOps(peer[e].ops, Offering)
        /\ InOps(peer'[e].ops, Applying) <=> InOps(peer[e].ops, Applying)
        /\ InOps(peer'[e].ops, Rolling) <=> InOps(peer[e].ops, Rolling)
        /\ OnceIn(peer[e].ops, Offering) => OnceIn(peer'[e].ops, Offering)
    BY <1>9, <2>2, ActsIs DEF Moves
  <2>8. /\ Before(peer[e].ops, Rolling, Late) => Before(peer'[e].ops, Rolling, Late)
        /\ Before(peer[e].ops, Applying, Offering)
             => Before(peer'[e].ops, Applying, Offering)
    BY <1>9, <2>2, ActsIs DEF Orders
  <2>9. /\ Mail(net'[e], "answer") <=> Mail(net[e], "answer")
        /\ Mail(net'[o], "offer") <=> Mail(net[o], "offer")
    BY <2>2, ActsIs DEF MailMoves, Nothing
  <2>10. ASSUME e = Host PROVE HostInv'
    BY <1>0, <2>1, <2>7, <2>8, <2>10 DEF HostInv
  <2>11. ASSUME e = Host PROVE SteadyInv'
    <3>1. peer'[Newcomer] = peer[Newcomer] BY <1>2, <1>3, <2>11
    <3>2. ASSUME HostSteady PROVE HostSteady'
      BY <1>3, <2>1, <2>7, <2>9, <2>11, <3>1, <3>2
      DEF HostSteady, Prepared, Out, Offered, Considered, Answered, Applied
    <3>3. QED BY <1>2, <2>6, <3>2, HostSteadyKept
  <2>12. ASSUME e = Newcomer PROVE NewcomerInv'
    <3>1. peer'[Host] = peer[Host] BY <1>2, <1>3, <2>12
    <3>2. ~peer[e].making /\ peer[e].signaling = "stable"
      BY <1>0, <1>12, <2>12 DEF Beginnings, Colliding
    <3>3. QED
      BY <1>0, <1>3, <2>1, <2>7, <2>9, <2>12, <3>1, <3>2
      DEF NewcomerInv, Prepared, Out, Offered, Considered, Answered, Applied
  <2>13. Sure(e) /\ peer'[e].signaling = "local" => Fits(e)'
    BY <1>9, <2>1, <2>3, OwnFitsStays DEF Nothing
  <2>14. ASSUME Sure(o), peer[o].signaling = "local", InOps(peer'[e].ops, Creating)
         PROVE  peer'[e].pending.id = peer[o].pending.id
    BY <1>9, <2>1, <2>2, <2>14, CreatingStays DEF Acts
  <2>15. Written(peer'[e].ops) BY <1>8, <1>12, WrittenChained
  <2>16. e = Newcomer => ~peer'[e].aborted BY <1>0, <2>1 DEF Beginnings
  <2> HIDE DEF id
  <2>17. QED
    BY <1>1, <1>2, <1>3, <1>7, <1>9, <2>1, <2>2, <2>3, <2>4, <2>5, <2>6, <2>10, <2>11,
       <2>12, <2>13, <2>14, <2>15, <2>16, Keeps DEF Nothing
<1>13. QED BY <1>1, <1>10, <1>11, <1>12

LEMMA OnRemoteAnswerKeeps ==
  ASSUME LinkInv, NEW e \in Ends, NEW way \in Ways, onRemoteAnswer(e, way)
  PROVE  Negotiating'
<1> DEFINE o == Other(e)
           id == Head(net[e][way]).id
<1>0. /\ NegotiationTypeOK /\ Beginnings /\ HostInv /\ NewcomerInv /\ RemoteOf(e)
      /\ OneOut(Newcomer)
  BY EndsAre DEF LinkInv, Negotiating, RemoteInv, OneInv, Sure
<1>1. /\ Turns(e) /\ UNCHANGED hiccups /\ peer[e].role # "none"
      /\ Takes(e, way) /\ Head(net[e][way]).type = "answer"
      /\ \/ peer[e].signaling = "stable" /\ Same(e, {})
         \/ /\ peer[e].signaling # "stable" /\ Same(e, {"making", "ops"})
            /\ peer'[e].making = FALSE
            /\ \E op \in Operation :
                 /\ op.op = "setRemoteAnswer" /\ op.desc = Head(net[e][way])
                 /\ peer'[e].ops = Append(peer[e].ops, op)
  BY <1>0, OnRemoteAnswerDoes
<1>2. Ticks /\ peer'[o] = peer[o] BY <1>1, TicksSame DEF Turns
<1>3. /\ Other(Newcomer) = Host /\ Other(Host) = Newcomer /\ (e = Newcomer \/ e = Host)
      /\ Newcomer # Host /\ o \in Ends /\ Other(o) = e
  BY EndsAre DEF Ends
<1>4. BoxMoves(e, "answer", Nothing) /\ BoxMoves(o, Nothing, Nothing)
  BY <1>0, <1>1, BoxTaken
<1>5. \A i : BoxSays(e, Nothing, i) /\ BoxSays(o, Nothing, i) BY <1>0, <1>1, SaysReceived
<1>6. Answered(e) BY <1>4 DEF BoxMoves, Types, MailMoves, Answered
<1>7. Sure(e) /\ peer[e].signaling = "local" => id = peer[e].pending.id /\ Fits(e)
  <2>1. Sure(e) /\ peer[e].signaling = "local" => Fits(e)
    BY DEF LinkInv, Negotiating, FitsInv
  <2>2. Fits(e) => MailBears(net[e], "answer", peer[e].pending.id) BY DEF Fits
  <2>3. Takes(e, way) /\ Head(net[e][way]).type = "answer" BY <1>1
  <2>4. \A j : MailBears(net[e], "answer", j) => id = j BY <1>0, <2>3, HeadBears
  <2>5. QED BY <2>1, <2>2, <2>4
<1>8. Written(peer[e].ops) /\ peer[e].ops \in Seq(Operation)
  BY <1>0 DEF LinkInv, Negotiating, WrittenInv, NegotiationTypeOK, Peer
<1>9. /\ "answer" # "connected" /\ Nothing # "connected" /\ "offer" # "answer"
      /\ "setRemoteAnswer" \in Applying /\ "setRemoteAnswer" \notin Replying
      /\ "setRemoteAnswer" \notin Creating /\ "setRemoteAnswer" \notin Offering
      /\ "setRemoteAnswer" \notin Rolling /\ "setRemoteAnswer" \notin Answering
      /\ "setRemoteAnswer" \notin Bearing
      /\ Nothing \notin Offering /\ Nothing \notin Answering /\ Nothing \notin Applying
      /\ Nothing \notin Rolling /\ Nothing \notin Replying
  BY DEF Nothing, Answering, Replying, Applying, Creating, Offering, Rolling, Bearing
<1>10. ASSUME Same(e, {}), peer[e].signaling = "stable" PROVE Negotiating'
  <2>1. /\ Still(e) /\ peer'[e].role = peer[e].role /\ peer'[e].channel = peer[e].channel
        /\ peer'[e].ice = peer[e].ice /\ peer'[e].ops = peer[e].ops
        /\ peer'[e].aborted = peer[e].aborted
    BY <1>10, SameIs DEF Still
  <2>2. e = Host BY <1>0, <1>3, <1>6, <1>10 DEF NewcomerInv, Out
  <2>3. Acts(e, Nothing, Nothing, "answer", Nothing)
    BY <1>2, <1>4, <2>1, ChainStays DEF Acts
  <2>4. Says(e, Nothing, None, Nothing, None) BY <1>2, <1>5, <2>1, SaysSame DEF Says
  <2>5. IceOK' BY <1>2, <2>1, IceKept
  <2>6. Beginnings' BY <1>0, <1>1, <1>3, <1>9, <2>1, <2>2, <2>3, BeginningsKept
  <2>7. QED BY <1>2, <1>9, <2>1, <2>2, <2>3, <2>4, <2>5, <2>6, IdleKeeps DEF IceOK, Nothing
<1>12. ASSUME peer[e].signaling # "stable", Same(e, {"making", "ops"}),
              peer'[e].making = FALSE,
              NEW op \in Operation, op.op = "setRemoteAnswer", op.desc = Head(net[e][way]),
              peer'[e].ops = Append(peer[e].ops, op)
       PROVE  Negotiating'
  <2>1. /\ peer'[e].role = peer[e].role /\ peer'[e].channel = peer[e].channel
        /\ peer'[e].ice = peer[e].ice /\ peer'[e].signaling = peer[e].signaling
        /\ peer'[e].pending = peer[e].pending /\ peer'[e].aborted = peer[e].aborted
    BY <1>12, SameIs
  <2>2. Acts(e, Nothing, "setRemoteAnswer", "answer", Nothing)
    <3>1. ChainMoves(e, Nothing, op.op) BY <1>0, <1>12, ChainAdded
    <3>2. QED BY <1>2, <1>4, <1>12, <3>1 DEF Acts
  <2>3. Says(e, "setRemoteAnswer", id, Nothing, id)
    <3>1. ChainSays(e, op.op, id) BY <1>0, <1>12, SaysChained
    <3>2. QED BY <1>2, <1>5, <1>12, <3>1 DEF Says
  <2>4. /\ Legal(Nothing, "setRemoteAnswer", "answer", Nothing)
        /\ Fresh(e, Nothing, "setRemoteAnswer")
        /\ Answers(Nothing, "setRemoteAnswer", "answer", Nothing)
    BY <1>9 DEF Legal, Fresh, Answers, Nothing
  <2>5. RemoteOf(e)' BY <1>2, <1>9, <2>1, <2>2, RemoteStays DEF Acts
  <2>6. IceOK' BY <1>2, <2>1, IceKept
  <2>7. /\ InOps(peer'[e].ops, Offering) <=> InOps(peer[e].ops, Offering)
        /\ InOps(peer'[e].ops, Applying)
        /\ InOps(peer'[e].ops, Answering) <=> InOps(peer[e].ops, Answering)
        /\ InOps(peer'[e].ops, Rolling) <=> InOps(peer[e].ops, Rolling)
        /\ OnceIn(peer[e].ops, Offering) => OnceIn(peer'[e].ops, Offering)
    BY <1>9, <2>2, ActsIs DEF Moves
  <2>8. Before(peer[e].ops, Rolling, Late) => Before(peer'[e].ops, Rolling, Late)
    BY <1>9, <2>2, ActsIs DEF Orders
  <2>9. /\ Mail(net'[o], "offer") <=> Mail(net[o], "offer")
        /\ OnceMail(net[e], "answer") => ~Mail(net'[e], "answer")
    BY <2>2, ActsIs DEF MailMoves, Nothing
  <2>10. ASSUME e = Host PROVE HostInv'
    BY <1>0, <1>12, <2>1, <2>7, <2>8, <2>10 DEF HostInv
  <2>11. ASSUME OneOut(e)
         PROVE  /\ ~Prepared(e) /\ ~Offered(e) /\ ~Considered(e)
                /\ ~Prepared(e)' /\ ~Out(e)'
    <3>1. /\ ~Prepared(e) /\ ~Offered(e) /\ ~Considered(e) /\ OnceMail(net[e], "answer")
      BY <1>6, <2>11 DEF OneOut
    <3>2. ~Considered(e)' BY <1>2, <3>1 DEF Considered
    <3>3. QED BY <2>7, <2>9, <3>1, <3>2 DEF Prepared, Out, Offered, Answered
  <2>12. ASSUME e = Host PROVE SteadyInv'
    <3>2. ASSUME HostSteady, OneOut(Host) PROVE HostSteady'
      <4>1. peer[Host].channel = "open" BY <1>6, <2>12, <3>2 DEF HostSteady, Out
      <4>2. ~Prepared(Host)' /\ ~Out(Host)' BY <2>11, <2>12, <3>2
      <4>3. QED BY <2>1, <2>12, <4>1, <4>2 DEF HostSteady
    <3>3. QED BY <1>2, <2>6, <3>2, HostSteadyKept
  <2>13. ASSUME e = Newcomer PROVE NewcomerInv'
    <3>2. /\ ~Prepared(e)' /\ ~Out(e)' BY <1>0, <2>11, <2>13
    <3>3. peer[e].signaling = "local" /\ ~InOps(peer[e].ops, Answering)
      BY <1>0, <1>6, <2>13 DEF NewcomerInv, Out
    <3>4. QED BY <1>12, <2>1, <2>7, <2>13, <3>2, <3>3 DEF NewcomerInv, Applied
  <2>14. Sure(e) /\ peer'[e].signaling = "local" => Fits(e)'
    BY <1>7, <1>9, <2>1, <2>3, OwnFitsKept DEF Nothing
  <2>15. ASSUME Sure(o), peer[o].signaling = "local", InOps(peer'[e].ops, Creating)
         PROVE  peer'[e].pending.id = peer[o].pending.id
    BY <1>9, <2>1, <2>2, <2>15, CreatingStays DEF Acts
  <2>16. Written(peer'[e].ops) BY <1>8, <1>12, WrittenChained
  <2>17. e = Newcomer => ~peer'[e].aborted BY <1>0, <2>1 DEF Beginnings
  <2> HIDE DEF id
  <2>18. QED
    BY <1>1, <1>2, <1>3, <1>9, <2>1, <2>2, <2>3, <2>4, <2>5, <2>6, <2>10, <2>12, <2>13,
       <2>14, <2>15, <2>16, <2>17, Keeps DEF Nothing
<1>13. QED BY <1>1, <1>10, <1>12

\* Nothing moves but for a message: the step of e is idle.
LEMMA IdleStep ==
  ASSUME LinkInv, Ticks, NEW e \in Ends, Turns(e), Same(e, {"ice", "channel"}),
         NEW took \in {Nothing, "candidate"}, NEW sent \in {Nothing, "candidate"},
         sent # Nothing => took = Nothing,
         BoxMoves(e, took, Nothing), BoxMoves(Other(e), Nothing, sent),
         BoxSays(e, Nothing, None), BoxSays(Other(e), sent, None),
         peer[e].role # "none", peer[Host].role = "none" => peer'[e].ice = peer[e].ice,
         peer'[e].channel = peer[e].channel \/ peer'[e].channel = "open", IceOK'
  PROVE  Negotiating'
<1>1. peer'[Other(e)] = peer[Other(e)] BY DEF Turns
<1>2. Still(e) /\ peer'[e].role = peer[e].role /\ peer'[e].ops = peer[e].ops
      /\ peer'[e].aborted = peer[e].aborted
  BY SameIs DEF Still
<1>3. Acts(e, Nothing, Nothing, took, sent) BY <1>1, <1>2, ChainStays DEF Acts
<1>4. Says(e, Nothing, None, sent, None) BY <1>1, <1>2, SaysSame DEF Says
<1>5. Beginnings BY DEF LinkInv, Negotiating
<1>6. took # "connected" /\ sent # "connected" BY DEF Nothing
<1>7. Beginnings' BY <1>2, <1>3, <1>5, <1>6, BeginningsKept DEF Beginnings
<1>8. QED BY <1>2, <1>3, <1>4, <1>7, IdleKeeps DEF IceOK, Nothing

LEMMA ShareKeeps == ASSUME LinkInv, NEW e \in Ends, Share(e) PROVE Negotiating'
<1>0. NegotiationTypeOK BY DEF LinkInv
<1>1. Turns(e) /\ UNCHANGED <<net, hiccups>> /\ Same(e, {}) /\ peer[e].role # "none"
  BY <1>0, ShareDoes
<1>2. Ticks /\ peer'[Other(e)] = peer[Other(e)] BY <1>1, TicksSame DEF Turns
<1>3. peer'[e].ice = peer[e].ice /\ peer'[e].channel = peer[e].channel BY <1>1, SameIs
<1>4. Same(e, {"ice", "channel"}) BY <1>1 DEF Same, Like
<1>5. IceOK' BY <1>2, <1>3, IceKept
<1>6. BoxMoves(e, Nothing, Nothing) /\ BoxMoves(Other(e), Nothing, Nothing)
  BY <1>1, BoxesStay
<1>7. BoxSays(e, Nothing, None) /\ BoxSays(Other(e), Nothing, None) BY <1>1, SaysNothing
<1>8. QED BY <1>1, <1>2, <1>3, <1>4, <1>5, <1>6, <1>7, IdleStep

LEMMA OnIceCandidateKeeps ==
  ASSUME LinkInv, NEW e \in Ends, OnIceCandidate(e) PROVE Negotiating'
<1>0. NegotiationTypeOK /\ Beginnings BY DEF LinkInv, Negotiating
<1>1. Turns(e) /\ UNCHANGED hiccups /\ Same(e, {}) /\ peer[e].role # "none"
  BY <1>0, OnIceCandidateDoes, Awake
<1>2. PICK m \in Message, way \in Ways : m.type = "candidate" /\ Mails(e, way, m)
  BY <1>0, OnIceCandidateDoes
<1>3. Ticks /\ peer'[Other(e)] = peer[Other(e)] BY <1>1, TicksSame DEF Turns
<1>4. peer'[e].ice = peer[e].ice /\ peer'[e].channel = peer[e].channel BY <1>1, SameIs
<1>5. Same(e, {"ice", "channel"}) BY <1>1 DEF Same, Like
<1>6. IceOK' BY <1>3, <1>4, IceKept
<1>7. BoxMoves(e, Nothing, Nothing) /\ BoxMoves(Other(e), Nothing, "candidate")
  BY <1>0, <1>2, BoxSent
<1>8. BoxSays(e, Nothing, None) /\ BoxSays(Other(e), "candidate", None)
  <2>1. m.type \notin {"offer", "answer"} BY <1>2
  <2>2. QED BY <1>0, <1>2, <2>1, SaysSent
<1>9. QED BY <1>1, <1>3, <1>4, <1>5, <1>6, <1>7, <1>8, IdleStep DEF Nothing

LEMMA OnRemoteIceCandidateKeeps ==
  ASSUME LinkInv, NEW e \in Ends, NEW way \in Ways, onRemoteIceCandidate(e, way)
  PROVE  Negotiating'
<1>0. NegotiationTypeOK BY DEF LinkInv
<1>1. /\ Turns(e) /\ UNCHANGED hiccups /\ Same(e, {}) /\ peer[e].role # "none"
      /\ Takes(e, way) /\ Head(net[e][way]).type = "candidate"
  BY <1>0, OnRemoteIceCandidateDoes
<1>3. Ticks /\ peer'[Other(e)] = peer[Other(e)] BY <1>1, TicksSame DEF Turns
<1>4. peer'[e].ice = peer[e].ice /\ peer'[e].channel = peer[e].channel BY <1>1, SameIs
<1>5. Same(e, {"ice", "channel"}) BY <1>1 DEF Same, Like
<1>6. IceOK' BY <1>3, <1>4, IceKept
<1>7. BoxMoves(e, "candidate", Nothing) /\ BoxMoves(Other(e), Nothing, Nothing)
  BY <1>0, <1>1, BoxTaken
<1>8. BoxSays(e, Nothing, None) /\ BoxSays(Other(e), Nothing, None)
  BY <1>0, <1>1, SaysReceived
<1>9. QED BY <1>1, <1>3, <1>4, <1>5, <1>6, <1>7, <1>8, IdleStep DEF Nothing

LEMMA OnIceDisconnectedKeeps ==
  ASSUME LinkInv, NEW e \in Ends, OnIceDisconnected(e) PROVE Negotiating'
<1>0. NegotiationTypeOK /\ Beginnings BY DEF LinkInv, Negotiating
<1>1. /\ Turns(e) /\ UNCHANGED net /\ hiccups' = hiccups + 1 /\ Same(e, {"ice"})
      /\ peer[e].role # "none" /\ peer[Host].role # "none"
  BY <1>0, OnIceDisconnectedDoes, Awake
<1>2. hiccups \in Nat BY <1>0, BoundsAssumption DEF NegotiationTypeOK
<1>3. Ticks BY <1>1, <1>2 DEF Ticks
<1>4. peer'[e].channel = peer[e].channel BY <1>1, SameIs
<1>5. Same(e, {"ice", "channel"}) BY <1>1 DEF Same, Like
<1>6. hiccups' # 0 BY <1>1, <1>2
<1>7. IceOK' BY <1>6 DEF IceOK
<1>8. BoxMoves(e, Nothing, Nothing) /\ BoxMoves(Other(e), Nothing, Nothing)
  BY <1>1, BoxesStay
<1>9. BoxSays(e, Nothing, None) /\ BoxSays(Other(e), Nothing, None) BY <1>1, SaysNothing
<1>10. QED BY <1>1, <1>3, <1>4, <1>5, <1>7, <1>8, <1>9, IdleStep

\* A connection that comes about is a connection of both.
LEMMA IceConnects ==
  ASSUME LinkInv, NEW e \in Ends, hiccups' = hiccups, peer'[Other(e)] = peer[Other(e)],
         \/ /\ peer'[e].ice = "connected" /\ peer'[e].channel = peer[e].channel
         \/ /\ peer'[e].ice = peer[e].ice /\ \A d \in Ends : peer[d].ice # "new"
  PROVE  IceOK'
<1>1. IceOK BY DEF LinkInv, Negotiating, SteadyInv, IceOK
<1>2. \A d \in Ends : peer[d].ice \in {"new", "connected", "disconnected"}
  BY DEF LinkInv, NegotiationTypeOK, Peer
<1>3. \A d \in Ends : d = e \/ d = Other(e) BY EndsAre
<1>4. CASE peer'[e].ice = "connected" /\ peer'[e].channel = peer[e].channel
  <2>1. peer'[Host].channel = peer[Host].channel BY <1>3, <1>4, EndsAre
  <2>2. QED BY <1>1, <1>3, <1>4, <2>1 DEF IceOK
<1>5. CASE peer'[e].ice = peer[e].ice /\ \A d \in Ends : peer[d].ice # "new"
  <2>1. \A d \in Ends : peer'[d].ice = peer[d].ice BY <1>3, <1>5
  <2>2. QED BY <1>1, <1>2, <1>5, <2>1 DEF IceOK
<1>6. QED BY <1>4, <1>5

LEMMA OnNegotiationNeededKeeps ==
  ASSUME LinkInv, NEW e \in Ends, OnNegotiationNeeded(e) PROVE Negotiating'
<1>0. NegotiationTypeOK /\ Beginnings /\ NewcomerInv /\ SteadyInv
  BY DEF LinkInv, Negotiating
<1>1. /\ Turns(e) /\ UNCHANGED <<net, hiccups>> /\ peer[e].role # "none"
      /\ \/ Same(e, {})
         \/ /\ peer[e].signaling = "stable" /\ peer[e].ops = <<>>
            /\ ~peer[e].making /\ ~peer[e].aborted
            /\ ~(peer[e].role = "polite" /\ peer[e].channel # "open")
            /\ Same(e, {"making", "ops"}) /\ peer'[e].making = TRUE
            /\ \E op \in Operation :
                 /\ op.op = "createOffer" /\ peer'[e].ops = Append(peer[e].ops, op)
  BY <1>0, OnNegotiationNeededDoes
<1>2. Ticks /\ peer'[Other(e)] = peer[Other(e)] BY <1>1, TicksSame DEF Turns
<1>3. ASSUME Same(e, {}) PROVE Negotiating'
  <2>1. peer'[e].ice = peer[e].ice /\ peer'[e].channel = peer[e].channel BY <1>3, SameIs
  <2>2. Same(e, {"ice", "channel"}) BY <1>3 DEF Same, Like
  <2>3. IceOK' BY <1>2, <2>1, IceKept
  <2>4. BoxMoves(e, Nothing, Nothing) /\ BoxMoves(Other(e), Nothing, Nothing)
    BY <1>1, BoxesStay
  <2>5. BoxSays(e, Nothing, None) /\ BoxSays(Other(e), Nothing, None) BY <1>1, SaysNothing
  <2>6. QED BY <1>1, <1>2, <2>1, <2>2, <2>3, <2>4, <2>5, IdleStep
<1>4. ASSUME peer[e].signaling = "stable", peer[e].ops = <<>>,
             ~peer[e].making, ~peer[e].aborted,
             ~(peer[e].role = "polite" /\ peer[e].channel # "open"),
             Same(e, {"making", "ops"}), peer'[e].making = TRUE,
             NEW op \in Operation, op.op = "createOffer",
             peer'[e].ops = Append(peer[e].ops, op)
      PROVE  Negotiating'
  <2>1. /\ peer'[e].ice = peer[e].ice /\ peer'[e].channel = peer[e].channel
        /\ peer'[e].aborted = peer[e].aborted
    BY <1>4, SameIs
  <2>2. Same(e, {"ice", "channel", "aborted", "making", "ops"}) BY <1>4 DEF Same, Like
  <2>3. IceOK' BY <1>2, <2>1, IceKept
  <2>4. ~Prepared(e) /\ ~Applied(e) BY <1>4 DEF Prepared, Applied, InOps
  <2>5. e = Newcomer \/ e = Host BY DEF Ends
  <2>6. e = Host => peer'[e].channel = "open" BY <1>0, <1>1, <1>4, <2>1 DEF Beginnings
  <2>7. Sure(e) => ~Out(e)
    <3>1. CASE e = Newcomer BY <1>0, <1>4, <3>1 DEF NewcomerInv
    <3>2. CASE e = Host BY <1>0, <1>4, <3>2, EndsAre DEF SteadyInv, Sure
    <3>3. QED BY <2>5, <3>1, <3>2
  <2>8. QED BY <1>1, <1>4, <2>1, <2>2, <2>3, <2>4, <2>6, <2>7, StartKeeps
<1>5. QED BY <1>1, <1>3, <1>4

LEMMA OnIceConnectedKeeps ==
  ASSUME LinkInv, NEW e \in Ends, OnIceConnected(e) PROVE Negotiating'
<1>0. NegotiationTypeOK /\ Beginnings /\ HostInv /\ SteadyInv BY DEF LinkInv, Negotiating
<1>1. /\ Turns(e) /\ UNCHANGED <<net, hiccups>>
      /\ peer[e].ice # "connected" /\ peer'[e].ice = "connected"
      /\ \/ ~peer[e].aborted /\ Same(e, {"ice"})
         \/ /\ peer[e].aborted /\ Same(e, {"ice", "aborted", "making", "ops"})
            /\ peer'[e].aborted = FALSE /\ peer'[e].making = TRUE
            /\ \E op \in Operation :
                 /\ op.op = "createOffer" /\ peer'[e].ops = Append(peer[e].ops, op)
  BY <1>0, OnIceConnectedDoes
<1>2. Ticks /\ peer'[Other(e)] = peer[Other(e)] BY <1>1, TicksSame DEF Turns
<1>3. peer[e].role # "none" /\ peer[Host].role # "none" BY <1>0, Awake
<1>4. peer'[e].channel = peer[e].channel BY <1>1, SameIs
<1>5. IceOK' BY <1>1, <1>2, <1>4, IceConnects
<1>6. ASSUME Same(e, {"ice"}) PROVE Negotiating'
  <2>1. Same(e, {"ice", "channel"}) BY <1>6 DEF Same, Like
  <2>2. BoxMoves(e, Nothing, Nothing) /\ BoxMoves(Other(e), Nothing, Nothing)
    BY <1>1, BoxesStay
  <2>3. BoxSays(e, Nothing, None) /\ BoxSays(Other(e), Nothing, None) BY <1>1, SaysNothing
  <2>4. QED BY <1>1, <1>2, <1>3, <1>4, <1>5, <2>1, <2>2, <2>3, IdleStep
<1>7. ASSUME peer[e].aborted, Same(e, {"ice", "aborted", "making", "ops"}),
             peer'[e].aborted = FALSE, peer'[e].making = TRUE,
             NEW op \in Operation, op.op = "createOffer",
             peer'[e].ops = Append(peer[e].ops, op)
      PROVE  Negotiating'
  <2>1. e = Host BY <1>0, <1>7 DEF Beginnings, Ends
  <2>2. /\ peer[e].channel = "open" /\ ~Prepared(e)
        /\ peer[e].signaling = "local" => InOps(peer[e].ops, Rolling)
    BY <1>0, <1>7, <2>1 DEF HostInv, Prepared
  <2>3. ~Sure(e) BY <1>0, <1>1, <2>1, <2>2, EndsAre DEF SteadyInv, Sure
  <2>4. Same(e, {"ice", "channel", "aborted", "making", "ops"}) BY <1>7 DEF Same, Like
  <2>5. Newcomer # Host BY EndsAre
  <2>6. QED BY <1>1, <1>3, <1>4, <1>5, <1>7, <2>1, <2>2, <2>3, <2>4, <2>5, StartKeeps
<1>8. QED BY <1>1, <1>6, <1>7

LEMMA OnDataChannelOpenKeeps ==
  ASSUME LinkInv, NEW e \in Ends, OnDataChannelOpen(e) PROVE Negotiating'
<1>0. NegotiationTypeOK /\ Beginnings /\ HostInv /\ SteadyInv BY DEF LinkInv, Negotiating
<1>1. /\ Turns(e) /\ UNCHANGED <<net, hiccups>>
      /\ peer[e].channel # "open" /\ peer'[e].channel = "open"
      /\ \A d \in Ends : peer[d].ice # "new"
      /\ \/ peer[e].role # "polite" /\ Same(e, {"channel"})
         \/ /\ peer[e].role = "polite" /\ Same(e, {"channel", "making", "ops"})
            /\ peer'[e].making = TRUE
            /\ \E op \in Operation :
                 /\ op.op = "createOffer" /\ peer'[e].ops = Append(peer[e].ops, op)
  BY <1>0, OnDataChannelOpenDoes
<1>2. Ticks /\ peer'[Other(e)] = peer[Other(e)] BY <1>1, TicksSame DEF Turns
<1>3. peer[e].role # "none" /\ peer[Host].role # "none" BY <1>0, Awake
<1>4. peer'[e].ice = peer[e].ice BY <1>1, SameIs
<1>5. IceOK' BY <1>1, <1>2, <1>4, IceConnects
<1>6. ASSUME Same(e, {"channel"}) PROVE Negotiating'
  <2>1. Same(e, {"ice", "channel"}) BY <1>6 DEF Same, Like
  <2>2. BoxMoves(e, Nothing, Nothing) /\ BoxMoves(Other(e), Nothing, Nothing)
    BY <1>1, BoxesStay
  <2>3. BoxSays(e, Nothing, None) /\ BoxSays(Other(e), Nothing, None) BY <1>1, SaysNothing
  <2>4. QED BY <1>1, <1>2, <1>3, <1>4, <1>5, <2>1, <2>2, <2>3, IdleStep
<1>7. ASSUME peer[e].role = "polite", Same(e, {"channel", "making", "ops"}),
             peer'[e].making = TRUE,
             NEW op \in Operation, op.op = "createOffer",
             peer'[e].ops = Append(peer[e].ops, op)
      PROVE  Negotiating'
  <2>1. e = Host BY <1>0, <1>7 DEF Beginnings, Ends
  <2>2. ~peer[e].aborted /\ peer[e].signaling # "local" /\ ~Prepared(e)
    BY <1>0, <1>1, <2>1 DEF HostInv, Prepared
  <2>3. Sure(e) => ~Out(e) /\ ~Applied(e) BY <1>0, <1>1, <2>1, EndsAre DEF SteadyInv, Sure
  <2>4. Same(e, {"ice", "channel", "aborted", "making", "ops"}) BY <1>7 DEF Same, Like
  <2>5. Newcomer # Host /\ peer'[e].aborted = peer[e].aborted BY <1>7, EndsAre, SameIs
  <2>6. QED BY <1>1, <1>3, <1>4, <1>5, <1>7, <2>1, <2>2, <2>3, <2>4, <2>5, StartKeeps
<1>8. QED BY <1>1, <1>6, <1>7

LEMMA OnUserConnectedKeeps ==
  ASSUME LinkInv, NEW e \in Ends, OnUserConnected(e) PROVE Negotiating'
<1>0. NegotiationTypeOK /\ Beginnings BY DEF LinkInv, Negotiating
<1>1. /\ Turns(e) /\ UNCHANGED hiccups /\ Takes(e, "relay")
      /\ Head(net[e]["relay"]).type = "connected"
      /\ \E share \in BOOLEAN : peer'[e] = OtherPeer("polite", share)
  BY <1>0, OnUserConnectedDoes
<1>2. Ticks /\ peer'[Other(e)] = peer[Other(e)] BY <1>1, TicksSame DEF Turns
<1>3. /\ Other(Newcomer) = Host /\ Other(Host) = Newcomer /\ (e = Newcomer \/ e = Host)
      /\ Newcomer # Host /\ "relay" \in Ways
  BY EndsAre DEF Ends, Ways
<1>4. BoxMoves(e, "connected", Nothing) /\ BoxMoves(Other(e), Nothing, Nothing)
  BY <1>0, <1>1, <1>3, BoxTaken
<1>5. MailMoves(net[e], net'[e], "connected", Nothing, "connected")
      /\ MailMoves(net[Other(e)], net'[Other(e)], Nothing, Nothing, "connected")
  BY <1>4 DEF BoxMoves, Types
<1>6. Mail(net[e], "connected") BY <1>5 DEF MailMoves
<1>7. e = Host BY <1>0, <1>3, <1>6 DEF Beginnings
<1>8. PICK share \in BOOLEAN : peer'[e] = OtherPeer("polite", share) BY <1>1
<1>9. peer[e] = OtherPeer("none", FALSE) /\ peer[Host].role = "none"
      /\ OnceMail(net[Host], "connected")
  BY <1>0, <1>6, <1>7 DEF Beginnings
<1>10. /\ Still(e) /\ peer'[e].channel = peer[e].channel /\ peer'[e].ice = peer[e].ice
       /\ peer'[e].ops = peer[e].ops /\ peer'[e].role = "polite"
  BY <1>8, <1>9 DEF OtherPeer, Still
<1>11. Acts(e, Nothing, Nothing, "connected", Nothing)
  BY <1>2, <1>4, <1>10, ChainStays DEF Acts
<1>12. Says(e, Nothing, None, Nothing, None)
  <2>1. BoxSays(e, Nothing, None) /\ BoxSays(Other(e), Nothing, None)
    BY <1>0, <1>1, <1>3, SaysReceived
  <2>2. QED BY <1>2, <1>10, <2>1, SaysSame DEF Says
<1>13. IceOK' BY <1>2, <1>10, IceKept
<1>14. Beginnings'
  <2>1. ~Mail(net'[Host], "connected") BY <1>5, <1>7, <1>9 DEF MailMoves, Nothing
  <2>2. Mail(net'[Newcomer], "connected") => Mail(net[Newcomer], "connected")
    BY <1>3, <1>5, <1>7 DEF MailMoves, Nothing
  <2>3. peer'[Newcomer] = peer[Newcomer] BY <1>2, <1>3, <1>7
  <2>4. QED BY <1>0, <1>7, <1>10, <2>1, <2>2, <2>3 DEF Beginnings
<1>15. QED
  BY <1>2, <1>10, <1>11, <1>12, <1>13, <1>14, IdleKeeps DEF IceOK, Nothing

-----------------------------------------------------------------------------
(* The invariant *)

LEMMA LinkAtFirst == ASSUME Init PROVE LinkInv
<1>0. /\ NegotiationTypeOK /\ Other(Newcomer) = Host /\ Other(Host) = Newcomer
      /\ Newcomer # Host /\ Newcomer \in Ends /\ Host \in Ends
      /\ "relay" \in Ways /\ "direct" # "relay"
  BY TypesAtFirst, EndsAre DEF Ways
<1>1. /\ peer[Newcomer] = OtherPeer("impolite", FALSE)
      /\ peer[Host] = OtherPeer("none", FALSE)
  BY <1>0 DEF Init
<1>2. PICK hello : hello = [type |-> "connected"] OBVIOUS
<1>3. /\ \A w \in Ways : net[Newcomer][w] = <<>>
      /\ net[Host]["relay"] = <<hello>>
      /\ \A w \in Ways : w # "relay" => net[Host][w] = <<>>
  BY <1>0, <1>2 DEF Init
<1>4. \A e \in Ends : /\ peer[e].ops = <<>> /\ peer[e].signaling = "stable"
                      /\ ~peer[e].making /\ ~peer[e].aborted
                      /\ peer[e].ice = "new"
  BY <1>1 DEF OtherPeer, Ends
<1>5. \A e \in Ends : \A S : ~InOps(peer[e].ops, S) /\ OnceIn(peer[e].ops, S)
  BY <1>4 DEF InOps, OnceIn
<1>6. \A t : t # "connected" => ~Mail(net[Host], t) BY <1>2, <1>3 DEF Mail
<1>7. \A t : ~Mail(net[Newcomer], t) BY <1>3 DEF Mail
<1>8. OnceMail(net[Host], "connected") BY <1>3 DEF OnceMail
<1>9. \A e \in Ends : /\ ~Mail(net[e], "offer") /\ ~Mail(net[e], "answer")
                      /\ OnceMail(net[e], "offer") /\ OnceMail(net[e], "answer")
  BY <1>6, <1>7 DEF Ends, Mail, OnceMail
<1>10. \A e \in Ends : Other(e) \in Ends BY EndsAre
<1>11. \A e \in Ends : /\ ~Prepared(e) /\ ~Offered(e) /\ ~Considered(e)
                       /\ ~Answered(e) /\ ~Applied(e) /\ ~Out(e)
  BY <1>5, <1>9, <1>10 DEF Prepared, Offered, Considered, Answered, Applied, Out
<1>12. Beginnings BY <1>0, <1>1, <1>4, <1>7, <1>8 DEF Beginnings, OtherPeer
<1>13. WrittenInv BY <1>4 DEF WrittenInv, Written
<1>14. OneInv BY <1>5, <1>9, <1>10, <1>11 DEF OneInv, OneOut
<1>15. RemoteInv BY <1>4, <1>5 DEF RemoteInv, RemoteOf
<1>16. FitsInv BY <1>4 DEF FitsInv
<1>17. NewcomerInv BY <1>0, <1>4, <1>11 DEF NewcomerInv
<1>18. HostInv BY <1>0, <1>4, <1>5 DEF HostInv, Before
<1>19. SteadyInv
  <2>1. peer[Host].channel # "open" BY <1>1 DEF OtherPeer
  <2>2. QED BY <1>0, <1>4, <1>11, <2>1 DEF SteadyInv
<1>20. QED
  BY <1>0, <1>12, <1>13, <1>14, <1>15, <1>16, <1>17, <1>18, <1>19 DEF LinkInv, Negotiating

LEMMA LinkStep == ASSUME LinkInv, [Next]_peerVars PROVE LinkInv'
<1>1. NegotiationTypeOK' BY TypesStep DEF LinkInv
<1>2. CASE UNCHANGED peerVars
  <2>1. Negotiating BY DEF LinkInv
  <2>2. peer' = peer /\ net' = net /\ hiccups' = hiccups BY <1>2 DEF peerVars
  <2>3. Beginnings' /\ WrittenInv' BY <2>1, <2>2 DEF Negotiating, Beginnings, WrittenInv
  <2>4. \A e : /\ Prepared(e)' <=> Prepared(e)
               /\ Offered(e)' <=> Offered(e)
               /\ Considered(e)' <=> Considered(e)
               /\ Answered(e)' <=> Answered(e)
               /\ Applied(e)' <=> Applied(e)
               /\ Out(e)' <=> Out(e)
    BY <2>2 DEF Prepared, Offered, Considered, Answered, Applied, Out
  <2>5. \A e : OneOut(e)' <=> OneOut(e) BY <2>2, <2>4 DEF OneOut
  <2>6. \A e : (Sure(e)' <=> Sure(e)) /\ (RemoteOf(e)' <=> RemoteOf(e))
    BY <2>2 DEF Sure, RemoteOf
  <2>7. \A e : Fits(e)' <=> Fits(e) BY <2>2 DEF Fits
  <2>8. OneInv' BY <2>1, <2>5, <2>6 DEF Negotiating, OneInv
  <2>9. RemoteInv' BY <2>1, <2>6 DEF Negotiating, RemoteInv
  <2>10. FitsInv' BY <2>1, <2>2, <2>6, <2>7 DEF Negotiating, FitsInv
  <2>11. NewcomerInv' BY <2>1, <2>2, <2>4 DEF Negotiating, NewcomerInv
  <2>12. HostInv' BY <2>1, <2>2 DEF Negotiating, HostInv
  <2>13. SteadyInv' BY <2>1, <2>2, <2>4 DEF Negotiating, SteadyInv
  <2>14. QED
    BY <1>1, <2>3, <2>8, <2>9, <2>10, <2>11, <2>12, <2>13 DEF LinkInv, Negotiating
<1>3. ASSUME NEW e \in Ends, ChainStep(e) PROVE Negotiating'
  BY <1>3, CreateOfferKeeps, SetOfferKeeps, RollbackKeeps, SetRemoteOfferKeeps,
     CreateAnswerKeeps, SetAnswerKeeps, SetRemoteAnswerKeeps DEF ChainStep
<1>4. ASSUME NEW e \in Ends, MessageStep(e) PROVE Negotiating'
  BY <1>4, OnUserConnectedKeeps, OnRemoteOfferKeeps, OnRemoteAnswerKeeps,
     OnRemoteIceCandidateKeeps DEF MessageStep
<1>5. ASSUME NEW e \in Ends, EventStep(e) PROVE Negotiating'
  BY <1>5, OnNegotiationNeededKeeps, OnIceCandidateKeeps, OnIceConnectedKeeps,
     OnDataChannelOpenKeeps DEF EventStep
<1>6. ASSUME NEW e \in Ends, Share(e) \/ OnIceDisconnected(e) PROVE Negotiating'
  BY <1>6, ShareKeeps, OnIceDisconnectedKeeps
<1>7. QED BY <1>1, <1>2, <1>3, <1>4, <1>5, <1>6 DEF LinkInv, Next

\* An answer that is applied is the answer to the offer that is pending.
LEMMA LinkFits == ASSUME LinkInv PROVE AnswersFit
<1>1. SUFFICES ASSUME hiccups = 0, NEW e \in Ends, Runs(e, "setRemoteAnswer"),
                      peer[e].signaling = "local"
               PROVE  Head(peer[e].ops).desc.id = peer[e].pending.id
  BY DEF AnswersFit
<1>2. FitsInv /\ Sure(e) BY <1>1 DEF LinkInv, Negotiating, Sure
<1>3. Fits(e) BY <1>1, <1>2 DEF FitsInv
<1>4. Bears(peer[e].ops, Applying, peer[e].pending.id) BY <1>3 DEF Fits
<1>5. peer[e].ops \in Seq(Operation) BY DEF LinkInv, NegotiationTypeOK, Peer
<1>6. PICK q : q = peer[e].ops OBVIOUS
<1>7. q \in Seq(Operation) /\ q # <<>> /\ Head(q).op \in Applying
  BY <1>1, <1>5, <1>6 DEF Runs, Applying
<1>8. QED BY <1>4, <1>6, <1>7, BearsTaken

\* At rest nothing of the newcomer's offer is anywhere, so there is none.
LEMMA LinkRests == ASSUME LinkInv PROVE ImpoliteRests
<1>1. SUFFICES ASSUME Quiet, NEW e \in Impolite
               PROVE  peer[e].signaling = "stable" /\ ~peer[e].making
  BY DEF ImpoliteRests
<1>2. /\ NegotiationTypeOK /\ Beginnings /\ RemoteInv /\ NewcomerInv
      /\ Newcomer \in Ends /\ Host \in Ends /\ Other(Newcomer) = Host
  BY EndsAre DEF LinkInv, Negotiating
<1>3. e = Newcomer BY <1>1, <1>2 DEF Impolite, Beginnings, Ends
<1>4. \A d \in Ends : peer[d].ops = <<>> /\ \A way \in Ways : net[d][way] = <<>>
  BY <1>1 DEF Quiet
<1>5. \A d \in Ends : \A S : ~InOps(peer[d].ops, S) /\ ~Mail(net[d], S)
  BY <1>4 DEF InOps, Mail
<1>6. ~Prepared(Newcomer) /\ ~Out(Newcomer) /\ ~Applied(Newcomer)
  BY <1>2, <1>5 DEF Prepared, Out, Offered, Considered, Answered, Applied
<1>7. ~peer[Newcomer].making /\ peer[Newcomer].signaling # "local"
  BY <1>2, <1>6 DEF NewcomerInv
<1>8. peer[Newcomer].signaling # "remote" BY <1>2, <1>5 DEF RemoteInv, RemoteOf
<1>9. peer[Newcomer].signaling \in {"stable", "local", "remote"}
  BY <1>2 DEF NegotiationTypeOK, Peer
<1>10. QED BY <1>3, <1>7, <1>8, <1>9

LEMMA LinkAlways == Spec => []LinkInv
<1>1. Init => LinkInv BY LinkAtFirst
<1>2. LinkInv /\ [Next]_peerVars => LinkInv' BY LinkStep
<1>3. QED BY <1>1, <1>2, PTL DEF Spec

(* Until the connection is interrupted an answer is only applied to the    *)
(* offer it was made for, for any number of candidates, shares and retries *)
(* (peer-controller.ts, onRemoteOffer and onRemoteAnswer).                 *)
THEOREM AnswersFitOffers == Spec => []AnswersFit
<1>1. LinkInv => AnswersFit BY LinkFits
<1>2. QED BY <1>1, LinkAlways, PTL

(* At rest the impolite end is stable and has no offer open: the polite    *)
(* end answers all of them, its own being rolled back or dropped           *)
(* (peer-controller.ts, onRemoteOffer).                                    *)
THEOREM ImpoliteEndRests == Spec => []ImpoliteRests
<1>1. LinkInv => ImpoliteRests BY LinkRests
<1>2. QED BY <1>1, LinkAlways, PTL

-----------------------------------------------------------------------------
(* What operations and messages say.  An end that chains or sends nothing  *)
(* chains NoOperation and sends NoMessage.                                 *)

NoOperation == [op |-> Nothing]
NoMessage == [type |-> Nothing]
Holds(q, S, D) == \A i \in DOMAIN q : q[i].op \in S => q[i].desc \in D
MailHolds(n, T, D) ==
  \A w \in Ways : \A i \in DOMAIN n[w] : n[w][i].type \in T => n[w][i] \in D

\* e ends an operation named "out" and chains op; it takes a message of type
\* "took" and sends m.
Chains(e, out, op) ==
  /\ ChainMoves(e, out, op.op)
  /\ \A S, D : Holds(peer[e].ops, S, D) /\ (op.op \in S => op.desc \in D)
                 => Holds(peer'[e].ops, S, D)
Boxes(e, took, m) ==
  /\ BoxMoves(e, took, Nothing) /\ BoxMoves(Other(e), Nothing, m.type)
  /\ \A T, D : /\ MailHolds(net[e], T, D) => MailHolds(net'[e], T, D)
               /\ MailHolds(net[Other(e)], T, D) /\ (m.type \in T => m \in D)
                    => MailHolds(net'[Other(e)], T, D)
Steps(e, out, op, took, m) ==
  peer'[Other(e)] = peer[Other(e)] /\ Chains(e, out, op) /\ Boxes(e, took, m)

LEMMA HoldsTail ==
  ASSUME NEW q \in Seq(Operation), q # <<>>, NEW S, NEW D, Holds(q, S, D)
  PROVE  Holds(Tail(q), S, D) /\ (Head(q).op \in S => Head(q).desc \in D)
BY Tails DEF Holds

LEMMA HoldsAppend ==
  ASSUME NEW q \in Seq(Operation), NEW op \in Operation, NEW S, NEW D, Holds(q, S, D),
         op.op \in S => op.desc \in D
  PROVE  Holds(Append(q, op), S, D)
BY Appends DEF Holds

LEMMA ChainsSame ==
  ASSUME NEW e \in Ends, peer'[e].ops = peer[e].ops
  PROVE  Chains(e, Nothing, NoOperation)
<1>1. PICK q : q = peer[e].ops OBVIOUS
<1>2. peer'[e].ops = q BY <1>1
<1>3. ChainMoves(e, Nothing, Nothing) BY ChainStays
<1>4. QED BY <1>1, <1>2, <1>3 DEF Chains, NoOperation

LEMMA ChainsTaken ==
  ASSUME NegotiationTypeOK, NEW e \in Ends, NEW name, Runs(e, name), peer'[e].ops = Rest(e)
  PROVE  Chains(e, name, NoOperation)
<1>1. ChainMoves(e, name, Nothing) BY ChainTaken
<1>2. peer[e].ops \in Seq(Operation) /\ peer[e].ops # <<>>
  BY DEF NegotiationTypeOK, Peer, Runs
<1>3. QED BY <1>1, <1>2, HoldsTail DEF Chains, NoOperation, Rest

LEMMA ChainsReplaced ==
  ASSUME NegotiationTypeOK, NEW e \in Ends, NEW name, Runs(e, name), NEW op \in Operation,
         peer'[e].ops = Append(Rest(e), op)
  PROVE  Chains(e, name, op)
<1>1. ChainMoves(e, name, op.op) BY ChainReplaced
<1>2. peer[e].ops \in Seq(Operation) /\ peer[e].ops # <<>>
  BY DEF NegotiationTypeOK, Peer, Runs
<1>3. Rest(e) \in Seq(Operation) BY <1>2 DEF Rest
<1>4. ASSUME NEW S, NEW D, Holds(peer[e].ops, S, D), op.op \in S => op.desc \in D
      PROVE  Holds(peer'[e].ops, S, D)
  <2>1. Holds(Rest(e), S, D) BY <1>2, <1>4, HoldsTail DEF Rest
  <2>2. QED BY <1>3, <1>4, <2>1, HoldsAppend
<1>5. QED BY <1>1, <1>4 DEF Chains

LEMMA ChainsAdded ==
  ASSUME NegotiationTypeOK, NEW e \in Ends, NEW op \in Operation,
         peer'[e].ops = Append(peer[e].ops, op)
  PROVE  Chains(e, Nothing, op)
<1>1. ChainMoves(e, Nothing, op.op) BY ChainAdded
<1>2. peer[e].ops \in Seq(Operation) BY DEF NegotiationTypeOK, Peer
<1>3. QED BY <1>1, <1>2, HoldsAppend DEF Chains

LEMMA MailHoldsTaken ==
  ASSUME NegotiationTypeOK, NEW e \in Ends, NEW way \in Ways, Takes(e, way), NEW T, NEW D,
         MailHolds(net[e], T, D)
  PROVE  /\ MailHolds(net'[e], T, D)
         /\ Head(net[e][way]).type \in T => Head(net[e][way]) \in D
<1>1. net[e][way] \in Seq(Message) /\ net[e][way] # <<>> /\ net'[e][way] = Tail(net[e][way])
  BY DEF NegotiationTypeOK, Takes
<1>2. /\ 1 \in DOMAIN net[e][way] /\ net[e][way][1] = Head(net[e][way])
      /\ \A i \in DOMAIN Tail(net[e][way]) : /\ i + 1 \in DOMAIN net[e][way]
                                             /\ Tail(net[e][way])[i] = net[e][way][i + 1]
  BY <1>1, Tails
<1>3. Head(net[e][way]).type \in T => Head(net[e][way]) \in D BY <1>2 DEF MailHolds
<1>4. ASSUME NEW w \in Ways, NEW i \in DOMAIN net'[e][w], net'[e][w][i].type \in T
      PROVE  net'[e][w][i] \in D
  <2>1. CASE w = way BY <1>1, <1>2, <1>4, <2>1 DEF MailHolds
  <2>2. CASE w # way BY <1>4, <2>2 DEF MailHolds, Takes
  <2>3. QED BY <2>1, <2>2
<1>5. QED BY <1>3, <1>4 DEF MailHolds

LEMMA MailHoldsSent ==
  ASSUME NegotiationTypeOK, NEW e \in Ends, NEW way \in Ways, NEW m \in Message,
         Mails(e, way, m), NEW T, NEW D, MailHolds(net[Other(e)], T, D),
         m.type \in T => m \in D
  PROVE  MailHolds(net'[Other(e)], T, D)
<1>1. PICK o : o = Other(e) OBVIOUS
<1>2. o \in Ends BY <1>1, EndsAre
<1>3. net[o][way] \in Seq(Message) /\ net'[o][way] = Append(net[o][way], m)
  BY <1>1, <1>2 DEF NegotiationTypeOK, Mails
<1>4. ASSUME NEW w \in Ways, NEW i \in DOMAIN net'[o][w], net'[o][w][i].type \in T
      PROVE  net'[o][w][i] \in D
  <2>1. CASE w = way
    <3>1. i \in DOMAIN Append(net[o][way], m) /\ Append(net[o][way], m)[i].type \in T
      BY <1>3, <1>4, <2>1
    <3>2. CASE i \in DOMAIN net[o][way]
      <4>1. Append(net[o][way], m)[i] = net[o][way][i] BY <1>3, <3>2, Appends
      <4>2. net[o][way][i] \in D BY <1>1, <3>1, <3>2, <4>1 DEF MailHolds
      <4>3. QED BY <1>3, <2>1, <4>1, <4>2
    <3>3. CASE i = Len(net[o][way]) + 1
      <4>1. Append(net[o][way], m)[i] = m BY <1>3, <3>3, Appends
      <4>2. QED BY <1>3, <2>1, <3>1, <4>1
    <3>4. QED BY <1>3, <3>1, <3>2, <3>3, Appends
  <2>2. CASE w # way BY <1>1, <1>4, <2>2 DEF MailHolds, Mails
  <2>3. QED BY <2>1, <2>2
<1>5. QED BY <1>1, <1>4 DEF MailHolds

LEMMA BoxesSame ==
  ASSUME NEW e \in Ends, net' = net
  PROVE  Boxes(e, Nothing, NoMessage)
BY BoxesStay DEF Boxes, NoMessage

LEMMA BoxesTaken ==
  ASSUME NegotiationTypeOK, NEW e \in Ends, NEW way \in Ways, Takes(e, way)
  PROVE  Boxes(e, Head(net[e][way]).type, NoMessage)
<1>1. BoxMoves(e, Head(net[e][way]).type, Nothing) /\ BoxMoves(Other(e), Nothing, Nothing)
  BY BoxTaken
<1>2. net'[Other(e)] = net[Other(e)] BY DEF Takes
<1>3. \A T, D : MailHolds(net[e], T, D) => MailHolds(net'[e], T, D) BY MailHoldsTaken
<1>4. QED BY <1>1, <1>2, <1>3 DEF Boxes, NoMessage

LEMMA BoxesSent ==
  ASSUME NegotiationTypeOK, NEW e \in Ends, NEW way \in Ways, NEW m \in Message,
         Mails(e, way, m)
  PROVE  Boxes(e, Nothing, m)
<1>1. BoxMoves(e, Nothing, Nothing) /\ BoxMoves(Other(e), Nothing, m.type) BY BoxSent
<1>2. net'[e] = net[e] BY DEF Mails
<1>3. \A T, D : MailHolds(net[Other(e)], T, D) /\ (m.type \in T => m \in D)
                  => MailHolds(net'[Other(e)], T, D)
  BY MailHoldsSent
<1>4. QED BY <1>1, <1>2, <1>3 DEF Boxes

-----------------------------------------------------------------------------
(* What holds of the link whoever shares                                   *)

Numbered == {d \in Description : d.id # None}
Numbering == {"setOffer", "rollback", "setRemoteOffer"}
NumberedInv ==
  \A e \in Ends :
    /\ peer[e].signaling # "stable" => peer[e].pending \in Numbered
    /\ Holds(peer[e].ops, Numbering, Numbered)
    /\ MailHolds(net[e], {"offer"}, Numbered)

\* The connection comes after the first negotiation.
MetInv ==
  /\ peer[Newcomer].channel # "none" /\ ~peer[Host].ignoring
  /\ peer[Host].channel = "open" => Negotiated
  /\ \A e \in Ends : peer[e].ice # "new" => Negotiated
\* The host's part of a negotiation is done when it answers.
AnsweredInv == Answered(Newcomer) \/ Applied(Newcomer) => peer[Host].session # None
LinkedInv == NumberedInv /\ MetInv /\ AnsweredInv

\* What a step of e must do for that.
Numbers(e, op, m) ==
  /\ op.op \in Numbering => op.desc \in Numbered
  /\ m.type = "offer" => m \in Numbered
  /\ peer'[e].signaling # "stable" => peer'[e].pending \in Numbered
Links(e, m) ==
  /\ peer'[e].channel = peer[e].channel
       \/ (peer'[e].channel = "open" /\ \A d \in Ends : peer[d].ice # "new")
  /\ e = Host /\ peer'[e].ignoring => peer[e].ignoring
  /\ peer'[e].session = peer[e].session \/ peer'[e].session # None
  /\ peer'[e].ice = peer[e].ice \/ Negotiated
  /\ m.type = "answer" => peer'[e].session # None

LEMMA NumberedKept ==
  ASSUME NumberedInv, NEW e \in Ends, NEW out, NEW op, NEW took, NEW m,
         Steps(e, out, op, took, m), Numbers(e, op, m)
  PROVE  NumberedInv'
<1>1. PICK o : o = Other(e) OBVIOUS
<1>2. o \in Ends /\ \A d \in Ends : d = e \/ d = o BY <1>1, EndsAre
<1>3. /\ peer[e].signaling # "stable" => peer[e].pending \in Numbered
      /\ Holds(peer[e].ops, Numbering, Numbered) /\ MailHolds(net[e], {"offer"}, Numbered)
      /\ peer[o].signaling # "stable" => peer[o].pending \in Numbered
      /\ Holds(peer[o].ops, Numbering, Numbered) /\ MailHolds(net[o], {"offer"}, Numbered)
  BY <1>2 DEF NumberedInv
<1>4. peer'[o] = peer[o] BY <1>1 DEF Steps
<1>5. Holds(peer'[e].ops, Numbering, Numbered) BY <1>3 DEF Steps, Chains, Numbers
<1>6. MailHolds(net'[e], {"offer"}, Numbered) BY <1>3 DEF Steps, Boxes
<1>7. MailHolds(net'[o], {"offer"}, Numbered)
  <2>1. m.type \in {"offer"} => m \in Numbered BY DEF Numbers
  <2>2. QED BY <1>1, <1>3, <2>1 DEF Steps, Boxes
<1>8. peer'[e].signaling # "stable" => peer'[e].pending \in Numbered BY DEF Numbers
<1>9. QED BY <1>2, <1>3, <1>4, <1>5, <1>6, <1>7, <1>8 DEF NumberedInv

LEMMA MetKept ==
  ASSUME MetInv, NEW e \in Ends, peer'[Other(e)] = peer[Other(e)], NEW m, Links(e, m)
  PROVE  MetInv' /\ (Negotiated => Negotiated')
<1>1. PICK o : o = Other(e) OBVIOUS
<1>2. /\ o \in Ends /\ \A d \in Ends : d = e \/ d = o
      /\ Newcomer \in Ends /\ Host \in Ends /\ Newcomer # Host
      /\ e = Newcomer => o = Host
      /\ e = Host => o = Newcomer
      /\ e = Newcomer \/ e = Host
  BY <1>1, EndsAre DEF Ends
<1>3. peer'[o] = peer[o] BY <1>1
<1>4. Negotiated => Negotiated' BY <1>2, <1>3 DEF Negotiated, Links
<1>5. (\A d \in Ends : peer'[d].ice # "new" => Negotiated') /\ ~peer'[Host].ignoring
  BY <1>2, <1>3, <1>4 DEF MetInv, Links
<1>6. /\ peer'[Newcomer].channel # "none" /\ (peer'[Host].channel = "open" => Negotiated')
  BY <1>2, <1>3, <1>4 DEF MetInv, Links
<1>7. QED BY <1>4, <1>5, <1>6 DEF MetInv

LEMMA StepsIs ==
  ASSUME NEW e \in Ends, NEW out, NEW op, NEW took, NEW m, Steps(e, out, op, took, m)
  PROVE  /\ Acts(e, out, op.op, took, m.type) /\ peer'[Other(e)] = peer[Other(e)]
         /\ \A t \in Types : /\ MailMoves(net[e], net'[e], took, Nothing, t)
                             /\ MailMoves(net[Other(e)], net'[Other(e)], Nothing, m.type, t)
BY DEF Steps, Chains, Boxes, Acts, BoxMoves

LEMMA AnsweredKept ==
  ASSUME AnsweredInv, NEW e \in Ends, NEW out, NEW op, NEW took, NEW m,
         Steps(e, out, op, took, m), Legal(out, op.op, took, m.type), Links(e, m)
  PROVE  AnsweredInv'
<1>1. Acts(e, out, op.op, took, m.type) /\ peer'[Other(e)] = peer[Other(e)] BY StepsIs
<1>2. /\ Other(Newcomer) = Host /\ Other(Host) = Newcomer /\ (e = Newcomer \/ e = Host)
  BY EndsAre DEF Ends
<1>3. CASE e = Newcomer
  <2>1. /\ Moves(peer[e].ops, peer'[e].ops, out, op.op, Applying)
        /\ MailMoves(net[e], net'[e], took, Nothing, "answer")
    BY <1>1, ActsIs
  <2>2. (Answered(Newcomer) \/ Applied(Newcomer))' => Answered(Newcomer) \/ Applied(Newcomer)
    BY <1>3, <2>1 DEF Moves, MailMoves, Answered, Applied, Legal, Nothing
  <2>3. peer'[Host] = peer[Host] BY <1>1, <1>2, <1>3
  <2>4. QED BY <2>2, <2>3 DEF AnsweredInv
<1>4. CASE e = Host
  <2>1. peer'[Newcomer] = peer[Newcomer] BY <1>1, <1>2, <1>4
  <2>2. "answer" \in Types BY DEF Types
  <2>3. MailMoves(net[Newcomer], net'[Newcomer], Nothing, m.type, "answer")
    BY <1>2, <1>4, <2>2, StepsIs
  <2>4. Answered(Newcomer)' => Answered(Newcomer) \/ m.type = "answer"
    BY <2>3 DEF MailMoves, Answered
  <2>5. QED BY <1>4, <2>1, <2>4 DEF AnsweredInv, Applied, Links
<1>5. QED BY <1>2, <1>3, <1>4

LEMMA LinkedKept ==
  ASSUME LinkInv, LinkedInv, NEW e \in Ends, NEW out, NEW op, NEW took, NEW m,
         Steps(e, out, op, took, m), Legal(out, op.op, took, m.type),
         Numbers(e, op, m), Links(e, m)
  PROVE  LinkedInv' /\ (Negotiated => Negotiated')
<1>1. peer'[Other(e)] = peer[Other(e)] BY StepsIs
<1>2. NumberedInv' BY NumberedKept DEF LinkedInv
<1>3. MetInv' /\ (Negotiated => Negotiated') BY <1>1, MetKept DEF LinkedInv
<1>4. AnsweredInv' BY AnsweredKept DEF LinkedInv
<1>5. QED BY <1>2, <1>3, <1>4 DEF LinkedInv

LEMMA FrontHolds ==
  ASSUME NegotiationTypeOK, NEW e \in Ends, NEW S, NEW name \in S, Runs(e, name), NEW D,
         Holds(peer[e].ops, S, D)
  PROVE  Front(e).desc \in D
<1>1. peer[e].ops \in Seq(Operation) /\ peer[e].ops # <<>> /\ Head(peer[e].ops).op = name
  BY DEF NegotiationTypeOK, Peer, Runs
<1>2. QED BY <1>1, HoldsTail DEF Front

LEMMA FrontNumbered ==
  ASSUME LinkInv, LinkedInv, NEW e \in Ends, NEW name \in Numbering, Runs(e, name)
  PROVE  Front(e).desc \in Numbered
<1>1. NegotiationTypeOK /\ Holds(peer[e].ops, Numbering, Numbered)
  BY DEF LinkInv, LinkedInv, NumberedInv
<1>2. QED BY <1>1, FrontHolds
\* An end that is not stable has an offer pending.
LEMMA PendingNumbered ==
  ASSUME LinkedInv, NEW e \in Ends, peer[e].signaling # "stable"
  PROVE  peer[e].pending \in Numbered /\ peer[e].pending.id # None
BY DEF LinkedInv, NumberedInv, Numbered

LEMMA NothingSaid ==
  /\ NoOperation.op = Nothing /\ NoMessage.type = Nothing
  /\ Nothing \notin Numbering /\ Nothing \notin {"offer", "answer", "candidate"}
  /\ "createOffer" \notin Numbering /\ "createAnswer" \notin Numbering
  /\ "setAnswer" \notin Numbering /\ "setRemoteAnswer" \notin Numbering
BY DEF NoOperation, NoMessage, Nothing, Numbering

\* Steps of the chain.
LEMMA CreateOfferLinks ==
  ASSUME LinkInv, LinkedInv, NEW e \in Ends, CreateOffer(e)
  PROVE  LinkedInv' /\ (Negotiated => Negotiated')
<1>1. NegotiationTypeOK BY DEF LinkInv
<1>2. Runs(e, "createOffer") /\ Turns(e) /\ net' = net BY <1>1, CreateOfferDoes
<1>3. peer'[Other(e)] = peer[Other(e)] BY <1>2 DEF Turns
<1>4. Boxes(e, Nothing, NoMessage) BY <1>2, BoxesSame
<1>5. CASE /\ peer[e].signaling = "remote" /\ Only(e, {"ops", "making"})
           /\ peer'[e].ops = Rest(e)
  <2>1. Steps(e, "createOffer", NoOperation, Nothing, NoMessage)
    BY <1>1, <1>2, <1>3, <1>4, <1>5, ChainsTaken DEF Steps
  <2>2. Legal("createOffer", NoOperation.op, Nothing, NoMessage.type)
    BY NothingSaid DEF Legal, Offering, Answering, Applying, Nothing
  <2>3. Numbers(e, NoOperation, NoMessage)
    <3>1. peer'[e].signaling = peer[e].signaling /\ peer'[e].pending = peer[e].pending
      BY <1>5 DEF Only, Like, Fields
    <3>2. QED BY <3>1, NothingSaid, PendingNumbered DEF Numbers
  <2>4. Links(e, NoMessage)
    BY <1>5, NothingSaid DEF Links, Only, Like, Fields
  <2>5. QED BY <2>1, <2>2, <2>3, <2>4, LinkedKept
<1>6. CASE /\ Only(e, {"ops", "made"})
           /\ \E op \in Operation :
                /\ op.op = "setOffer" /\ op.desc \in Description
                /\ op.desc.id = <<e, peer[e].made + 1>> /\ peer'[e].ops = Append(Rest(e), op)
  <2>1. PICK op \in Operation :
          /\ op.op = "setOffer" /\ op.desc \in Description
          /\ op.desc.id = <<e, peer[e].made + 1>> /\ peer'[e].ops = Append(Rest(e), op)
    BY <1>6
  <2>2. Steps(e, "createOffer", op, Nothing, NoMessage)
    BY <1>1, <1>2, <1>3, <1>4, <2>1, ChainsReplaced DEF Steps
  <2>3. Legal("createOffer", op.op, Nothing, NoMessage.type)
    BY <2>1, NothingSaid DEF Legal, Offering, Answering, Applying, Nothing
  <2>4. op.desc \in Numbered
    <3>1. peer[e].made \in Nat BY <1>1 DEF NegotiationTypeOK, Peer
    <3>2. op.desc.id # None BY <2>1, <3>1 DEF None
    <3>3. QED BY <2>1, <3>2 DEF Numbered
  <2>5. Numbers(e, op, NoMessage)
    <3>1. peer'[e].signaling = peer[e].signaling /\ peer'[e].pending = peer[e].pending
      BY <1>6 DEF Only, Like, Fields
    <3>2. QED BY <2>4, <3>1, NothingSaid, PendingNumbered DEF Numbers
  <2>6. Links(e, NoMessage)
    BY <1>6, NothingSaid DEF Links, Only, Like, Fields
  <2>7. QED BY <2>2, <2>3, <2>5, <2>6, LinkedKept
<1>7. QED BY <1>1, <1>5, <1>6, CreateOfferDoes

LEMMA SetOfferLinks ==
  ASSUME LinkInv, LinkedInv, NEW e \in Ends, SetOffer(e)
  PROVE  LinkedInv' /\ (Negotiated => Negotiated')
<1>1. NegotiationTypeOK BY DEF LinkInv
<1>2. Runs(e, "setOffer") /\ Turns(e) BY <1>1, SetOfferDoes
<1>3. peer'[Other(e)] = peer[Other(e)] BY <1>2 DEF Turns
<1>4. Front(e).desc \in Numbered BY <1>2, FrontNumbered DEF Numbering
<1>5. CASE /\ net' = net /\ Only(e, {"ops", "making"}) /\ peer'[e].ops = Rest(e)
  <2>1. Steps(e, "setOffer", NoOperation, Nothing, NoMessage)
    BY <1>1, <1>2, <1>3, <1>5, BoxesSame, ChainsTaken DEF Steps
  <2>2. Legal("setOffer", NoOperation.op, Nothing, NoMessage.type)
    BY NothingSaid DEF Legal, Offering, Answering, Applying, Nothing
  <2>3. Numbers(e, NoOperation, NoMessage)
    <3>1. peer'[e].signaling = peer[e].signaling /\ peer'[e].pending = peer[e].pending
      BY <1>5 DEF Only, Like, Fields
    <3>2. QED BY <3>1, NothingSaid, PendingNumbered DEF Numbers
  <2>4. Links(e, NoMessage)
    BY <1>5, NothingSaid DEF Links, Only, Like, Fields
  <2>5. QED BY <2>1, <2>2, <2>3, <2>4, LinkedKept
<1>6. CASE /\ Only(e, {"ops", "signaling", "pending", "gathering"})
           /\ peer'[e].ops = Rest(e) /\ peer'[e].signaling = "local"
           /\ peer'[e].pending = Front(e).desc /\ peer'[e].gathering = TRUE
           /\ \E m \in Message, way \in Ways :
                /\ m.type = Front(e).desc.type /\ m.id = Front(e).desc.id
                /\ m \in Description /\ Mails(e, way, m)
  <2>1. PICK m \in Message, way \in Ways :
          /\ m.type = Front(e).desc.type /\ m.id = Front(e).desc.id
          /\ m \in Description /\ Mails(e, way, m)
    BY <1>6
  <2>2. Front(e).op = "setOffer" /\ peer[e].ops # <<>> BY <1>2 DEF Runs, Front
  <2>3. m.type = "offer" BY <2>1, <2>2, WrittenRest
  <2>4. Steps(e, "setOffer", NoOperation, Nothing, m)
    BY <1>1, <1>2, <1>3, <1>6, <2>1, BoxesSent, ChainsTaken DEF Steps
  <2>5. Legal("setOffer", NoOperation.op, Nothing, m.type)
    BY <2>3, NothingSaid DEF Legal, Offering, Answering, Applying, Nothing
  <2>6. Numbers(e, NoOperation, m)
    BY <1>4, <1>6, <2>1, NothingSaid DEF Numbers, Numbered
  <2>7. Links(e, m)
    BY <1>6, <2>3 DEF Links, Only, Like, Fields, Nothing
  <2>8. QED BY <2>4, <2>5, <2>6, <2>7, LinkedKept
<1>7. QED BY <1>1, <1>5, <1>6, SetOfferDoes

LEMMA RollbackLinks ==
  ASSUME LinkInv, LinkedInv, NEW e \in Ends, Rollback(e)
  PROVE  LinkedInv' /\ (Negotiated => Negotiated')
<1>1. NegotiationTypeOK BY DEF LinkInv
<1>2. Runs(e, "rollback") /\ Turns(e) /\ net' = net BY <1>1, RollbackDoes
<1>3. peer'[Other(e)] = peer[Other(e)] BY <1>2 DEF Turns
<1>4. Boxes(e, Nothing, NoMessage) BY <1>2, BoxesSame
<1>5. Front(e).desc \in Numbered BY <1>2, FrontNumbered DEF Numbering
<1>6. CASE peer[e].signaling = "stable" /\ Only(e, {"ops"}) /\ peer'[e].ops = Rest(e)
  <2>1. Steps(e, "rollback", NoOperation, Nothing, NoMessage)
    BY <1>1, <1>2, <1>3, <1>4, <1>6, ChainsTaken DEF Steps
  <2>2. Legal("rollback", NoOperation.op, Nothing, NoMessage.type)
    BY NothingSaid DEF Legal, Offering, Answering, Applying, Nothing
  <2>3. Numbers(e, NoOperation, NoMessage)
    <3>1. peer'[e].signaling = peer[e].signaling BY <1>6 DEF Only, Like, Fields
    <3>2. QED BY <1>6, <3>1, NothingSaid DEF Numbers
  <2>4. Links(e, NoMessage)
    BY <1>6, NothingSaid DEF Links, Only, Like, Fields
  <2>5. QED BY <2>1, <2>2, <2>3, <2>4, LinkedKept
<1>7. CASE /\ Only(e, {"ops", "signaling", "pending", "raised"})
           /\ peer'[e].signaling = "stable"
           /\ \E op \in Operation :
                /\ op.op = "setRemoteOffer" /\ op.desc = Front(e).desc
                /\ peer'[e].ops = Append(Rest(e), op)
  <2>1. PICK op \in Operation :
          /\ op.op = "setRemoteOffer" /\ op.desc = Front(e).desc
          /\ peer'[e].ops = Append(Rest(e), op)
    BY <1>7
  <2>2. Steps(e, "rollback", op, Nothing, NoMessage)
    BY <1>1, <1>2, <1>3, <1>4, <2>1, ChainsReplaced DEF Steps
  <2>3. Legal("rollback", op.op, Nothing, NoMessage.type)
    BY <2>1, NothingSaid DEF Legal, Offering, Answering, Applying, Nothing
  <2>4. Numbers(e, op, NoMessage)
    BY <1>5, <1>7, <2>1, NothingSaid DEF Numbers
  <2>5. Links(e, NoMessage)
    BY <1>7, NothingSaid DEF Links, Only, Like, Fields
  <2>6. QED BY <2>2, <2>3, <2>4, <2>5, LinkedKept
<1>8. QED BY <1>1, <1>6, <1>7, RollbackDoes

LEMMA SetRemoteOfferLinks ==
  ASSUME LinkInv, LinkedInv, NEW e \in Ends, SetRemoteOffer(e)
  PROVE  LinkedInv' /\ (Negotiated => Negotiated')
<1>1. NegotiationTypeOK BY DEF LinkInv
<1>2. /\ Runs(e, "setRemoteOffer") /\ Turns(e) /\ net' = net
      /\ Only(e, {"ops", "signaling", "pending", "view", "reaches"})
      /\ peer'[e].signaling = "remote" /\ peer'[e].pending = Front(e).desc
  BY <1>1, SetRemoteOfferDoes
<1>3. peer'[Other(e)] = peer[Other(e)] BY <1>2 DEF Turns
<1>4. PICK op \in Operation :
        op.op = "createAnswer" /\ peer'[e].ops = Append(Rest(e), op)
  BY <1>1, SetRemoteOfferDoes
<1>5. Front(e).desc \in Numbered BY <1>2, FrontNumbered DEF Numbering
<1>6. Steps(e, "setRemoteOffer", op, Nothing, NoMessage)
  BY <1>1, <1>2, <1>3, <1>4, BoxesSame, ChainsReplaced DEF Steps
<1>7. Legal("setRemoteOffer", op.op, Nothing, NoMessage.type)
  BY <1>4, NothingSaid DEF Legal, Offering, Answering, Applying, Nothing
<1>8. Numbers(e, op, NoMessage) BY <1>2, <1>4, <1>5, NothingSaid DEF Numbers
<1>9. Links(e, NoMessage)
  BY <1>2, NothingSaid DEF Links, Only, Like, Fields
<1>10. QED BY <1>6, <1>7, <1>8, <1>9, LinkedKept

LEMMA CreateAnswerLinks ==
  ASSUME LinkInv, LinkedInv, NEW e \in Ends, CreateAnswer(e)
  PROVE  LinkedInv' /\ (Negotiated => Negotiated')
<1>1. NegotiationTypeOK BY DEF LinkInv
<1>2. Runs(e, "createAnswer") /\ Turns(e) /\ net' = net /\ Only(e, {"ops"})
  BY <1>1, CreateAnswerDoes
<1>3. peer'[Other(e)] = peer[Other(e)] BY <1>2 DEF Turns
<1>4. PICK op : /\ Chains(e, "createAnswer", op)
                /\ op.op \in {Nothing, "setAnswer"}
  <2>1. CASE peer'[e].ops = Rest(e)
    BY <1>1, <1>2, <2>1, ChainsTaken, NothingSaid
  <2>2. CASE \E op \in Operation : op.op = "setAnswer" /\ peer'[e].ops = Append(Rest(e), op)
    BY <1>1, <1>2, <2>2, ChainsReplaced
  <2>3. QED BY <1>1, <2>1, <2>2, CreateAnswerDoes
<1>5. Steps(e, "createAnswer", op, Nothing, NoMessage)
  BY <1>2, <1>3, <1>4, BoxesSame DEF Steps
<1>6. Legal("createAnswer", op.op, Nothing, NoMessage.type)
  BY <1>4, NothingSaid DEF Legal, Offering, Answering, Applying, Nothing
<1>7. Numbers(e, op, NoMessage)
  <2>1. peer'[e].signaling = peer[e].signaling /\ peer'[e].pending = peer[e].pending
    BY <1>2 DEF Only, Like, Fields
  <2>2. QED BY <1>4, <2>1, NothingSaid, PendingNumbered DEF Numbers
<1>8. Links(e, NoMessage)
  BY <1>2, NothingSaid DEF Links, Only, Like, Fields
<1>9. QED BY <1>5, <1>6, <1>7, <1>8, LinkedKept

LEMMA SetAnswerLinks ==
  ASSUME LinkInv, LinkedInv, NEW e \in Ends, SetAnswer(e)
  PROVE  LinkedInv' /\ (Negotiated => Negotiated')
<1>1. NegotiationTypeOK BY DEF LinkInv
<1>2. Runs(e, "setAnswer") /\ Turns(e) /\ peer'[e].ops = Rest(e) BY <1>1, SetAnswerDoes
<1>3. peer'[Other(e)] = peer[Other(e)] BY <1>2 DEF Turns
<1>5. CASE net' = net /\ Only(e, {"ops"})
  <2>1. Steps(e, "setAnswer", NoOperation, Nothing, NoMessage)
    BY <1>1, <1>2, <1>3, <1>5, BoxesSame, ChainsTaken DEF Steps
  <2>2. Legal("setAnswer", NoOperation.op, Nothing, NoMessage.type)
    BY NothingSaid DEF Legal, Offering, Answering, Applying, Nothing
  <2>3. Numbers(e, NoOperation, NoMessage)
    <3>1. peer'[e].signaling = peer[e].signaling /\ peer'[e].pending = peer[e].pending
      BY <1>5 DEF Only, Like, Fields
    <3>2. QED BY <3>1, NothingSaid, PendingNumbered DEF Numbers
  <2>4. Links(e, NoMessage)
    BY <1>5, NothingSaid DEF Links, Only, Like, Fields
  <2>5. QED BY <2>1, <2>2, <2>3, <2>4, LinkedKept
<1>6. CASE /\ peer[e].signaling = "remote"
           /\ Only(e, {"ops", "signaling", "pending", "session", "media", "sending",
                       "raised", "gathering"})
           /\ peer'[e].signaling = "stable" /\ peer'[e].session = peer[e].pending.id
           /\ peer'[e].gathering = TRUE
           /\ \E m \in Message, way \in Ways :
                m.type = Front(e).desc.type /\ Mails(e, way, m)
  <2>1. PICK m \in Message, way \in Ways :
          m.type = Front(e).desc.type /\ Mails(e, way, m)
    BY <1>6
  <2>2. Front(e).op = "setAnswer" /\ peer[e].ops # <<>> BY <1>2 DEF Runs, Front
  <2>3. m.type = "answer" BY <2>1, <2>2, WrittenRest
  <2>4. Steps(e, "setAnswer", NoOperation, Nothing, m)
    BY <1>1, <1>2, <1>3, <1>6, <2>1, BoxesSent, ChainsTaken DEF Steps
  <2>5. Legal("setAnswer", NoOperation.op, Nothing, m.type)
    BY <2>3, NothingSaid DEF Legal, Offering, Answering, Applying, Nothing
  <2>6. Numbers(e, NoOperation, m)
    BY <1>6, <2>3, NothingSaid DEF Numbers
  <2>7. peer'[e].session # None BY <1>6, PendingNumbered
  <2>8. Links(e, m)
    BY <1>6, <2>3, <2>7 DEF Links, Only, Like, Fields, Nothing
  <2>9. QED BY <2>4, <2>5, <2>6, <2>8, LinkedKept
<1>7. QED BY <1>1, <1>5, <1>6, SetAnswerDoes

LEMMA SetRemoteAnswerLinks ==
  ASSUME LinkInv, LinkedInv, NEW e \in Ends, SetRemoteAnswer(e)
  PROVE  LinkedInv' /\ (Negotiated => Negotiated')
<1>1. NegotiationTypeOK BY DEF LinkInv
<1>2. Runs(e, "setRemoteAnswer") /\ Turns(e) /\ peer'[e].ops = Rest(e) /\ net' = net
  BY <1>1, SetRemoteAnswerDoes
<1>3. peer'[Other(e)] = peer[Other(e)] BY <1>2 DEF Turns
<1>4. Steps(e, "setRemoteAnswer", NoOperation, Nothing, NoMessage)
  BY <1>1, <1>2, <1>3, BoxesSame, ChainsTaken DEF Steps
<1>5. Legal("setRemoteAnswer", NoOperation.op, Nothing, NoMessage.type)
  BY NothingSaid DEF Legal, Offering, Answering, Applying, Nothing
<1>6. Numbers(e, NoOperation, NoMessage) /\ Links(e, NoMessage)
  <2>1. CASE Only(e, {"ops"})
    <3>1. peer'[e].signaling = peer[e].signaling /\ peer'[e].pending = peer[e].pending
      BY <2>1 DEF Only, Like, Fields
    <3>2. Numbers(e, NoOperation, NoMessage)
      BY <3>1, NothingSaid, PendingNumbered DEF Numbers
    <3>3. QED BY <2>1, <3>2, NothingSaid DEF Links, Only, Like, Fields
  <2>2. CASE /\ peer[e].signaling = "local" /\ peer'[e].signaling = "stable"
             /\ Only(e, {"ops", "signaling", "pending", "session", "media", "sending",
                         "raised", "view", "reaches"})
             /\ peer'[e].session = peer[e].pending.id
    <3>1. peer'[e].session # None BY <2>2, PendingNumbered
    <3>2. Numbers(e, NoOperation, NoMessage) BY <2>2, NothingSaid DEF Numbers
    <3>3. QED BY <2>2, <3>1, <3>2, NothingSaid DEF Links, Only, Like, Fields
  <2>3. QED BY <1>1, <2>1, <2>2, SetRemoteAnswerDoes
<1>7. QED BY <1>4, <1>5, <1>6, LinkedKept

LEMMA NumbersSame ==
  ASSUME LinkedInv, NEW e \in Ends, NEW op, op.op \notin Numbering, NEW m, m.type # "offer",
         peer'[e].signaling = peer[e].signaling, peer'[e].pending = peer[e].pending
  PROVE  Numbers(e, op, m)
BY PendingNumbered DEF Numbers

LEMMA OnRemoteOfferLinks ==
  ASSUME LinkInv, LinkedInv, NEW e \in Ends, NEW way \in Ways, onRemoteOffer(e, way)
  PROVE  LinkedInv' /\ (Negotiated => Negotiated')
<1>1. NegotiationTypeOK BY DEF LinkInv
<1>2. /\ Turns(e) /\ Takes(e, way) /\ Head(net[e][way]).type = "offer"
      /\ peer'[e].ignoring => peer[e].role = "impolite"
  BY <1>1, OnRemoteOfferDoes
<1>3. peer'[Other(e)] = peer[Other(e)] BY <1>2 DEF Turns
<1>4. Head(net[e][way]) \in Numbered
  <2>1. MailHolds(net[e], {"offer"}, Numbered) BY DEF LinkedInv, NumberedInv
  <2>2. "offer" \in {"offer"} OBVIOUS
  <2>3. QED BY <1>1, <1>2, <2>1, <2>2, MailHoldsTaken
<1>5. PICK op : /\ Chains(e, Nothing, op) /\ op.op \in {Nothing, "rollback", "setRemoteOffer"}
                /\ op.op # Nothing => op.desc = Head(net[e][way])
  <2>1. CASE peer'[e].ops = peer[e].ops BY <2>1, ChainsSame, NothingSaid
  <2>2. CASE \E op \in Operation :
               /\ op.op \in {"rollback", "setRemoteOffer"} /\ op.desc = Head(net[e][way])
               /\ peer'[e].ops = Append(peer[e].ops, op)
    BY <1>1, <2>2, ChainsAdded
  <2>3. Same(e, {}) => peer'[e].ops = peer[e].ops BY SameIs
  <2>4. QED BY <1>1, <2>1, <2>2, <2>3, OnRemoteOfferDoes
<1>6. Only(e, {"ignoring", "making", "aborted", "ops"})
  BY <1>1, OnRemoteOfferDoes DEF Only, Like, Fields
<1>7. Steps(e, Nothing, op, "offer", NoMessage)
  BY <1>1, <1>2, <1>3, <1>5, BoxesTaken DEF Steps
<1>8. Legal(Nothing, op.op, "offer", NoMessage.type)
  BY <1>5, NothingSaid DEF Legal, Offering, Answering, Applying, Nothing
<1>9. /\ peer'[e].signaling = peer[e].signaling /\ peer'[e].pending = peer[e].pending
      /\ peer'[e].channel = peer[e].channel /\ peer'[e].ice = peer[e].ice
      /\ peer'[e].session = peer[e].session
  BY <1>6 DEF Only, Like, Fields
<1>10. Numbers(e, op, NoMessage)
  BY <1>4, <1>5, <1>9, PendingNumbered, NothingSaid DEF Numbers
<1>11. e = Host => ~peer'[e].ignoring
  <2>1. peer[Host].role \in {"none", "polite"} BY DEF LinkInv, Negotiating, Beginnings
  <2>2. QED BY <1>2, <2>1
<1>12. Links(e, NoMessage)
  BY <1>6, <1>9, <1>11, NothingSaid DEF Links, Only, Like, Fields
<1>13. QED BY <1>7, <1>8, <1>10, <1>12, LinkedKept

LEMMA OnRemoteAnswerLinks ==
  ASSUME LinkInv, LinkedInv, NEW e \in Ends, NEW way \in Ways, onRemoteAnswer(e, way)
  PROVE  LinkedInv' /\ (Negotiated => Negotiated')
<1>1. NegotiationTypeOK BY DEF LinkInv
<1>2. Turns(e) /\ Takes(e, way) /\ Head(net[e][way]).type = "answer"
  BY <1>1, OnRemoteAnswerDoes
<1>3. peer'[Other(e)] = peer[Other(e)] BY <1>2 DEF Turns
<1>4. PICK op : Chains(e, Nothing, op) /\ op.op \in {Nothing, "setRemoteAnswer"}
  <2>1. CASE peer'[e].ops = peer[e].ops BY <2>1, ChainsSame, NothingSaid
  <2>2. CASE \E op \in Operation :
               op.op = "setRemoteAnswer" /\ peer'[e].ops = Append(peer[e].ops, op)
    BY <1>1, <2>2, ChainsAdded
  <2>3. Same(e, {}) => peer'[e].ops = peer[e].ops BY SameIs
  <2>4. QED BY <1>1, <2>1, <2>2, <2>3, OnRemoteAnswerDoes
<1>5. Only(e, {"making", "ops"}) BY <1>1, OnRemoteAnswerDoes DEF Only, Like, Fields
<1>6. Steps(e, Nothing, op, "answer", NoMessage)
  BY <1>1, <1>2, <1>3, <1>4, BoxesTaken DEF Steps
<1>7. Legal(Nothing, op.op, "answer", NoMessage.type)
  BY <1>4, NothingSaid DEF Legal, Offering, Answering, Applying, Nothing
<1>8. Numbers(e, op, NoMessage)
  <2>1. peer'[e].signaling = peer[e].signaling /\ peer'[e].pending = peer[e].pending
    BY <1>5 DEF Only, Like, Fields
  <2>2. QED BY <1>4, <2>1, NothingSaid, NumbersSame
<1>9. Links(e, NoMessage)
  BY <1>5, NothingSaid DEF Links, Only, Like, Fields
<1>10. QED BY <1>6, <1>7, <1>8, <1>9, LinkedKept

\* The steps that chain nothing; message m is a candidate if there is one.
LEMMA IdleLinks ==
  ASSUME LinkInv, LinkedInv, NEW e \in Ends, NEW took \in {Nothing, "candidate", "connected"},
         NEW m, m.type \in {Nothing, "candidate"}, m.type # Nothing => took = Nothing,
         Steps(e, Nothing, NoOperation, took, m), Links(e, m),
         peer'[e].signaling = peer[e].signaling, peer'[e].pending = peer[e].pending
  PROVE  LinkedInv' /\ (Negotiated => Negotiated')
<1>1. Legal(Nothing, NoOperation.op, took, m.type)
  BY NothingSaid DEF Legal, Offering, Answering, Applying, Nothing
<1>2. Numbers(e, NoOperation, m) BY NothingSaid, NumbersSame DEF Nothing
<1>3. QED BY <1>1, <1>2, LinkedKept

\* A new offer is chained.
LEMMA StartLinks ==
  ASSUME LinkInv, LinkedInv, NEW e \in Ends, Turns(e), net' = net,
         NEW op \in Operation, op.op = "createOffer", peer'[e].ops = Append(peer[e].ops, op),
         Links(e, NoMessage),
         peer'[e].signaling = peer[e].signaling, peer'[e].pending = peer[e].pending
  PROVE  LinkedInv' /\ (Negotiated => Negotiated')
<1>1. NegotiationTypeOK BY DEF LinkInv
<1>2. Steps(e, Nothing, op, Nothing, NoMessage)
  BY <1>1, BoxesSame, ChainsAdded DEF Steps, Turns
<1>3. Legal(Nothing, op.op, Nothing, NoMessage.type)
  BY NothingSaid DEF Legal, Offering, Answering, Applying, Nothing
<1>4. Numbers(e, op, NoMessage) BY NothingSaid, NumbersSame
<1>5. QED BY <1>2, <1>3, <1>4, LinkedKept

LEMMA OnRemoteIceCandidateLinks ==
  ASSUME LinkInv, LinkedInv, NEW e \in Ends, NEW way \in Ways, onRemoteIceCandidate(e, way)
  PROVE  LinkedInv' /\ (Negotiated => Negotiated')
<1>1. NegotiationTypeOK BY DEF LinkInv
<1>2. /\ Turns(e) /\ Takes(e, way) /\ Head(net[e][way]).type = "candidate"
      /\ Only(e, {"reaches"})
  BY <1>1, OnRemoteIceCandidateDoes
<1>4. /\ peer'[Other(e)] = peer[Other(e)] /\ peer'[e].ops = peer[e].ops
      /\ peer'[e].signaling = peer[e].signaling /\ peer'[e].pending = peer[e].pending
  BY <1>2 DEF Turns, Only, Like, Fields
<1>5. Steps(e, Nothing, NoOperation, "candidate", NoMessage)
  BY <1>1, <1>2, <1>4, BoxesTaken, ChainsSame DEF Steps
<1>6. Links(e, NoMessage)
  BY <1>2, NothingSaid DEF Links, Only, Like, Fields
<1>7. QED BY <1>4, <1>5, <1>6, NothingSaid, IdleLinks

LEMMA ShareLinks ==
  ASSUME LinkInv, LinkedInv, NEW e \in Ends, Share(e)
  PROVE  LinkedInv' /\ (Negotiated => Negotiated')
<1>1. NegotiationTypeOK BY DEF LinkInv
<1>2. Turns(e) /\ net' = net /\ Only(e, {"share", "shares"}) BY <1>1, ShareDoes
<1>3. /\ peer'[Other(e)] = peer[Other(e)] /\ peer'[e].ops = peer[e].ops
      /\ peer'[e].signaling = peer[e].signaling /\ peer'[e].pending = peer[e].pending
  BY <1>2 DEF Turns, Only, Like, Fields
<1>4. Steps(e, Nothing, NoOperation, Nothing, NoMessage)
  BY <1>2, <1>3, BoxesSame, ChainsSame DEF Steps
<1>5. Links(e, NoMessage)
  BY <1>2, NothingSaid DEF Links, Only, Like, Fields
<1>6. QED BY <1>3, <1>4, <1>5, NothingSaid, IdleLinks

LEMMA OnNegotiationNeededLinks ==
  ASSUME LinkInv, LinkedInv, NEW e \in Ends, OnNegotiationNeeded(e)
  PROVE  LinkedInv' /\ (Negotiated => Negotiated')
<1>1. NegotiationTypeOK BY DEF LinkInv
<1>2. Turns(e) /\ net' = net BY <1>1, OnNegotiationNeededDoes
<1>3. Only(e, {"raised", "making", "ops"})
  BY <1>1, OnNegotiationNeededDoes DEF Only, Like, Fields
<1>4. /\ peer'[Other(e)] = peer[Other(e)]
      /\ peer'[e].signaling = peer[e].signaling /\ peer'[e].pending = peer[e].pending
  BY <1>2, <1>3 DEF Turns, Only, Like, Fields
<1>5. Links(e, NoMessage)
  BY <1>3, NothingSaid DEF Links, Only, Like, Fields
<1>6. CASE Same(e, {})
  <2>1. peer'[e].ops = peer[e].ops BY <1>6, SameIs
  <2>2. Steps(e, Nothing, NoOperation, Nothing, NoMessage)
    BY <1>2, <1>4, <2>1, BoxesSame, ChainsSame DEF Steps
  <2>3. QED BY <1>4, <1>5, <2>2, NothingSaid, IdleLinks
<1>7. CASE \E op \in Operation :
             op.op = "createOffer" /\ peer'[e].ops = Append(peer[e].ops, op)
  BY <1>2, <1>4, <1>5, <1>7, StartLinks
<1>8. QED BY <1>1, <1>6, <1>7, OnNegotiationNeededDoes

LEMMA OnIceCandidateLinks ==
  ASSUME LinkInv, LinkedInv, NEW e \in Ends, OnIceCandidate(e)
  PROVE  LinkedInv' /\ (Negotiated => Negotiated')
<1>1. NegotiationTypeOK BY DEF LinkInv
<1>2. Turns(e) /\ Only(e, {"candidates"}) BY <1>1, OnIceCandidateDoes
<1>3. PICK m \in Message, way \in Ways : m.type = "candidate" /\ Mails(e, way, m)
  BY <1>1, OnIceCandidateDoes
<1>4. /\ peer'[Other(e)] = peer[Other(e)] /\ peer'[e].ops = peer[e].ops
      /\ peer'[e].signaling = peer[e].signaling /\ peer'[e].pending = peer[e].pending
  BY <1>2 DEF Turns, Only, Like, Fields
<1>5. Steps(e, Nothing, NoOperation, Nothing, m)
  BY <1>1, <1>3, <1>4, BoxesSent, ChainsSame DEF Steps
<1>6. Links(e, m)
  BY <1>2, <1>3 DEF Links, Only, Like, Fields, Nothing
<1>7. QED BY <1>3, <1>4, <1>5, <1>6, IdleLinks

LEMMA OnIceConnectedLinks ==
  ASSUME LinkInv, LinkedInv, NEW e \in Ends, OnIceConnected(e)
  PROVE  LinkedInv' /\ (Negotiated => Negotiated')
<1>1. NegotiationTypeOK BY DEF LinkInv
<1>2. Turns(e) /\ net' = net /\ Reachable BY <1>1, OnIceConnectedDoes
<1>3. Only(e, {"ice", "aborted", "making", "ops"})
  BY <1>1, OnIceConnectedDoes DEF Only, Like, Fields
<1>4. /\ peer'[Other(e)] = peer[Other(e)]
      /\ peer'[e].signaling = peer[e].signaling /\ peer'[e].pending = peer[e].pending
  BY <1>2, <1>3 DEF Turns, Only, Like, Fields
<1>5. Links(e, NoMessage)
  BY <1>2, <1>3, NothingSaid DEF Links, Only, Like, Fields, Reachable
<1>6. CASE Same(e, {"ice"})
  <2>1. peer'[e].ops = peer[e].ops BY <1>6, SameIs
  <2>2. Steps(e, Nothing, NoOperation, Nothing, NoMessage)
    BY <1>2, <1>4, <2>1, BoxesSame, ChainsSame DEF Steps
  <2>3. QED BY <1>4, <1>5, <2>2, NothingSaid, IdleLinks
<1>7. CASE \E op \in Operation :
             op.op = "createOffer" /\ peer'[e].ops = Append(peer[e].ops, op)
  BY <1>2, <1>4, <1>5, <1>7, StartLinks
<1>8. QED BY <1>1, <1>6, <1>7, OnIceConnectedDoes

LEMMA OnIceDisconnectedLinks ==
  ASSUME LinkInv, LinkedInv, NEW e \in Ends, OnIceDisconnected(e)
  PROVE  LinkedInv' /\ (Negotiated => Negotiated')
<1>1. NegotiationTypeOK BY DEF LinkInv
<1>2. Turns(e) /\ net' = net /\ Only(e, {"ice"}) /\ peer[e].ice = "connected"
  BY <1>1, OnIceDisconnectedDoes
<1>3. /\ peer'[Other(e)] = peer[Other(e)] /\ peer'[e].ops = peer[e].ops
      /\ peer'[e].signaling = peer[e].signaling /\ peer'[e].pending = peer[e].pending
  BY <1>2 DEF Turns, Only, Like, Fields
<1>4. Steps(e, Nothing, NoOperation, Nothing, NoMessage)
  BY <1>2, <1>3, BoxesSame, ChainsSame DEF Steps
<1>5. Negotiated BY <1>2 DEF LinkedInv, MetInv
<1>6. Links(e, NoMessage)
  BY <1>2, <1>5, NothingSaid DEF Links, Only, Like, Fields
<1>7. QED BY <1>3, <1>4, <1>6, NothingSaid, IdleLinks

LEMMA OnDataChannelOpenLinks ==
  ASSUME LinkInv, LinkedInv, NEW e \in Ends, OnDataChannelOpen(e)
  PROVE  LinkedInv' /\ (Negotiated => Negotiated')
<1>1. NegotiationTypeOK BY DEF LinkInv
<1>2. /\ Turns(e) /\ net' = net /\ peer'[e].channel = "open"
      /\ \A d \in Ends : peer[d].ice # "new"
  BY <1>1, OnDataChannelOpenDoes
<1>3. Only(e, {"channel", "making", "ops"})
  BY <1>1, OnDataChannelOpenDoes DEF Only, Like, Fields
<1>4. /\ peer'[Other(e)] = peer[Other(e)]
      /\ peer'[e].signaling = peer[e].signaling /\ peer'[e].pending = peer[e].pending
  BY <1>2, <1>3 DEF Turns, Only, Like, Fields
<1>5. Links(e, NoMessage)
  BY <1>2, <1>3, NothingSaid DEF Links, Only, Like, Fields
<1>6. CASE Same(e, {"channel"})
  <2>1. peer'[e].ops = peer[e].ops BY <1>6, SameIs
  <2>2. Steps(e, Nothing, NoOperation, Nothing, NoMessage)
    BY <1>2, <1>4, <2>1, BoxesSame, ChainsSame DEF Steps
  <2>3. QED BY <1>4, <1>5, <2>2, NothingSaid, IdleLinks
<1>7. CASE \E op \in Operation :
             op.op = "createOffer" /\ peer'[e].ops = Append(peer[e].ops, op)
  BY <1>2, <1>4, <1>5, <1>7, StartLinks
<1>8. QED BY <1>1, <1>6, <1>7, OnDataChannelOpenDoes

\* It is the host who comes, and nothing but its role and stream is new.
LEMMA OnUserConnectedIs ==
  ASSUME LinkInv, NEW e \in Ends, OnUserConnected(e)
  PROVE  /\ e = Host /\ Turns(e) /\ Only(e, {"role", "share"})
         /\ Steps(e, Nothing, NoOperation, "connected", NoMessage)
         /\ peer[Host] = OtherPeer("none", FALSE)
<1>1. NegotiationTypeOK /\ Beginnings BY DEF LinkInv, Negotiating
<1>2. /\ Turns(e) /\ Takes(e, "relay") /\ Head(net[e]["relay"]).type = "connected"
      /\ \E share \in BOOLEAN : peer'[e] = OtherPeer("polite", share)
  BY <1>1, OnUserConnectedDoes
<1>3. "relay" \in Ways /\ "connected" \in Types BY DEF Ways, Types
<1>4. Boxes(e, "connected", NoMessage) BY <1>1, <1>2, <1>3, BoxesTaken
<1>5. Mail(net[e], "connected")
  <2>1. MailMoves(net[e], net'[e], "connected", Nothing, "connected")
    BY <1>3, <1>4 DEF Boxes, BoxMoves
  <2>2. QED BY <2>1 DEF MailMoves
<1>6. e = Host BY <1>1, <1>5 DEF Ends, Beginnings
<1>7. peer[Host].role = "none" /\ peer[Host] = OtherPeer("none", FALSE)
  BY <1>1, <1>5, <1>6 DEF Beginnings
<1>8. Only(e, {"role", "share"})
  <2>1. PICK share \in BOOLEAN : peer'[e] = OtherPeer("polite", share) BY <1>2
  <2>2. PICK p, q : p = peer[e] /\ q = peer'[e] OBVIOUS
  <2>3. p = OtherPeer("none", FALSE) /\ q = OtherPeer("polite", share)
    BY <1>6, <1>7, <2>1, <2>2
  <2>4. /\ q.making = p.making /\ q.ignoring = p.ignoring /\ q.aborted = p.aborted
        /\ q.view = p.view /\ q.media = p.media /\ q.sending = p.sending
        /\ q.raised = p.raised /\ q.reaches = p.reaches /\ q.gathering = p.gathering
    BY ONLY <2>3 DEF OtherPeer
  <2>5. /\ q.channel = p.channel /\ q.signaling = p.signaling /\ q.ops = p.ops
        /\ q.pending = p.pending /\ q.session = p.session /\ q.ice = p.ice
        /\ q.candidates = p.candidates /\ q.made = p.made /\ q.shares = p.shares
    BY ONLY <2>3 DEF OtherPeer
  <2>6. Like(p, q, {"role", "share"}) BY ONLY <2>4, <2>5 DEF Like, Fields
  <2>7. QED BY <2>2, <2>6 DEF Only
<1>9. peer'[e].ops = peer[e].ops BY <1>8 DEF Only, Like, Fields
<1>10. Chains(e, Nothing, NoOperation) BY <1>9, ChainsSame
<1>11. QED BY <1>2, <1>4, <1>6, <1>7, <1>8, <1>10 DEF Steps, Turns

LEMMA OnUserConnectedLinks ==
  ASSUME LinkInv, LinkedInv, NEW e \in Ends, OnUserConnected(e)
  PROVE  LinkedInv' /\ (Negotiated => Negotiated')
<1>1. /\ Only(e, {"role", "share"})
      /\ Steps(e, Nothing, NoOperation, "connected", NoMessage)
  BY OnUserConnectedIs
<1>2. peer'[e].signaling = peer[e].signaling /\ peer'[e].pending = peer[e].pending
  BY <1>1 DEF Only, Like, Fields
<1>3. Links(e, NoMessage)
  BY <1>1, NothingSaid DEF Links, Only, Like, Fields
<1>4. QED BY <1>1, <1>2, <1>3, NothingSaid, IdleLinks

-----------------------------------------------------------------------------
(* What holds of the link as long as the newcomer has shared nothing: it   *)
(* offers once, before the host does, and that negotiation shows nobody    *)
(* anything; from then on the offers are the host's, one at a time.        *)

Alone == peer[Newcomer].shares = 0
Busy(e) == Prepared(e) \/ Out(e) \/ Applied(e)
Shown(b) == {d \in Description : d.share = b}
Silent == {d \in Description : ~d.media /\ ~d.share}
Telling == {"setOffer", "setAnswer", "rollback", "setRemoteOffer", "setRemoteAnswer"}
\* The newcomer has applied the host's offer.
Told == InOps(peer[Newcomer].ops, Replying) \/ Answered(Host) \/ Applied(Host)

Orderly(e) ==
  /\ peer[e].making <=> Prepared(e) \/ Out(e)
  /\ peer[e].signaling = "local" <=> Out(e) \/ Applied(e)
  /\ Prepared(e) => peer[e].signaling = "stable"
PlainInv ==
  /\ OneOut(Host) /\ ~peer[Host].aborted /\ Orderly(Host)
  /\ \A e \in Ends : ~InOps(peer[e].ops, Rolling)
  /\ InOps(peer[Newcomer].ops, Replying) => peer[Newcomer].signaling = "remote"
OnceInv ==
  /\ ~peer[Newcomer].share /\ ~peer[Newcomer].sending
  /\ Holds(peer[Newcomer].ops, {"setAnswer"}, Shown(FALSE))
  /\ peer[Newcomer].session # None =>
       /\ ~peer[Newcomer].raised /\ ~peer[Newcomer].making
       /\ peer[Newcomer].signaling # "local" /\ peer[Host].session # None
  /\ peer[Newcomer].session = None /\ peer[Newcomer].raised =>
       peer[Newcomer].making \/ Applied(Newcomer)
  /\ peer[Host].channel = "open" /\ peer[Host].raised => peer[Host].making \/ Applied(Host)
SilentInv ==
  peer[Newcomer].session = None =>
    /\ ~peer[Newcomer].media /\ ~peer[Newcomer].view /\ ~peer[Host].sending
    /\ \A e \in Ends : /\ Holds(peer[e].ops, Telling, Silent)
                       /\ MailHolds(net[e], {"offer", "answer"}, Silent)
                       /\ peer[e].signaling # "stable" => peer[e].pending \in Silent
\* What the newcomer sees is what the host sends, or what it has offered to
\* send since the newcomer has applied that.
ViewInv ==
  /\ Told => peer[Newcomer].view = peer[Host].pending.share
  /\ ~Told => peer[Newcomer].view = peer[Host].sending
  /\ peer[Host].signaling = "local" =>
       /\ MailHolds(net[Newcomer], {"offer"}, Shown(peer[Host].pending.share))
       /\ Holds(peer[Newcomer].ops, {"setRemoteOffer"}, Shown(peer[Host].pending.share))
AloneInv == PlainInv /\ OnceInv /\ SilentInv /\ ViewInv
SeenInv == LinkedInv /\ (Alone => AloneInv)

\* Who is at it.
LEMMA Phases ==
  ASSUME LinkInv, SeenInv, Alone
  PROVE  /\ AloneInv /\ LinkedInv /\ Orderly(Newcomer) /\ OneOut(Newcomer)
         /\ Busy(Host) => /\ peer[Host].channel = "open" /\ Negotiated
                          /\ peer[Newcomer].session # None /\ ~Busy(Newcomer)
         /\ ~Busy(Host) => ~peer[Host].making /\ peer[Host].signaling # "local"
         /\ Busy(Newcomer) => peer[Newcomer].session = None /\ ~Busy(Host)
         /\ ~Busy(Newcomer) => /\ ~InOps(peer[Host].ops, Answering)
                               /\ peer[Host].signaling # "remote"
         /\ ~Busy(Host) => ~Told
         /\ Negotiated => ~Busy(Newcomer)
<1>1. /\ AloneInv /\ LinkedInv /\ NewcomerInv /\ HostInv /\ OneOut(Newcomer)
      /\ RemoteInv
  BY EndsAre DEF SeenInv, LinkInv, Negotiating, OneInv, Sure
<1>2. Orderly(Newcomer) BY <1>1 DEF NewcomerInv, Orderly
<1>3. /\ Other(Newcomer) = Host /\ Other(Host) = Newcomer
      /\ Newcomer \in Ends /\ Host \in Ends
  BY EndsAre
<1>4. peer[Newcomer].session # None => ~Busy(Newcomer)
  BY <1>1, <1>2 DEF AloneInv, OnceInv, Orderly, Busy
<1>5. ASSUME Busy(Host)
      PROVE  peer[Host].channel = "open" /\ Negotiated /\ peer[Newcomer].session # None
  <2>1. peer[Host].making \/ peer[Host].signaling = "local"
    BY <1>1, <1>5 DEF AloneInv, PlainInv, Orderly, Busy
  <2>2. peer[Host].channel = "open" BY <1>1, <2>1 DEF HostInv
  <2>3. QED BY <1>1, <1>3, <2>2 DEF LinkedInv, MetInv, Negotiated
<1>6. ~Busy(Host) => ~peer[Host].making /\ peer[Host].signaling # "local"
  BY <1>1 DEF AloneInv, PlainInv, Orderly, Busy
<1>7. ASSUME ~Busy(Newcomer)
      PROVE  ~InOps(peer[Host].ops, Answering) /\ peer[Host].signaling # "remote"
  <2>1. ~InOps(peer[Host].ops, Answering) BY <1>3, <1>7 DEF Busy, Out, Considered
  <2>2. ~InOps(peer[Host].ops, Replying) BY <2>1, Parts
  <2>3. QED BY <1>1, <1>3, <2>1, <2>2 DEF RemoteInv, RemoteOf
<1>8. ~Busy(Host) => ~Told
  BY <1>3, Parts DEF Busy, Told, Out, Considered
<1>9. Negotiated => ~Busy(Newcomer) BY <1>3, <1>4 DEF Negotiated
<1>10. QED BY <1>1, <1>2, <1>4, <1>5, <1>6, <1>7, <1>8, <1>9

LEMMA OutKept ==
  ASSUME NEW e \in Ends, NEW out, NEW in, NEW took, NEW sent, Acts(e, out, in, took, sent),
         Legal(out, in, took, sent), Answers(out, in, took, sent)
  PROVE  /\ Out(Other(e))' <=> Out(Other(e))
         /\ Prepared(Other(e))' <=> Prepared(Other(e))
         /\ Applied(Other(e))' <=> Applied(Other(e))
<1>1. PICK o : o = Other(e) OBVIOUS
<1>2. o \in Ends /\ Other(o) = e BY <1>1, EndsAre
<1>3. /\ Moves(peer[e].ops, peer'[e].ops, out, in, Answering)
      /\ MailMoves(net[e], net'[e], took, Nothing, "offer")
      /\ MailMoves(net[o], net'[o], Nothing, sent, "answer")
      /\ peer'[o] = peer[o]
  BY <1>1 DEF Acts, ChainMoves, BoxMoves, Kinds, Types
<1>4. Out(o)' <=> Out(o)
  BY <1>2, <1>3 DEF Out, Offered, Considered, Answered, Moves, MailMoves, Legal, Answers,
                    Answering, Nothing
<1>5. (Prepared(o)' <=> Prepared(o)) /\ (Applied(o)' <=> Applied(o))
  BY <1>3 DEF Prepared, Applied
<1>6. QED BY <1>1, <1>4, <1>5

LEMMA ToldKept ==
  ASSUME NEW e \in Ends, NEW out, NEW op, NEW took, NEW m, Steps(e, out, op, took, m),
         e = Newcomer => out \notin Replying /\ op.op \notin Replying /\ m.type # "answer",
         e = Host => out \notin Applying /\ op.op \notin Applying /\ took # "answer"
  PROVE  Told' <=> Told
<1>1. /\ Other(Newcomer) = Host /\ Other(Host) = Newcomer
      /\ e = Newcomer \/ e = Host
      /\ Newcomer \in Ends /\ Host \in Ends
  BY EndsAre DEF Ends
<1>2. Acts(e, out, op.op, took, m.type) /\ peer'[Other(e)] = peer[Other(e)] BY StepsIs
<1>3. "answer" \in Types BY DEF Types
<1>4. CASE e = Newcomer
  <2>1. /\ Moves(peer[Newcomer].ops, peer'[Newcomer].ops, out, op.op, Replying)
        /\ MailMoves(net[Host], net'[Host], Nothing, m.type, "answer")
    BY <1>1, <1>2, <1>3, <1>4, ActsIs, StepsIs
  <2>2. InOps(peer'[Newcomer].ops, Replying) <=> InOps(peer[Newcomer].ops, Replying)
    BY <1>4, <2>1 DEF Moves
  <2>3. Answered(Host)' <=> Answered(Host)
    BY <1>4, <2>1 DEF MailMoves, Answered, Nothing
  <2>4. Applied(Host)' <=> Applied(Host) BY <1>1, <1>2, <1>4 DEF Applied
  <2>5. QED BY <2>2, <2>3, <2>4 DEF Told
<1>5. CASE e = Host
  <2>1. /\ Moves(peer[Host].ops, peer'[Host].ops, out, op.op, Applying)
        /\ MailMoves(net[Host], net'[Host], took, Nothing, "answer")
    BY <1>2, <1>3, <1>5, ActsIs, StepsIs
  <2>2. InOps(peer'[Newcomer].ops, Replying) <=> InOps(peer[Newcomer].ops, Replying)
    BY <1>1, <1>2, <1>5
  <2>3. Answered(Host)' <=> Answered(Host)
    BY <1>5, <2>1 DEF MailMoves, Answered, Nothing
  <2>4. Applied(Host)' <=> Applied(Host) BY <1>5, <2>1 DEF Moves, Applied
  <2>5. QED BY <2>2, <2>3, <2>4 DEF Told
<1>6. QED BY <1>1, <1>4, <1>5

LEMMA SilentKept ==
  ASSUME SilentInv, NEW e \in Ends, NEW out, NEW op, NEW took, NEW m,
         Steps(e, out, op, took, m), peer'[Newcomer].session = None,
         peer[Newcomer].session = None,
         ~peer'[Newcomer].media, ~peer'[Newcomer].view, ~peer'[Host].sending,
         op.op \in Telling => op.desc \in Silent,
         m.type \in {"offer", "answer"} => m \in Silent,
         peer'[e].signaling # "stable" => peer'[e].pending \in Silent
  PROVE  SilentInv'
<1>1. PICK o : o = Other(e) OBVIOUS
<1>2. o \in Ends /\ \A d \in Ends : d = e \/ d = o BY <1>1, EndsAre
<1>3. \A d \in Ends : /\ Holds(peer[d].ops, Telling, Silent)
                      /\ MailHolds(net[d], {"offer", "answer"}, Silent)
                      /\ peer[d].signaling # "stable" => peer[d].pending \in Silent
  BY DEF SilentInv
<1>4. peer'[o] = peer[o] BY <1>1 DEF Steps
<1>5. Holds(peer'[e].ops, Telling, Silent) BY <1>3 DEF Steps, Chains
<1>6. /\ MailHolds(net'[e], {"offer", "answer"}, Silent)
      /\ MailHolds(net'[o], {"offer", "answer"}, Silent)
  BY <1>1, <1>2, <1>3 DEF Steps, Boxes
<1>7. \A d \in Ends : /\ Holds(peer'[d].ops, Telling, Silent)
                      /\ MailHolds(net'[d], {"offer", "answer"}, Silent)
                      /\ peer'[d].signaling # "stable" => peer'[d].pending \in Silent
  BY <1>2, <1>3, <1>4, <1>5, <1>6
<1>8. QED BY <1>7 DEF SilentInv

\* What a step of the newcomer must do.
LEMMA NewcomerSees ==
  ASSUME AloneInv, NEW out, NEW op, NEW took, NEW m,
         Steps(Newcomer, out, op, took, m), Legal(out, op.op, took, m.type),
         Answers(out, op.op, took, m.type), op.op # "rollback",
         InOps(peer'[Newcomer].ops, Replying) => peer'[Newcomer].signaling = "remote",
         ~peer'[Newcomer].share, ~peer'[Newcomer].sending,
         op.op = "setAnswer" => op.desc \in Shown(FALSE),
         peer'[Newcomer].session # None =>
           /\ ~peer'[Newcomer].raised /\ ~peer'[Newcomer].making
           /\ peer'[Newcomer].signaling # "local" /\ peer[Host].session # None,
         peer'[Newcomer].session = None /\ peer'[Newcomer].raised =>
           peer'[Newcomer].making \/ Applied(Newcomer)',
         peer'[Newcomer].session = None =>
           /\ peer[Newcomer].session = None
           /\ ~peer'[Newcomer].media /\ ~peer'[Newcomer].view
           /\ op.op \in Telling => op.desc \in Silent
           /\ m.type \in {"offer", "answer"} => m \in Silent
           /\ peer'[Newcomer].signaling # "stable" => peer'[Newcomer].pending \in Silent,
         Told' => peer'[Newcomer].view = peer[Host].pending.share,
         ~Told' => peer'[Newcomer].view = peer[Host].sending,
         op.op = "setRemoteOffer" => op.desc \in Shown(peer[Host].pending.share)
  PROVE  AloneInv'
<1>1. /\ Acts(Newcomer, out, op.op, took, m.type) /\ peer'[Host] = peer[Host]
      /\ Newcomer \in Ends /\ Host \in Ends /\ Other(Newcomer) = Host
      /\ \A d \in Ends : d = Newcomer \/ d = Host
  BY StepsIs, EndsAre DEF Ends
<1>2. PlainInv'
  <2>1. OneOut(Host)' BY <1>1, OthersOneKept DEF AloneInv, PlainInv
  <2>2. /\ Out(Host)' <=> Out(Host)
        /\ Prepared(Host)' <=> Prepared(Host)
        /\ Applied(Host)' <=> Applied(Host)
    BY <1>1, OutKept
  <2>3. Orderly(Host)' BY <1>1, <2>2 DEF AloneInv, PlainInv, Orderly
  <2>4. ~InOps(peer'[Newcomer].ops, Rolling)
    <3>1. Moves(peer[Newcomer].ops, peer'[Newcomer].ops, out, op.op, Rolling)
      BY <1>1, ActsIs
    <3>2. op.op \notin Rolling BY DEF Rolling
    <3>3. QED BY <1>1, <3>1, <3>2 DEF Moves, AloneInv, PlainInv
  <2>5. QED BY <1>1, <2>1, <2>3, <2>4 DEF AloneInv, PlainInv
<1>3. OnceInv'
  <2>1. Holds(peer'[Newcomer].ops, {"setAnswer"}, Shown(FALSE))
    <3>1. op.op \in {"setAnswer"} => op.desc \in Shown(FALSE) OBVIOUS
    <3>2. QED BY <1>1, <3>1 DEF Steps, Chains, AloneInv, OnceInv
  <2>2. Applied(Host)' <=> Applied(Host) BY <1>1 DEF Applied
  <2>3. QED BY <1>1, <2>1, <2>2 DEF AloneInv, OnceInv
<1>4. SilentInv'
  <2>1. CASE peer'[Newcomer].session = None
    <3>1. ~peer'[Host].sending BY <1>1, <2>1 DEF AloneInv, SilentInv
    <3>2. QED BY <1>1, <2>1, <3>1, SilentKept DEF AloneInv
  <2>2. CASE peer'[Newcomer].session # None BY <2>2 DEF SilentInv
  <2>3. QED BY <2>1, <2>2
<1>5. ViewInv'
  <2>1. ASSUME peer[Host].signaling = "local"
        PROVE  /\ MailHolds(net'[Newcomer], {"offer"}, Shown(peer[Host].pending.share))
               /\ Holds(peer'[Newcomer].ops, {"setRemoteOffer"},
                        Shown(peer[Host].pending.share))
    <3>1. /\ MailHolds(net[Newcomer], {"offer"}, Shown(peer[Host].pending.share))
          /\ Holds(peer[Newcomer].ops, {"setRemoteOffer"}, Shown(peer[Host].pending.share))
      BY <2>1 DEF AloneInv, ViewInv
    <3>2. op.op \in {"setRemoteOffer"} => op.desc \in Shown(peer[Host].pending.share)
      OBVIOUS
    <3>3. MailHolds(net'[Newcomer], {"offer"}, Shown(peer[Host].pending.share))
      BY <3>1 DEF Steps, Boxes
    <3>4. QED BY <3>1, <3>2, <3>3 DEF Steps, Chains
  <2>2. QED BY <1>1, <2>1 DEF ViewInv
<1>6. QED BY <1>2, <1>3, <1>4, <1>5 DEF AloneInv

\* What a step of the host must do.
LEMMA HostSees ==
  ASSUME AloneInv, NEW out, NEW op, NEW took, NEW m,
         Steps(Host, out, op, took, m), Legal(out, op.op, took, m.type),
         Fresh(Host, out, op.op), op.op # "rollback", ~peer'[Host].aborted, Orderly(Host)',
         peer'[Host].session = peer[Host].session \/ peer'[Host].session # None,
         peer'[Host].channel = "open" /\ peer'[Host].raised =>
           peer'[Host].making \/ Applied(Host)',
         peer[Newcomer].session = None =>
           /\ ~peer'[Host].sending
           /\ op.op \in Telling => op.desc \in Silent
           /\ m.type \in {"offer", "answer"} => m \in Silent
           /\ peer'[Host].signaling # "stable" => peer'[Host].pending \in Silent,
         Told' => peer[Newcomer].view = peer'[Host].pending.share,
         ~Told' => peer[Newcomer].view = peer'[Host].sending,
         peer'[Host].signaling = "local" =>
           /\ MailHolds(net'[Newcomer], {"offer"}, Shown(peer'[Host].pending.share))
           /\ Holds(peer[Newcomer].ops, {"setRemoteOffer"}, Shown(peer'[Host].pending.share))
  PROVE  AloneInv'
<1>1. /\ Acts(Host, out, op.op, took, m.type) /\ peer'[Newcomer] = peer[Newcomer]
      /\ Newcomer \in Ends /\ Host \in Ends /\ Other(Host) = Newcomer
      /\ \A d \in Ends : d = Newcomer \/ d = Host
  BY StepsIs, EndsAre DEF Ends
<1>2. PlainInv'
  <2>1. OneOut(Host)' BY <1>1, OwnOneKept DEF AloneInv, PlainInv
  <2>2. ~InOps(peer'[Host].ops, Rolling)
    <3>1. Moves(peer[Host].ops, peer'[Host].ops, out, op.op, Rolling)
      BY <1>1, ActsIs
    <3>2. op.op \notin Rolling BY DEF Rolling
    <3>3. QED BY <1>1, <3>1, <3>2 DEF Moves, AloneInv, PlainInv
  <2>3. QED BY <1>1, <2>1, <2>2 DEF AloneInv, PlainInv
<1>3. OnceInv'
  <2>1. Applied(Newcomer)' <=> Applied(Newcomer) BY <1>1 DEF Applied
  <2>2. peer[Host].session # None => peer'[Host].session # None OBVIOUS
  <2>3. QED BY <1>1, <2>1, <2>2 DEF AloneInv, OnceInv
<1>4. SilentInv'
  <2>1. CASE peer[Newcomer].session = None
    <3>1. ~peer'[Newcomer].media /\ ~peer'[Newcomer].view
      BY <1>1, <2>1 DEF AloneInv, SilentInv
    <3>2. QED BY <1>1, <2>1, <3>1, SilentKept DEF AloneInv
  <2>2. CASE peer[Newcomer].session # None BY <1>1, <2>2 DEF SilentInv
  <2>3. QED BY <2>1, <2>2
<1>5. ViewInv' BY <1>1 DEF ViewInv
<1>6. QED BY <1>2, <1>3, <1>4, <1>5 DEF AloneInv

\* How e's step moves its own offer along.
LEMMA OwnMoves ==
  ASSUME NEW e \in Ends, NEW out, NEW op, NEW took, NEW m, Steps(e, out, op, took, m)
  PROVE  /\ Moves(peer[e].ops, peer'[e].ops, out, op.op, Offering)
         /\ Moves(peer[e].ops, peer'[e].ops, out, op.op, Answering)
         /\ Moves(peer[e].ops, peer'[e].ops, out, op.op, Applying)
         /\ Moves(peer[e].ops, peer'[e].ops, out, op.op, Replying)
         /\ MailMoves(net[Other(e)], net'[Other(e)], Nothing, m.type, "offer")
         /\ MailMoves(net[Other(e)], net'[Other(e)], Nothing, m.type, "answer")
         /\ MailMoves(net[e], net'[e], took, Nothing, "offer")
         /\ MailMoves(net[e], net'[e], took, Nothing, "answer")
         /\ Considered(e)' <=> Considered(e)
<1>1. Acts(e, out, op.op, took, m.type) /\ peer'[Other(e)] = peer[Other(e)] BY StepsIs
<1>2. "offer" \in Types /\ "answer" \in Types BY DEF Types
<1>3. /\ MailMoves(net[Other(e)], net'[Other(e)], Nothing, m.type, "offer")
      /\ MailMoves(net[Other(e)], net'[Other(e)], Nothing, m.type, "answer")
      /\ MailMoves(net[e], net'[e], took, Nothing, "offer")
      /\ MailMoves(net[e], net'[e], took, Nothing, "answer")
  BY <1>2, StepsIs
<1>4. Considered(e)' <=> Considered(e) BY <1>1 DEF Considered
<1>5. QED BY <1>1, <1>3, <1>4, ActsIs
\* A step that makes no offer and applies no answer leaves it where it is.
LEMMA OwnStays ==
  ASSUME NEW e \in Ends, NEW out, NEW op, NEW took, NEW m, Steps(e, out, op, took, m),
         out \notin Offering, out \notin Applying,
         op.op \notin Offering, op.op \notin Applying, took # "answer", m.type # "offer"
  PROVE  /\ Prepared(e)' <=> Prepared(e)
         /\ Out(e)' <=> Out(e)
         /\ Applied(e)' <=> Applied(e)
<1>1. /\ Moves(peer[e].ops, peer'[e].ops, out, op.op, Offering)
      /\ Moves(peer[e].ops, peer'[e].ops, out, op.op, Applying)
      /\ MailMoves(net[Other(e)], net'[Other(e)], Nothing, m.type, "offer")
      /\ MailMoves(net[e], net'[e], took, Nothing, "answer")
      /\ Considered(e)' <=> Considered(e)
  BY OwnMoves
<1>2. (Prepared(e)' <=> Prepared(e)) /\ (Applied(e)' <=> Applied(e))
  BY <1>1 DEF Moves, Prepared, Applied
<1>3. (Offered(e)' <=> Offered(e)) /\ (Answered(e)' <=> Answered(e))
  BY <1>1 DEF MailMoves, Offered, Answered, Nothing
<1>4. QED BY <1>1, <1>2, <1>3 DEF Out

\* The steps that chain nothing.
LEMMA IdleSees ==
  ASSUME LinkInv, SeenInv, Alone, NEW e \in Ends,
         NEW took \in {Nothing, "candidate", "connected"}, NEW m,
         m.type \in {Nothing, "candidate"}, m.type # Nothing => took = Nothing,
         Steps(e, Nothing, NoOperation, took, m),
         Only(e, {"role", "share", "shares", "ignoring", "ice", "reaches", "candidates",
                  "channel", "raised"}),
         e = Newcomer => peer'[e].share = peer[e].share,
         e = Host => peer'[e].channel = peer[e].channel,
         peer'[e].raised =>
           \/ peer[e].raised
           \/ peer[e].making /\ (e = Newcomer => peer[e].session = None)
           \/ e = Host /\ peer[e].channel # "open"
  PROVE  AloneInv'
<1>1. AloneInv BY Phases
<1>2. took # "answer" /\ m.type # "offer" /\ m.type # "answer" /\ m.type \notin {"offer", "answer"}
  BY DEF Nothing
<1>3. /\ Legal(Nothing, NoOperation.op, took, m.type)
      /\ Answers(Nothing, NoOperation.op, took, m.type)
      /\ Fresh(Host, Nothing, NoOperation.op) /\ NoOperation.op # "rollback"
      /\ NoOperation.op \notin Telling /\ NoOperation.op # "setAnswer"
      /\ NoOperation.op # "setRemoteOffer"
  BY NothingSaid
     DEF Legal, Answers, Fresh, Offering, Answering, Applying, Telling, Nothing
<1>4. Told' <=> Told
  <2>1. /\ Nothing \notin Replying /\ NoOperation.op \notin Replying
        /\ Nothing \notin Applying /\ NoOperation.op \notin Applying
    BY NothingSaid DEF Nothing, Replying, Applying
  <2>2. QED BY <1>2, <2>1, ToldKept
<1>5. /\ peer'[e].making = peer[e].making /\ peer'[e].aborted = peer[e].aborted
      /\ peer'[e].view = peer[e].view /\ peer'[e].signaling = peer[e].signaling
      /\ peer'[e].pending = peer[e].pending /\ peer'[e].session = peer[e].session
      /\ peer'[e].media = peer[e].media /\ peer'[e].sending = peer[e].sending
  BY DEF Only, Like, Fields
<1>6. /\ Prepared(e)' <=> Prepared(e)
      /\ Out(e)' <=> Out(e)
      /\ Applied(e)' <=> Applied(e)
  <2>1. /\ Nothing \notin Offering /\ Nothing \notin Applying
        /\ NoOperation.op \notin Offering /\ NoOperation.op \notin Applying
    BY NothingSaid DEF Nothing, Offering, Applying
  <2>2. QED BY <1>2, <2>1, OwnStays
<1>7. CASE e = Newcomer
  <2>1. InOps(peer'[Newcomer].ops, Replying) => InOps(peer[Newcomer].ops, Replying)
    <3>1. Moves(peer[Newcomer].ops, peer'[Newcomer].ops, Nothing, Nothing, Replying)
      BY <1>7, OwnMoves, NothingSaid
    <3>2. QED BY <3>1 DEF Moves, Replying, Nothing
  <2>2. /\ ~peer'[Newcomer].share /\ ~peer'[Newcomer].sending
        /\ InOps(peer'[Newcomer].ops, Replying) => peer'[Newcomer].signaling = "remote"
    BY <1>1, <1>5, <1>7, <2>1 DEF AloneInv, PlainInv, OnceInv
  <2>3. /\ peer'[Newcomer].session # None =>
             /\ ~peer'[Newcomer].raised /\ ~peer'[Newcomer].making
             /\ peer'[Newcomer].signaling # "local" /\ peer[Host].session # None
        /\ peer'[Newcomer].session = None /\ peer'[Newcomer].raised =>
             peer'[Newcomer].making \/ Applied(Newcomer)'
    <3>1. peer'[e].raised => \/ peer[e].raised
                             \/ peer[e].making /\ peer[e].session = None
      BY <1>7, EndsAre
    <3>2. QED BY <1>1, <1>5, <1>6, <1>7, <3>1 DEF AloneInv, OnceInv
  <2>4. peer'[Newcomer].session = None =>
           /\ peer[Newcomer].session = None
           /\ ~peer'[Newcomer].media /\ ~peer'[Newcomer].view
           /\ peer'[Newcomer].signaling # "stable" => peer'[Newcomer].pending \in Silent
    BY <1>1, <1>5, <1>7 DEF AloneInv, SilentInv
  <2>5. /\ Told' => peer'[Newcomer].view = peer[Host].pending.share
        /\ ~Told' => peer'[Newcomer].view = peer[Host].sending
    BY <1>1, <1>4, <1>5, <1>7 DEF AloneInv, ViewInv
  <2>6. QED BY <1>1, <1>2, <1>3, <1>7, <2>2, <2>3, <2>4, <2>5, NewcomerSees
<1>8. CASE e = Host
  <2>1. ~peer'[Host].aborted /\ Orderly(Host)'
    BY <1>1, <1>5, <1>6, <1>8 DEF AloneInv, PlainInv, Orderly
  <2>2. peer'[Host].channel = "open" /\ peer'[Host].raised =>
           peer'[Host].making \/ Applied(Host)'
    BY <1>1, <1>5, <1>6, <1>8 DEF AloneInv, OnceInv
  <2>3. peer[Newcomer].session = None =>
           /\ ~peer'[Host].sending
           /\ peer'[Host].signaling # "stable" => peer'[Host].pending \in Silent
    BY <1>1, <1>5, <1>8 DEF AloneInv, SilentInv
  <2>4. /\ Told' => peer[Newcomer].view = peer'[Host].pending.share
        /\ ~Told' => peer[Newcomer].view = peer'[Host].sending
    BY <1>1, <1>4, <1>5, <1>8 DEF AloneInv, ViewInv
  <2>5. ASSUME peer'[Host].signaling = "local"
        PROVE  /\ MailHolds(net'[Newcomer], {"offer"}, Shown(peer'[Host].pending.share))
               /\ Holds(peer[Newcomer].ops, {"setRemoteOffer"},
                        Shown(peer'[Host].pending.share))
    <3>1. /\ MailHolds(net[Newcomer], {"offer"}, Shown(peer'[Host].pending.share))
          /\ Holds(peer[Newcomer].ops, {"setRemoteOffer"}, Shown(peer'[Host].pending.share))
      BY <1>1, <1>5, <1>8, <2>5 DEF AloneInv, ViewInv
    <3>2. Other(Host) = Newcomer /\ m.type \notin {"offer"} BY <1>2, EndsAre
    <3>3. QED BY <1>8, <3>1, <3>2 DEF Steps, Boxes
  <2>6. peer'[Host].session = peer[Host].session BY <1>5, <1>8
  <2>7. QED BY <1>1, <1>2, <1>3, <1>8, <2>1, <2>2, <2>3, <2>4, <2>5, <2>6, HostSees
<1>9. QED BY <1>7, <1>8 DEF Ends

LEMMA OnIceCandidateSees ==
  ASSUME LinkInv, SeenInv, Alone, NEW e \in Ends, OnIceCandidate(e)
  PROVE  AloneInv'
<1>1. NegotiationTypeOK BY DEF LinkInv
<1>2. Turns(e) /\ Only(e, {"candidates"}) BY <1>1, OnIceCandidateDoes
<1>3. PICK m \in Message, way \in Ways : m.type = "candidate" /\ Mails(e, way, m)
  BY <1>1, OnIceCandidateDoes
<1>4. /\ peer'[Other(e)] = peer[Other(e)] /\ peer'[e].ops = peer[e].ops
      /\ peer'[e].share = peer[e].share /\ peer'[e].channel = peer[e].channel
      /\ peer'[e].raised = peer[e].raised
  BY <1>2 DEF Turns, Only, Like, Fields
<1>5. Steps(e, Nothing, NoOperation, Nothing, m)
  BY <1>1, <1>3, <1>4, BoxesSent, ChainsSame DEF Steps
<1>6. Only(e, {"role", "share", "shares", "ignoring", "ice", "reaches", "candidates",
               "channel", "raised"})
  BY <1>2 DEF Only, Like, Fields
<1>7. QED BY <1>3, <1>4, <1>5, <1>6, IdleSees

LEMMA OnRemoteIceCandidateSees ==
  ASSUME LinkInv, SeenInv, Alone, NEW e \in Ends, NEW way \in Ways,
         onRemoteIceCandidate(e, way)
  PROVE  AloneInv'
<1>1. NegotiationTypeOK BY DEF LinkInv
<1>2. /\ Turns(e) /\ Takes(e, way) /\ Head(net[e][way]).type = "candidate"
      /\ Only(e, {"reaches"})
  BY <1>1, OnRemoteIceCandidateDoes
<1>3. /\ peer'[Other(e)] = peer[Other(e)] /\ peer'[e].ops = peer[e].ops
      /\ peer'[e].share = peer[e].share /\ peer'[e].channel = peer[e].channel
      /\ peer'[e].raised = peer[e].raised
  BY <1>2 DEF Turns, Only, Like, Fields
<1>4. Steps(e, Nothing, NoOperation, "candidate", NoMessage)
  BY <1>1, <1>2, <1>3, BoxesTaken, ChainsSame DEF Steps
<1>5. Only(e, {"role", "share", "shares", "ignoring", "ice", "reaches", "candidates",
               "channel", "raised"})
  BY <1>2 DEF Only, Like, Fields
<1>6. QED BY <1>3, <1>4, <1>5, NothingSaid, IdleSees

\* The newcomer would not be Alone.
LEMMA ShareSees ==
  ASSUME LinkInv, SeenInv, Alone, Alone', NEW e \in Ends, Share(e)
  PROVE  AloneInv'
<1>1. NegotiationTypeOK BY DEF LinkInv
<1>2. /\ Turns(e) /\ net' = net /\ Only(e, {"share", "shares"})
      /\ peer[e].shares \in Nat /\ peer'[e].shares = peer[e].shares + 1
  BY <1>1, ShareDoes
<1>3. e # Newcomer BY <1>2 DEF Alone
<1>4. /\ peer'[Other(e)] = peer[Other(e)] /\ peer'[e].ops = peer[e].ops
      /\ peer'[e].channel = peer[e].channel /\ peer'[e].raised = peer[e].raised
  BY <1>2 DEF Turns, Only, Like, Fields
<1>5. Steps(e, Nothing, NoOperation, Nothing, NoMessage)
  BY <1>2, <1>4, BoxesSame, ChainsSame DEF Steps
<1>6. Only(e, {"role", "share", "shares", "ignoring", "ice", "reaches", "candidates",
               "channel", "raised"})
  BY <1>2 DEF Only, Like, Fields
<1>7. QED BY <1>3, <1>4, <1>5, <1>6, NothingSaid, IdleSees

LEMMA OnUserConnectedSees ==
  ASSUME LinkInv, SeenInv, Alone, NEW e \in Ends, OnUserConnected(e)
  PROVE  AloneInv'
<1>1. /\ e = Host /\ Only(e, {"role", "share"})
      /\ Steps(e, Nothing, NoOperation, "connected", NoMessage)
  BY OnUserConnectedIs
<1>2. peer'[e].channel = peer[e].channel /\ peer'[e].raised = peer[e].raised
  BY <1>1 DEF Only, Like, Fields
<1>3. Only(e, {"role", "share", "shares", "ignoring", "ice", "reaches", "candidates",
               "channel", "raised"})
  BY <1>1 DEF Only, Like, Fields
<1>4. e # Newcomer BY <1>1, EndsAre
<1>5. QED BY <1>1, <1>2, <1>3, <1>4, NothingSaid, IdleSees

LEMMA OnIceDisconnectedSees ==
  ASSUME LinkInv, SeenInv, Alone, NEW e \in Ends, OnIceDisconnected(e)
  PROVE  AloneInv'
<1>1. NegotiationTypeOK BY DEF LinkInv
<1>2. Turns(e) /\ net' = net /\ Only(e, {"ice"}) BY <1>1, OnIceDisconnectedDoes
<1>3. /\ peer'[Other(e)] = peer[Other(e)] /\ peer'[e].ops = peer[e].ops
      /\ peer'[e].share = peer[e].share /\ peer'[e].channel = peer[e].channel
      /\ peer'[e].raised = peer[e].raised
  BY <1>2 DEF Turns, Only, Like, Fields
<1>4. Steps(e, Nothing, NoOperation, Nothing, NoMessage)
  BY <1>2, <1>3, BoxesSame, ChainsSame DEF Steps
<1>5. Only(e, {"role", "share", "shares", "ignoring", "ice", "reaches", "candidates",
               "channel", "raised"})
  BY <1>2 DEF Only, Like, Fields
<1>6. QED BY <1>3, <1>4, <1>5, NothingSaid, IdleSees

\* Nobody has an offer to make again.
LEMMA OnIceConnectedSees ==
  ASSUME LinkInv, SeenInv, Alone, NEW e \in Ends, OnIceConnected(e)
  PROVE  AloneInv'
<1>1. NegotiationTypeOK BY DEF LinkInv
<1>2. ~peer[e].aborted
  <2>1. ~peer[Newcomer].aborted BY DEF LinkInv, Negotiating, Beginnings
  <2>2. ~peer[Host].aborted BY Phases DEF AloneInv, PlainInv
  <2>3. QED BY <2>1, <2>2 DEF Ends
<1>3. Turns(e) /\ net' = net /\ Only(e, {"ice"}) BY <1>1, <1>2, OnIceConnectedDoes
<1>4. /\ peer'[Other(e)] = peer[Other(e)] /\ peer'[e].ops = peer[e].ops
      /\ peer'[e].share = peer[e].share /\ peer'[e].channel = peer[e].channel
      /\ peer'[e].raised = peer[e].raised
  BY <1>3 DEF Turns, Only, Like, Fields
<1>5. Steps(e, Nothing, NoOperation, Nothing, NoMessage)
  BY <1>3, <1>4, BoxesSame, ChainsSame DEF Steps
<1>6. Only(e, {"role", "share", "shares", "ignoring", "ice", "reaches", "candidates",
               "channel", "raised"})
  BY <1>3 DEF Only, Like, Fields
<1>7. QED BY <1>4, <1>5, <1>6, NothingSaid, IdleSees

\* The host offers when nothing else is going on.
LEMMA HostStarts ==
  ASSUME LinkInv, SeenInv, Alone, Turns(Host), net' = net,
         Only(Host, {"raised", "channel", "making", "ops"}), peer'[Host].making,
         NEW op \in Operation, op.op = "createOffer",
         peer'[Host].ops = Append(peer[Host].ops, op),
         ~peer[Host].making, peer[Host].signaling = "stable"
  PROVE  AloneInv'
<1>1. NegotiationTypeOK /\ AloneInv /\ Host \in Ends /\ Other(Host) = Newcomer
  BY Phases, EndsAre DEF LinkInv
<1>2. Steps(Host, Nothing, op, Nothing, NoMessage)
  BY <1>1, BoxesSame, ChainsAdded DEF Steps, Turns
<1>3. ~Prepared(Host) /\ ~Out(Host) /\ ~Applied(Host)
  BY <1>1 DEF AloneInv, PlainInv, Orderly
<1>4. /\ Legal(Nothing, op.op, Nothing, NoMessage.type) /\ Fresh(Host, Nothing, op.op)
      /\ op.op # "rollback" /\ op.op \notin Telling
      /\ NoMessage.type \notin {"offer", "answer"}
  BY <1>3, NothingSaid DEF Legal, Fresh, Offering, Answering, Applying, Telling, Nothing
<1>5. /\ peer'[Host].aborted = peer[Host].aborted
      /\ peer'[Host].signaling = peer[Host].signaling
      /\ peer'[Host].pending = peer[Host].pending /\ peer'[Host].session = peer[Host].session
      /\ peer'[Host].sending = peer[Host].sending
  BY DEF Only, Like, Fields
<1>6. Prepared(Host)' /\ ~Out(Host)' /\ ~Applied(Host)'
  <2>1. /\ Moves(peer[Host].ops, peer'[Host].ops, Nothing, op.op, Offering)
        /\ Moves(peer[Host].ops, peer'[Host].ops, Nothing, op.op, Applying)
        /\ MailMoves(net[Newcomer], net'[Newcomer], Nothing, Nothing, "offer")
        /\ MailMoves(net[Host], net'[Host], Nothing, Nothing, "answer")
        /\ Considered(Host)' <=> Considered(Host)
    BY <1>1, <1>2, OwnMoves, NothingSaid
  <2>2. op.op \in Offering /\ op.op \notin Applying BY DEF Offering, Applying
  <2>3. Prepared(Host)' /\ ~Applied(Host)'
    BY <1>3, <2>1, <2>2 DEF Moves, Prepared, Applied
  <2>4. ~Offered(Host)' /\ ~Answered(Host)' /\ ~Considered(Host)'
    BY <1>1, <1>3, <2>1 DEF MailMoves, Out, Offered, Answered, Nothing
  <2>5. QED BY <2>3, <2>4 DEF Out
<1>7. Orderly(Host)' BY <1>5, <1>6 DEF Orderly
<1>8. Told' <=> Told
  <2>1. Nothing \notin Applying /\ op.op \notin Applying BY DEF Nothing, Applying
  <2>2. Nothing # "answer" /\ Host # Newcomer BY EndsAre DEF Nothing
  <2>3. QED BY <1>1, <1>2, <2>1, <2>2, ToldKept
<1>9. /\ Told' => peer[Newcomer].view = peer'[Host].pending.share
      /\ ~Told' => peer[Newcomer].view = peer'[Host].sending
  BY <1>1, <1>5, <1>8 DEF AloneInv, ViewInv
<1>10. peer[Newcomer].session = None =>
         /\ ~peer'[Host].sending
         /\ peer'[Host].signaling # "stable" => peer'[Host].pending \in Silent
  BY <1>1, <1>5 DEF AloneInv, SilentInv
<1>11. ~peer'[Host].aborted /\ peer'[Host].signaling # "local"
  BY <1>1, <1>5 DEF AloneInv, PlainInv
<1>12. QED
  BY <1>1, <1>2, <1>4, <1>5, <1>7, <1>9, <1>10, <1>11, HostSees

LEMMA OnDataChannelOpenSees ==
  ASSUME LinkInv, SeenInv, Alone, NEW e \in Ends, OnDataChannelOpen(e)
  PROVE  AloneInv'
<1>1. NegotiationTypeOK /\ Beginnings /\ HostInv BY DEF LinkInv, Negotiating
<1>2. /\ Turns(e) /\ net' = net /\ peer[e].channel # "open"
      /\ \A d \in Ends : peer[d].ice # "new"
  BY <1>1, OnDataChannelOpenDoes
<1>3. CASE e = Newcomer
  <2>1. Only(e, {"channel"}) BY <1>1, <1>3, OnDataChannelOpenDoes DEF Beginnings
  <2>2. /\ peer'[Other(e)] = peer[Other(e)] /\ peer'[e].ops = peer[e].ops
        /\ peer'[e].share = peer[e].share /\ peer'[e].raised = peer[e].raised
    BY <1>2, <2>1 DEF Turns, Only, Like, Fields
  <2>3. Steps(e, Nothing, NoOperation, Nothing, NoMessage)
    BY <1>2, <2>2, BoxesSame, ChainsSame DEF Steps
  <2>4. Only(e, {"role", "share", "shares", "ignoring", "ice", "reaches", "candidates",
                 "channel", "raised"})
    BY <2>1 DEF Only, Like, Fields
  <2>5. e # Host BY <1>3, EndsAre
  <2>6. QED BY <2>2, <2>3, <2>4, <2>5, NothingSaid, IdleSees
<1>4. CASE e = Host
  <2>1. peer[Host].role = "polite" BY <1>1, <1>2 DEF Beginnings, Ends
  <2>2. PICK op \in Operation :
          op.op = "createOffer" /\ peer'[Host].ops = Append(peer[Host].ops, op)
    BY <1>1, <1>4, <2>1, OnDataChannelOpenDoes
  <2>3. Only(Host, {"channel", "making", "ops"}) /\ peer'[Host].making = TRUE
    BY <1>1, <1>4, <2>1, OnDataChannelOpenDoes
  <2>4. Only(Host, {"raised", "channel", "making", "ops"})
    BY <2>3 DEF Only, Like, Fields
  <2>5. ~peer[Host].making /\ peer[Host].signaling # "local"
    BY <1>1, <1>2, <1>4 DEF HostInv
  <2>6. peer[Host].signaling # "remote"
    <3>1. Negotiated BY <1>2, <1>4 DEF SeenInv, LinkedInv, MetInv
    <3>2. QED BY <3>1, Phases
  <2>7. peer[Host].signaling \in {"stable", "local", "remote"}
    BY <1>1, <1>4 DEF NegotiationTypeOK, Peer
  <2>8. QED BY <1>2, <1>4, <2>2, <2>3, <2>4, <2>5, <2>6, <2>7, HostStarts
<1>5. QED BY <1>3, <1>4 DEF Ends

\* Once its offer is answered the newcomer needs no other.
LEMMA NewcomerNeedsNone ==
  ASSUME LinkInv, SeenInv, Alone, peer[Newcomer].session # None
  PROVE  Needed(peer[Newcomer]) = peer[Newcomer].raised
<1>1. OnceInv /\ peer[Newcomer] \in Peer
  BY Phases, EndsAre DEF AloneInv, LinkInv, NegotiationTypeOK
<1>2. /\ peer[Newcomer].share \in BOOLEAN /\ peer[Newcomer].sending \in BOOLEAN
      /\ peer[Newcomer].raised \in BOOLEAN
  BY <1>1 DEF Peer
<1>3. Needed(peer[Newcomer]) = FALSE BY <1>1, <1>2 DEF OnceInv, Needed
<1>4. peer[Newcomer].raised = FALSE BY <1>1, <1>2 DEF OnceInv
<1>5. QED BY <1>3, <1>4

LEMMA OnNegotiationNeededSees ==
  ASSUME LinkInv, SeenInv, Alone, NEW e \in Ends, OnNegotiationNeeded(e)
  PROVE  AloneInv'
<1>1. NegotiationTypeOK /\ Beginnings /\ AloneInv /\ Newcomer # Host
  BY Phases, EndsAre DEF LinkInv, Negotiating
<1>2. /\ Turns(e) /\ net' = net /\ peer[e].role # "none"
      /\ Needed(peer[e]) # peer[e].raised
  BY <1>1, OnNegotiationNeededDoes
<1>3. e = Newcomer => peer[e].session = None BY <1>2, NewcomerNeedsNone
<1>4. CASE /\ Only(e, {"raised"}) /\ Same(e, {})
           /\ peer'[e].raised => \/ peer[e].making \/ peer[e].aborted
                                 \/ peer[e].role = "polite" /\ peer[e].channel # "open"
  <2>1. /\ peer'[Other(e)] = peer[Other(e)] /\ peer'[e].ops = peer[e].ops
        /\ peer'[e].share = peer[e].share /\ peer'[e].channel = peer[e].channel
    BY <1>2, <1>4 DEF Turns, Only, Like, Fields
  <2>2. Steps(e, Nothing, NoOperation, Nothing, NoMessage)
    BY <1>2, <2>1, BoxesSame, ChainsSame DEF Steps
  <2>3. Only(e, {"role", "share", "shares", "ignoring", "ice", "reaches", "candidates",
                 "channel", "raised"})
    BY <1>4 DEF Only, Like, Fields
  <2>4. ~peer[e].aborted /\ (e = Newcomer => peer[e].role = "impolite")
    BY <1>1 DEF Beginnings, AloneInv, PlainInv, Ends
  <2>5. peer'[e].raised =>
          \/ peer[e].raised
          \/ peer[e].making /\ (e = Newcomer => peer[e].session = None)
          \/ e = Host /\ peer[e].channel # "open"
    BY <1>3, <1>4, <2>4 DEF Ends
  <2>6. QED BY <2>1, <2>2, <2>3, <2>5, NothingSaid, IdleSees
<1>5. CASE /\ peer[e].signaling = "stable" /\ ~peer[e].making
           /\ Only(e, {"raised", "making", "ops"}) /\ peer'[e].making = TRUE
           /\ \E op \in Operation :
                op.op = "createOffer" /\ peer'[e].ops = Append(peer[e].ops, op)
  <2>1. PICK op \in Operation :
          op.op = "createOffer" /\ peer'[e].ops = Append(peer[e].ops, op)
    BY <1>5
  <2>2. CASE e = Host
    <3>1. Only(Host, {"raised", "channel", "making", "ops"})
      BY <1>5, <2>2 DEF Only, Like, Fields
    <3>2. QED BY <1>2, <1>5, <2>1, <2>2, <3>1, HostStarts
  <2>3. CASE e = Newcomer
    <3>1. Steps(Newcomer, Nothing, op, Nothing, NoMessage)
      BY <1>1, <1>2, <2>1, <2>3, BoxesSame, ChainsAdded DEF Steps, Turns
    <3>2. /\ Legal(Nothing, op.op, Nothing, NoMessage.type)
          /\ Answers(Nothing, op.op, Nothing, NoMessage.type)
          /\ op.op # "rollback" /\ op.op \notin Telling
          /\ op.op # "setAnswer" /\ op.op # "setRemoteOffer"
          /\ NoMessage.type \notin {"offer", "answer"} /\ NoMessage.type # "answer"
          /\ op.op \notin Replying
      BY <2>1, NothingSaid
         DEF Legal, Answers, Offering, Answering, Applying, Telling, Replying, Nothing
    <3>3. Told' <=> Told
      <4>1. Nothing \notin Replying BY DEF Nothing, Replying
      <4>2. QED BY <1>1, <3>1, <3>2, <4>1, EndsAre, ToldKept
    <3>4. /\ peer'[e].share = peer[e].share /\ peer'[e].sending = peer[e].sending
          /\ peer'[e].view = peer[e].view /\ peer'[e].signaling = peer[e].signaling
          /\ peer'[e].pending = peer[e].pending /\ peer'[e].session = peer[e].session
          /\ peer'[e].media = peer[e].media
      BY <1>5 DEF Only, Like, Fields
    <3>5. InOps(peer'[Newcomer].ops, Replying) => InOps(peer[Newcomer].ops, Replying)
      <4>1. Moves(peer[Newcomer].ops, peer'[Newcomer].ops, Nothing, op.op, Replying)
        BY <2>3, <3>1, OwnMoves
      <4>2. QED BY <3>2, <4>1 DEF Moves
    <3>6. /\ ~peer'[Newcomer].share /\ ~peer'[Newcomer].sending
          /\ InOps(peer'[Newcomer].ops, Replying) => peer'[Newcomer].signaling = "remote"
      BY <1>1, <2>3, <3>4, <3>5 DEF AloneInv, PlainInv, OnceInv
    <3>7. /\ ~peer'[Newcomer].media /\ ~peer'[Newcomer].view
          /\ peer'[Newcomer].signaling # "stable" => peer'[Newcomer].pending \in Silent
      BY <1>1, <1>3, <2>3, <3>4 DEF AloneInv, SilentInv
    <3>8. /\ Told' => peer'[Newcomer].view = peer[Host].pending.share
          /\ ~Told' => peer'[Newcomer].view = peer[Host].sending
      BY <1>1, <2>3, <3>3, <3>4 DEF AloneInv, ViewInv
    <3>9. peer'[Newcomer].session = None /\ peer'[Newcomer].making
      BY <1>3, <1>5, <2>3, <3>4
    <3>10. peer[Newcomer].session = None BY <1>3, <2>3
    <3>11. QED
      BY <1>1, <3>1, <3>2, <3>6, <3>7, <3>8, <3>9, <3>10, NewcomerSees
  <2>4. QED BY <2>2, <2>3 DEF Ends
<1>6. QED BY <1>1, <1>4, <1>5, OnNegotiationNeededDoes

\* The newcomer answers an offer of the host's.
LEMMA NewcomerAnswers ==
  ASSUME LinkInv, SeenInv, Alone, Busy(Host), NEW out, NEW op, NEW took, NEW m,
         Steps(Newcomer, out, op, took, m), Legal(out, op.op, took, m.type),
         Answers(out, op.op, took, m.type), op.op # "rollback",
         InOps(peer'[Newcomer].ops, Replying) => peer'[Newcomer].signaling = "remote",
         peer'[Newcomer].share = peer[Newcomer].share, ~peer'[Newcomer].sending,
         op.op = "setAnswer" => op.desc \in Shown(FALSE),
         peer'[Newcomer].session # None, ~peer'[Newcomer].raised,
         peer'[Newcomer].making = peer[Newcomer].making,
         peer'[Newcomer].signaling # "local",
         Told' => peer'[Newcomer].view = peer[Host].pending.share,
         ~Told' => peer'[Newcomer].view = peer[Host].sending,
         op.op = "setRemoteOffer" => op.desc \in Shown(peer[Host].pending.share)
  PROVE  AloneInv'
<1>1. AloneInv /\ peer[Newcomer].session # None BY Phases
<1>2. ~peer'[Newcomer].share /\ ~peer'[Newcomer].making /\ peer[Host].session # None
  BY <1>1 DEF AloneInv, OnceInv
<1>3. QED BY <1>1, <1>2, NewcomerSees

\* The host answers the newcomer's.
LEMMA HostAnswers ==
  ASSUME LinkInv, SeenInv, Alone, Busy(Newcomer), NEW out, NEW op, NEW took, NEW m,
         Steps(Host, out, op, took, m), Legal(out, op.op, took, m.type),
         out \notin Offering, out \notin Applying,
         op.op \notin Offering, op.op \notin Applying, op.op # "rollback",
         took # "answer", m.type # "offer",
         peer'[Host].making = peer[Host].making, peer'[Host].aborted = peer[Host].aborted,
         peer'[Host].channel = peer[Host].channel,
         peer'[Host].raised => peer[Host].raised,
         peer'[Host].session = peer[Host].session \/ peer'[Host].session # None,
         peer'[Host].sending \in BOOLEAN, ~peer'[Host].sending,
         op.op \in Telling => op.desc \in Silent,
         m.type = "answer" => m \in Silent,
         peer'[Host].signaling # "local",
         peer'[Host].signaling # "stable" => peer'[Host].pending \in Silent
  PROVE  AloneInv'
<1>1. /\ AloneInv /\ peer[Newcomer].session = None /\ ~Busy(Host) /\ ~Told
      /\ ~peer[Host].making /\ Host \in Ends /\ Newcomer \in Ends /\ Host # Newcomer
  BY Phases, EndsAre
<1>2. ~Prepared(Host)' /\ ~Out(Host)' /\ ~Applied(Host)' BY <1>1, OwnStays DEF Busy
<1>3. Orderly(Host)' BY <1>1, <1>2 DEF Orderly
<1>4. ~Told' BY <1>1, ToldKept
<1>5. peer[Newcomer].view = peer'[Host].sending
  <2>1. peer[Newcomer].view \in BOOLEAN
    BY <1>1 DEF LinkInv, NegotiationTypeOK, Peer
  <2>2. ~peer[Newcomer].view BY <1>1 DEF AloneInv, SilentInv
  <2>3. QED BY <2>1, <2>2
<1>6. Fresh(Host, out, op.op) BY DEF Fresh
<1>7. ~(peer'[Host].channel = "open" /\ peer'[Host].raised)
  BY <1>1 DEF AloneInv, OnceInv, Busy
<1>8. ~peer'[Host].aborted BY <1>1 DEF AloneInv, PlainInv
<1>9. m.type \in {"offer", "answer"} => m \in Silent OBVIOUS
<1>10. QED BY <1>1, <1>3, <1>4, <1>5, <1>6, <1>7, <1>8, <1>9, HostSees

LEMMA CreateOfferSees ==
  ASSUME LinkInv, SeenInv, Alone, NEW e \in Ends, CreateOffer(e)
  PROVE  AloneInv'
<1>1. NegotiationTypeOK /\ AloneInv /\ Newcomer # Host BY Phases, EndsAre DEF LinkInv
<1>2. Runs(e, "createOffer") /\ Turns(e) /\ net' = net BY <1>1, CreateOfferDoes
<1>3. peer'[Other(e)] = peer[Other(e)] BY <1>2 DEF Turns
<1>4. Prepared(e) /\ Busy(e) /\ peer[e].signaling = "stable"
  <2>1. "createOffer" \in Offering BY DEF Offering
  <2>2. Prepared(e) BY <1>2, <2>1, OfferingIs DEF Prepared
  <2>3. Orderly(e) BY Phases DEF AloneInv, PlainInv, Ends
  <2>4. QED BY <2>2, <2>3 DEF Orderly, Busy
<1>5. PICK op \in Operation :
        /\ op.op = "setOffer" /\ op.desc \in Description
        /\ op.desc.media => peer[e].media \/ peer[e].share
        /\ op.desc.share = peer[e].share /\ peer'[e].ops = Append(Rest(e), op)
  BY <1>1, <1>4, CreateOfferDoes
<1>6. Only(e, {"ops", "made"}) BY <1>1, <1>4, CreateOfferDoes
<1>7. Steps(e, "createOffer", op, Nothing, NoMessage)
  BY <1>1, <1>2, <1>3, <1>5, BoxesSame, ChainsReplaced DEF Steps
<1>8. /\ Legal("createOffer", op.op, Nothing, NoMessage.type)
      /\ Answers("createOffer", op.op, Nothing, NoMessage.type)
      /\ Fresh(Host, "createOffer", op.op)
      /\ op.op # "rollback" /\ op.op # "setAnswer" /\ op.op # "setRemoteOffer"
      /\ NoMessage.type \notin {"offer", "answer"}
  BY <1>5, NothingSaid DEF Legal, Answers, Fresh, Offering, Answering, Applying, Nothing
<1>9. Told' <=> Told
  <2>1. /\ "createOffer" \notin Replying /\ op.op \notin Replying
        /\ "createOffer" \notin Applying /\ op.op \notin Applying
        /\ NoMessage.type # "answer" /\ Nothing # "answer"
    BY <1>5, NothingSaid DEF Replying, Applying, Nothing
  <2>2. QED BY <1>7, <2>1, ToldKept
<1>10. /\ peer'[e].making = peer[e].making /\ peer'[e].aborted = peer[e].aborted
       /\ peer'[e].share = peer[e].share /\ peer'[e].view = peer[e].view
       /\ peer'[e].signaling = peer[e].signaling /\ peer'[e].pending = peer[e].pending
       /\ peer'[e].session = peer[e].session /\ peer'[e].media = peer[e].media
       /\ peer'[e].sending = peer[e].sending
  BY <1>6 DEF Only, Like, Fields
<1>11. peer'[e].making
  BY <1>4, <1>10, Phases DEF Orderly, AloneInv, PlainInv, Ends
<1>12. CASE e = Newcomer
  <2>1. peer[Newcomer].session = None BY <1>4, <1>12, Phases
  <2>2. ~peer[Newcomer].media /\ ~peer[Newcomer].share
    BY <1>1, <2>1 DEF AloneInv, OnceInv, SilentInv
  <2>3. op.desc \in Silent BY <1>5, <1>12, <2>2 DEF Silent
  <2>4. InOps(peer'[Newcomer].ops, Replying) => InOps(peer[Newcomer].ops, Replying)
    <3>1. Moves(peer[Newcomer].ops, peer'[Newcomer].ops, "createOffer", op.op, Replying)
      BY <1>7, <1>12, OwnMoves
    <3>2. QED BY <1>5, <3>1 DEF Moves, Replying
  <2>5. /\ ~peer'[Newcomer].share /\ ~peer'[Newcomer].sending
        /\ InOps(peer'[Newcomer].ops, Replying) => peer'[Newcomer].signaling = "remote"
    BY <1>1, <1>10, <1>12, <2>4 DEF AloneInv, PlainInv, OnceInv
  <2>6. /\ ~peer'[Newcomer].media /\ ~peer'[Newcomer].view
        /\ peer'[Newcomer].signaling = "stable" /\ peer'[Newcomer].session = None
    BY <1>1, <1>4, <1>10, <1>12, <2>1 DEF AloneInv, SilentInv
  <2>7. /\ Told' => peer'[Newcomer].view = peer[Host].pending.share
        /\ ~Told' => peer'[Newcomer].view = peer[Host].sending
    BY <1>1, <1>9, <1>10, <1>12 DEF AloneInv, ViewInv
  <2>8. QED
    BY <1>1, <1>7, <1>8, <1>11, <1>12, <2>1, <2>3, <2>5, <2>6, <2>7, NewcomerSees
<1>13. CASE e = Host
  <2>1. peer[Newcomer].session # None BY <1>4, <1>13, Phases
  <2>2. Prepared(Host)' /\ ~Out(Host)' /\ ~Applied(Host)'
    <3>1. /\ Moves(peer[Host].ops, peer'[Host].ops, "createOffer", op.op, Offering)
          /\ Moves(peer[Host].ops, peer'[Host].ops, "createOffer", op.op, Applying)
      BY <1>7, <1>13, OwnMoves
    <3>2. Prepared(Host)' BY <1>5, <3>1 DEF Moves, Prepared, Offering
    <3>3. OneOut(Host)'
      BY <1>1, <1>7, <1>8, <1>13, StepsIs, OwnOneKept DEF AloneInv, PlainInv
    <3>4. QED BY <3>2, <3>3 DEF OneOut, Out
  <2>3. Orderly(Host)' BY <1>4, <1>10, <1>11, <1>13, <2>2 DEF Orderly
  <2>4. ~peer'[Host].aborted BY <1>1, <1>10, <1>13 DEF AloneInv, PlainInv
  <2>5. /\ Told' => peer[Newcomer].view = peer'[Host].pending.share
        /\ ~Told' => peer[Newcomer].view = peer'[Host].sending
    BY <1>1, <1>9, <1>10, <1>13 DEF AloneInv, ViewInv
  <2>6. peer'[Host].signaling # "local" BY <1>4, <1>10, <1>13
  <2>7. QED
    BY <1>1, <1>7, <1>8, <1>10, <1>11, <1>13, <2>1, <2>3, <2>4, <2>5, <2>6, HostSees
<1>14. QED BY <1>12, <1>13 DEF Ends

\* What the silent have to say.
LEMMA FrontSilent ==
  ASSUME LinkInv, SeenInv, Alone, peer[Newcomer].session = None, NEW e \in Ends,
         NEW name \in Telling, Runs(e, name)
  PROVE  Front(e).desc \in Silent
<1>1. NegotiationTypeOK /\ Holds(peer[e].ops, Telling, Silent)
  BY Phases DEF AloneInv, SilentInv, LinkInv
<1>2. QED BY <1>1, FrontHolds

LEMMA SetOfferSees ==
  ASSUME LinkInv, SeenInv, Alone, NEW e \in Ends, SetOffer(e)
  PROVE  AloneInv'
<1>1. NegotiationTypeOK /\ AloneInv /\ Newcomer # Host BY Phases, EndsAre DEF LinkInv
<1>2. Runs(e, "setOffer") /\ Turns(e) BY <1>1, SetOfferDoes
<1>3. peer'[Other(e)] = peer[Other(e)] BY <1>2 DEF Turns
<1>4. Prepared(e) /\ Busy(e) /\ peer[e].signaling = "stable" /\ Orderly(e) /\ OneOut(e)
  <2>1. "setOffer" \in Offering BY DEF Offering
  <2>2. Prepared(e) BY <1>2, <2>1, OfferingIs DEF Prepared
  <2>3. Orderly(e) /\ OneOut(e) BY Phases DEF AloneInv, PlainInv, Ends
  <2>4. QED BY <2>2, <2>3 DEF Orderly, Busy
<1>5. /\ Only(e, {"ops", "signaling", "pending", "gathering"})
      /\ peer'[e].ops = Rest(e) /\ peer'[e].signaling = "local"
      /\ peer'[e].pending = Front(e).desc
  BY <1>1, <1>4, SetOfferDoes
<1>6. PICK m \in Message, way \in Ways :
        /\ m.type = Front(e).desc.type /\ m \in Description
        /\ m.media = Front(e).desc.media /\ m.share = Front(e).desc.share
        /\ Mails(e, way, m)
  BY <1>1, <1>4, SetOfferDoes
<1>7. m.type = "offer"
  <2>1. Front(e).op = "setOffer" /\ peer[e].ops # <<>> BY <1>2 DEF Runs, Front
  <2>2. QED BY <1>6, <2>1, WrittenRest
<1>8. Steps(e, "setOffer", NoOperation, Nothing, m)
  BY <1>1, <1>2, <1>3, <1>5, <1>6, BoxesSent, ChainsTaken DEF Steps
<1>9. /\ Legal("setOffer", NoOperation.op, Nothing, m.type)
      /\ Answers("setOffer", NoOperation.op, Nothing, m.type)
      /\ Fresh(Host, "setOffer", NoOperation.op)
      /\ NoOperation.op \notin Telling /\ NoOperation.op # "rollback"
      /\ NoOperation.op # "setAnswer" /\ NoOperation.op # "setRemoteOffer"
  BY <1>7, NothingSaid
     DEF Legal, Answers, Fresh, Offering, Answering, Applying, Telling, Nothing
<1>10. Told' <=> Told
  <2>1. /\ "setOffer" \notin Replying /\ NoOperation.op \notin Replying
        /\ "setOffer" \notin Applying /\ NoOperation.op \notin Applying
        /\ m.type # "answer" /\ Nothing # "answer"
    BY <1>7, NothingSaid DEF Replying, Applying, Nothing
  <2>2. QED BY <1>8, <2>1, ToldKept
<1>11. /\ peer'[e].making = peer[e].making /\ peer'[e].aborted = peer[e].aborted
       /\ peer'[e].share = peer[e].share /\ peer'[e].view = peer[e].view
       /\ peer'[e].session = peer[e].session /\ peer'[e].media = peer[e].media
       /\ peer'[e].sending = peer[e].sending
  BY <1>5 DEF Only, Like, Fields
<1>12. peer'[e].making BY <1>4, <1>11 DEF Orderly
<1>13. CASE e = Newcomer
  <2>1. peer[Newcomer].session = None BY <1>4, <1>13, Phases
  <2>2. Front(e).desc \in Silent /\ m \in Silent
    <3>1. "setOffer" \in Telling BY DEF Telling
    <3>2. Front(e).desc \in Silent BY <1>2, <2>1, <3>1, FrontSilent
    <3>3. QED BY <1>6, <3>2 DEF Silent
  <2>3. ~InOps(peer'[Newcomer].ops, Replying)
    <3>1. Moves(peer[Newcomer].ops, peer'[Newcomer].ops, "setOffer", NoOperation.op, Replying)
      BY <1>8, <1>13, OwnMoves
    <3>2. ~InOps(peer[Newcomer].ops, Replying)
      BY <1>1, <1>4, <1>13 DEF AloneInv, PlainInv
    <3>3. QED BY <3>1, <3>2, NothingSaid DEF Moves, Replying, Nothing
  <2>4. ~peer'[Newcomer].share /\ ~peer'[Newcomer].sending
    BY <1>1, <1>11, <1>13 DEF AloneInv, OnceInv
  <2>5. ~peer'[Newcomer].media /\ ~peer'[Newcomer].view /\ peer'[Newcomer].session = None
    BY <1>1, <1>11, <1>13, <2>1 DEF AloneInv, SilentInv
  <2>6. /\ Told' => peer'[Newcomer].view = peer[Host].pending.share
        /\ ~Told' => peer'[Newcomer].view = peer[Host].sending
    BY <1>1, <1>10, <1>11, <1>13 DEF AloneInv, ViewInv
  <2>7. QED
    BY <1>1, <1>5, <1>8, <1>9, <1>12, <1>13, <2>1, <2>2, <2>3, <2>4, <2>5, <2>6,
       NewcomerSees
<1>14. CASE e = Host
  <2>1. peer[Newcomer].session # None /\ Other(Host) = Newcomer BY <1>4, <1>14, Phases, EndsAre
  <2>2. ~Offered(Host) /\ ~Considered(Host) /\ ~Answered(Host) /\ ~Applied(Host)
    BY <1>4, <1>14 DEF OneOut
  <2>3. /\ Moves(peer[Host].ops, peer'[Host].ops, "setOffer", Nothing, Offering)
        /\ Moves(peer[Host].ops, peer'[Host].ops, "setOffer", Nothing, Applying)
        /\ MailMoves(net[Newcomer], net'[Newcomer], Nothing, "offer", "offer")
    BY <1>7, <1>8, <1>14, <2>1, OwnMoves, NothingSaid
  <2>4. ~Prepared(Host)'
    <3>1. OnceIn(peer[Host].ops, Offering) BY <1>4, <1>14 DEF OneOut
    <3>2. QED BY <2>3, <3>1 DEF Moves, Prepared, Offering, Nothing
  <2>5. Out(Host)' BY <2>1, <2>3 DEF MailMoves, Out, Offered
  <2>6. Orderly(Host)' BY <1>5, <1>12, <1>14, <2>4, <2>5 DEF Orderly
  <2>7. ~peer'[Host].aborted BY <1>1, <1>11, <1>14 DEF AloneInv, PlainInv
  <2>8. ~Told BY <2>1, <2>2, Parts DEF Told, Considered
  <2>9. ~Told' /\ peer[Newcomer].view = peer'[Host].sending
    BY <1>1, <1>10, <1>11, <1>14, <2>8 DEF AloneInv, ViewInv
  <2>10. MailHolds(net'[Newcomer], {"offer"}, Shown(peer'[Host].pending.share))
    <3>1. MailHolds(net[Newcomer], {"offer"}, Shown(peer'[Host].pending.share))
      BY <2>1, <2>2 DEF MailHolds, Offered, Mail
    <3>2. m \in Shown(peer'[Host].pending.share) BY <1>5, <1>6, <1>14 DEF Shown
    <3>3. QED BY <1>8, <1>14, <2>1, <3>1, <3>2 DEF Steps, Boxes
  <2>11. Holds(peer[Newcomer].ops, {"setRemoteOffer"}, Shown(peer'[Host].pending.share))
    BY <2>1, <2>2 DEF Holds, Considered, InOps, Answering
  <2>12. QED
    BY <1>1, <1>8, <1>9, <1>11, <1>12, <1>14, <2>1, <2>6, <2>7, <2>9, <2>10, <2>11, HostSees
<1>15. QED BY <1>13, <1>14 DEF Ends

\* Nobody rolls back.
LEMMA RollbackSees ==
  ASSUME LinkInv, SeenInv, Alone, NEW e \in Ends, Rollback(e)
  PROVE  AloneInv'
<1>1. Runs(e, "rollback") BY RollbackDoes DEF LinkInv
<1>2. "rollback" \in Answering /\ "rollback" \in Rolling BY DEF Answering, Rolling
<1>3. InOps(peer[e].ops, Rolling) BY <1>1, <1>2, AnsweringIs
<1>4. QED BY <1>3, Phases DEF AloneInv, PlainInv

\* Who answers, and to what.
LEMMA Answerer ==
  ASSUME LinkInv, SeenInv, Alone, NEW e \in Ends, NEW name \in Answering, Runs(e, name)
  PROVE  /\ Busy(Other(e)) /\ Considered(Other(e))
         /\ name \in Replying => peer[e].signaling = "remote"
<1>1. InOps(peer[e].ops, Answering) /\ (name \in Replying => InOps(peer[e].ops, Replying))
  BY AnsweringIs
<1>2. Other(Other(e)) = e BY EndsAre
<1>3. Considered(Other(e)) BY <1>1, <1>2 DEF Considered
<1>4. InOps(peer[Newcomer].ops, Replying) => peer[Newcomer].signaling = "remote"
  BY Phases DEF AloneInv, PlainInv
<1>5. InOps(peer[Host].ops, Replying) => peer[Host].signaling = "remote"
  BY EndsAre DEF LinkInv, Negotiating, RemoteInv, RemoteOf, Sure
<1>6. QED BY <1>1, <1>3, <1>4, <1>5 DEF Busy, Out, Ends

LEMMA SetRemoteOfferSees ==
  ASSUME LinkInv, SeenInv, Alone, NEW e \in Ends, SetRemoteOffer(e)
  PROVE  AloneInv'
<1>1. /\ NegotiationTypeOK /\ AloneInv /\ Newcomer # Host
      /\ Other(Newcomer) = Host /\ Other(Host) = Newcomer
  BY Phases, EndsAre DEF LinkInv
<1>2. /\ Runs(e, "setRemoteOffer") /\ Turns(e) /\ net' = net
      /\ Only(e, {"ops", "signaling", "pending", "view", "reaches"})
      /\ peer'[e].signaling = "remote" /\ peer'[e].pending = Front(e).desc
      /\ peer'[e].view = Front(e).desc.share
  BY <1>1, SetRemoteOfferDoes
<1>3. peer'[Other(e)] = peer[Other(e)] BY <1>2 DEF Turns
<1>4. PICK op \in Operation :
        op.op = "createAnswer" /\ peer'[e].ops = Append(Rest(e), op)
  BY <1>1, SetRemoteOfferDoes
<1>5. Busy(Other(e)) /\ Considered(Other(e))
  <2>1. "setRemoteOffer" \in Answering BY DEF Answering
  <2>2. QED BY <1>2, <2>1, Answerer
<1>6. Steps(e, "setRemoteOffer", op, Nothing, NoMessage)
  BY <1>1, <1>2, <1>3, <1>4, BoxesSame, ChainsReplaced DEF Steps
<1>7. /\ Legal("setRemoteOffer", op.op, Nothing, NoMessage.type)
      /\ Answers("setRemoteOffer", op.op, Nothing, NoMessage.type)
      /\ op.op # "rollback" /\ op.op # "setAnswer" /\ op.op # "setRemoteOffer"
      /\ op.op \notin Telling /\ op.op \notin Offering /\ op.op \notin Applying
      /\ "setRemoteOffer" \notin Offering /\ "setRemoteOffer" \notin Applying
      /\ NoMessage.type # "offer" /\ NoMessage.type # "answer" /\ Nothing # "answer"
  BY <1>4, NothingSaid
     DEF Legal, Answers, Offering, Answering, Applying, Telling, Nothing
<1>8. /\ peer'[e].making = peer[e].making /\ peer'[e].aborted = peer[e].aborted
      /\ peer'[e].share = peer[e].share /\ peer'[e].channel = peer[e].channel
      /\ peer'[e].session = peer[e].session /\ peer'[e].sending = peer[e].sending
      /\ peer'[e].raised = peer[e].raised
  BY <1>2 DEF Only, Like, Fields
<1>9. CASE e = Newcomer
  <2>1. Busy(Host) /\ peer[Newcomer].session # None BY <1>1, <1>5, <1>9, Phases
  <2>2. peer[Host].signaling = "local"
    BY <1>1, <1>5, <1>9 DEF AloneInv, PlainInv, Orderly, Out
  <2>3. Front(e).desc.share = peer[Host].pending.share
    <3>1. Holds(peer[Newcomer].ops, {"setRemoteOffer"}, Shown(peer[Host].pending.share))
      BY <1>1, <2>2 DEF AloneInv, ViewInv
    <3>2. "setRemoteOffer" \in {"setRemoteOffer"} OBVIOUS
    <3>3. Front(e).desc \in Shown(peer[Host].pending.share)
      BY <1>1, <1>2, <1>9, <3>1, <3>2, FrontHolds
    <3>4. QED BY <3>3 DEF Shown
  <2>4. Told'
    <3>1. Moves(peer[Newcomer].ops, peer'[Newcomer].ops, "setRemoteOffer", op.op, Replying)
      BY <1>6, <1>9, OwnMoves
    <3>2. QED BY <1>4, <3>1 DEF Moves, Replying, Told
  <2>5. /\ ~peer'[Newcomer].sending /\ ~peer'[Newcomer].raised
        /\ peer'[Newcomer].session # None
    BY <1>1, <1>8, <1>9, <2>1 DEF AloneInv, OnceInv
  <2>6. QED
    BY <1>2, <1>6, <1>7, <1>8, <1>9, <2>1, <2>3, <2>4, <2>5, NewcomerAnswers
<1>10. CASE e = Host
  <2>1. Busy(Newcomer) /\ peer[Newcomer].session = None BY <1>1, <1>5, <1>10, Phases
  <2>2. Front(e).desc \in Silent
    <3>1. "setRemoteOffer" \in Telling BY DEF Telling
    <3>2. QED BY <1>2, <2>1, <3>1, FrontSilent
  <2>3. peer'[Host].sending \in BOOLEAN /\ ~peer'[Host].sending
    <3>1. peer[Host].sending \in BOOLEAN BY <1>1, <1>10 DEF NegotiationTypeOK, Peer
    <3>2. QED BY <1>1, <1>8, <1>10, <2>1, <3>1 DEF AloneInv, SilentInv
  <2>4. QED
    BY <1>2, <1>6, <1>7, <1>8, <1>10, <2>1, <2>2, <2>3, HostAnswers
<1>11. QED BY <1>9, <1>10 DEF Ends

LEMMA CreateAnswerSees ==
  ASSUME LinkInv, SeenInv, Alone, NEW e \in Ends, CreateAnswer(e)
  PROVE  AloneInv'
<1>1. /\ NegotiationTypeOK /\ AloneInv /\ Newcomer # Host
      /\ Other(Newcomer) = Host /\ Other(Host) = Newcomer
  BY Phases, EndsAre DEF LinkInv
<1>2. Runs(e, "createAnswer") /\ Turns(e) /\ net' = net /\ Only(e, {"ops"})
  BY <1>1, CreateAnswerDoes
<1>3. peer'[Other(e)] = peer[Other(e)] BY <1>2 DEF Turns
<1>4. Busy(Other(e)) /\ peer[e].signaling = "remote" /\ "createAnswer" \in Answering
  <2>1. "createAnswer" \in Answering /\ "createAnswer" \in Replying
    BY DEF Answering, Replying
  <2>2. QED BY <1>2, <2>1, Answerer
<1>5. PICK op \in Operation :
        /\ op.op = "setAnswer" /\ op.desc \in Description
        /\ op.desc.media = peer[e].pending.media
        /\ op.desc.share => peer[e].pending.media /\ peer[e].share
        /\ peer'[e].ops = Append(Rest(e), op)
  BY <1>1, <1>4, CreateAnswerDoes
<1>6. Steps(e, "createAnswer", op, Nothing, NoMessage)
  BY <1>1, <1>2, <1>3, <1>5, BoxesSame, ChainsReplaced DEF Steps
<1>7. /\ Legal("createAnswer", op.op, Nothing, NoMessage.type)
      /\ Answers("createAnswer", op.op, Nothing, NoMessage.type)
      /\ op.op # "rollback" /\ op.op # "setRemoteOffer"
      /\ op.op \notin Offering /\ op.op \notin Applying
      /\ "createAnswer" \notin Offering /\ "createAnswer" \notin Applying
      /\ NoMessage.type # "offer" /\ NoMessage.type # "answer" /\ Nothing # "answer"
  BY <1>5, NothingSaid DEF Legal, Answers, Offering, Answering, Applying, Nothing
<1>8. /\ peer'[e].making = peer[e].making /\ peer'[e].aborted = peer[e].aborted
      /\ peer'[e].share = peer[e].share /\ peer'[e].view = peer[e].view
      /\ peer'[e].channel = peer[e].channel /\ peer'[e].signaling = peer[e].signaling
      /\ peer'[e].pending = peer[e].pending /\ peer'[e].session = peer[e].session
      /\ peer'[e].sending = peer[e].sending /\ peer'[e].raised = peer[e].raised
  BY <1>2 DEF Only, Like, Fields
<1>9. CASE e = Newcomer
  <2>1. Busy(Host) /\ peer[Newcomer].session # None BY <1>1, <1>4, <1>9, Phases
  <2>2. op.desc \in Shown(FALSE)
    <3>1. ~op.desc.share BY <1>1, <1>5, <1>9 DEF AloneInv, OnceInv
    <3>2. op.desc.share \in BOOLEAN BY <1>5, Descriptions
    <3>3. QED BY <1>5, <3>1, <3>2 DEF Shown
  <2>3. Told /\ Told'
    <3>1. "createAnswer" \in Replying BY DEF Replying
    <3>2. InOps(peer[Newcomer].ops, Replying) BY <1>2, <1>4, <1>9, <3>1, AnsweringIs
    <3>3. Moves(peer[Newcomer].ops, peer'[Newcomer].ops, "createAnswer", op.op, Replying)
      BY <1>6, <1>9, OwnMoves
    <3>4. QED BY <1>5, <3>2, <3>3 DEF Moves, Replying, Told
  <2>4. peer'[Newcomer].view = peer[Host].pending.share
    BY <1>1, <1>8, <1>9, <2>3 DEF AloneInv, ViewInv
  <2>5. /\ ~peer'[Newcomer].sending /\ ~peer'[Newcomer].raised
        /\ peer'[Newcomer].session # None
    BY <1>1, <1>8, <1>9, <2>1 DEF AloneInv, OnceInv
  <2>6. peer'[Newcomer].signaling = "remote" BY <1>4, <1>8, <1>9
  <2>7. QED
    BY <1>6, <1>7, <1>8, <1>9, <2>1, <2>2, <2>3, <2>4, <2>5, <2>6, NewcomerAnswers
<1>10. CASE e = Host
  <2>1. Busy(Newcomer) /\ peer[Newcomer].session = None BY <1>1, <1>4, <1>10, Phases
  <2>2. peer[Host].pending \in Silent
    BY <1>1, <1>4, <1>10, <2>1 DEF AloneInv, SilentInv
  <2>3. op.desc \in Silent BY <1>5, <1>10, <2>2 DEF Silent
  <2>4. peer'[Host].sending \in BOOLEAN /\ ~peer'[Host].sending
    <3>1. peer[Host].sending \in BOOLEAN BY <1>1, <1>10 DEF NegotiationTypeOK, Peer
    <3>2. QED BY <1>1, <1>8, <1>10, <2>1, <3>1 DEF AloneInv, SilentInv
  <2>5. peer'[Host].signaling = "remote" /\ peer'[Host].pending \in Silent
    BY <1>4, <1>8, <1>10, <2>2
  <2>6. QED BY <1>6, <1>7, <1>8, <1>10, <2>1, <2>3, <2>4, <2>5, HostAnswers
<1>11. QED BY <1>9, <1>10 DEF Ends

LEMMA SetAnswerSees ==
  ASSUME LinkInv, SeenInv, Alone, NEW e \in Ends, SetAnswer(e)
  PROVE  AloneInv'
<1>1. /\ NegotiationTypeOK /\ AloneInv /\ LinkedInv /\ Newcomer # Host
      /\ Other(Newcomer) = Host /\ Other(Host) = Newcomer
  BY Phases, EndsAre DEF LinkInv
<1>2. Runs(e, "setAnswer") /\ Turns(e) /\ peer'[e].ops = Rest(e)
  BY <1>1, SetAnswerDoes
<1>3. peer'[Other(e)] = peer[Other(e)] BY <1>2 DEF Turns
<1>4. Busy(Other(e)) /\ peer[e].signaling = "remote" /\ "setAnswer" \in Answering
  <2>1. "setAnswer" \in Answering /\ "setAnswer" \in Replying BY DEF Answering, Replying
  <2>2. QED BY <1>2, <2>1, Answerer
<1>5. /\ Only(e, {"ops", "signaling", "pending", "session", "media", "sending",
                  "raised", "gathering"})
      /\ peer'[e].signaling = "stable" /\ peer'[e].session = peer[e].pending.id
      /\ peer'[e].sending = Front(e).desc.share /\ peer'[e].raised = FALSE
  BY <1>1, <1>4, SetAnswerDoes
<1>6. PICK m \in Message, way \in Ways :
        /\ m.type = Front(e).desc.type /\ m \in Description
        /\ m.media = Front(e).desc.media /\ m.share = Front(e).desc.share
        /\ Mails(e, way, m)
  BY <1>1, <1>4, SetAnswerDoes
<1>7. m.type = "answer"
  <2>1. Front(e).op = "setAnswer" /\ peer[e].ops # <<>> BY <1>2 DEF Runs, Front
  <2>2. QED BY <1>6, <2>1, WrittenRest
<1>8. Steps(e, "setAnswer", NoOperation, Nothing, m)
  BY <1>1, <1>2, <1>3, <1>6, BoxesSent, ChainsTaken DEF Steps
<1>9. /\ Legal("setAnswer", NoOperation.op, Nothing, m.type)
      /\ Answers("setAnswer", NoOperation.op, Nothing, m.type)
      /\ NoOperation.op # "rollback" /\ NoOperation.op # "setRemoteOffer"
      /\ NoOperation.op # "setAnswer" /\ NoOperation.op \notin Telling
      /\ NoOperation.op \notin Offering /\ NoOperation.op \notin Applying
      /\ "setAnswer" \notin Offering /\ "setAnswer" \notin Applying
      /\ m.type # "offer" /\ Nothing # "answer"
  BY <1>7, NothingSaid
     DEF Legal, Answers, Offering, Answering, Applying, Telling, Nothing
<1>10. peer'[e].session # None BY <1>1, <1>4, <1>5, PendingNumbered
<1>11. /\ peer'[e].making = peer[e].making /\ peer'[e].aborted = peer[e].aborted
       /\ peer'[e].share = peer[e].share /\ peer'[e].view = peer[e].view
       /\ peer'[e].channel = peer[e].channel
  BY <1>5 DEF Only, Like, Fields
<1>12. CASE e = Newcomer
  <2>1. Busy(Host) /\ OneOut(Host) BY <1>1, <1>4, <1>12 DEF AloneInv, PlainInv
  <2>2. ~peer'[Newcomer].sending
    <3>1. Holds(peer[Newcomer].ops, {"setAnswer"}, Shown(FALSE))
      BY <1>1 DEF AloneInv, OnceInv
    <3>2. "setAnswer" \in {"setAnswer"} OBVIOUS
    <3>3. Front(e).desc \in Shown(FALSE) BY <1>1, <1>2, <1>12, <3>1, <3>2, FrontHolds
    <3>4. QED BY <1>5, <1>12, <3>3 DEF Shown
  <2>3. /\ Moves(peer[Newcomer].ops, peer'[Newcomer].ops, "setAnswer", Nothing, Replying)
        /\ MailMoves(net[Host], net'[Host], Nothing, "answer", "answer")
    BY <1>1, <1>7, <1>8, <1>12, OwnMoves, NothingSaid
  <2>4. ~InOps(peer'[Newcomer].ops, Replying) /\ InOps(peer[Newcomer].ops, Replying)
    <3>1. OnceIn(peer[Newcomer].ops, Replying) BY <1>1, <2>1, Parts DEF OneOut
    <3>2. QED BY <2>3, <3>1 DEF Moves, Replying, Nothing
  <2>5. Told /\ Told' BY <2>3, <2>4 DEF MailMoves, Told, Answered
  <2>6. peer'[Newcomer].view = peer[Host].pending.share
    BY <1>1, <1>11, <1>12, <2>5 DEF AloneInv, ViewInv
  <2>7. ~peer'[Newcomer].raised BY <1>5, <1>12
  <2>8. peer'[Newcomer].signaling # "local" BY <1>5, <1>12
  <2>9. QED
    BY <1>8, <1>9, <1>10, <1>11, <1>12, <2>1, <2>2, <2>4, <2>5, <2>6, <2>7, <2>8,
       NewcomerAnswers
<1>13. CASE e = Host
  <2>1. Busy(Newcomer) /\ peer[Newcomer].session = None BY <1>1, <1>4, <1>13, Phases
  <2>2. Front(e).desc \in Silent /\ m \in Silent
    <3>1. "setAnswer" \in Telling BY DEF Telling
    <3>2. Front(e).desc \in Silent BY <1>2, <2>1, <3>1, FrontSilent
    <3>3. QED BY <1>6, <3>2 DEF Silent
  <2>3. peer'[Host].sending \in BOOLEAN /\ ~peer'[Host].sending
    <3>1. Front(e).desc \in Description /\ ~Front(e).desc.share BY <2>2 DEF Silent
    <3>2. Front(e).desc.share \in BOOLEAN BY <3>1, Descriptions
    <3>3. QED BY <1>5, <1>13, <3>1, <3>2
  <2>4. ~peer'[Host].raised BY <1>5, <1>13
  <2>5. peer'[Host].signaling = "stable" BY <1>5, <1>13
  <2>6. QED
    BY <1>8, <1>9, <1>10, <1>11, <1>13, <2>1, <2>2, <2>3, <2>4, <2>5, HostAnswers
<1>14. QED BY <1>12, <1>13 DEF Ends

LEMMA SetRemoteAnswerSees ==
  ASSUME LinkInv, SeenInv, Alone, NEW e \in Ends, SetRemoteAnswer(e)
  PROVE  AloneInv'
<1>1. /\ NegotiationTypeOK /\ AloneInv /\ LinkedInv /\ Newcomer # Host
      /\ Other(Newcomer) = Host /\ Other(Host) = Newcomer
  BY Phases, EndsAre DEF LinkInv
<1>2. Runs(e, "setRemoteAnswer") /\ Turns(e) /\ peer'[e].ops = Rest(e) /\ net' = net
  BY <1>1, SetRemoteAnswerDoes
<1>3. peer'[Other(e)] = peer[Other(e)] BY <1>2 DEF Turns
<1>4. Steps(e, "setRemoteAnswer", NoOperation, Nothing, NoMessage)
  BY <1>1, <1>2, <1>3, BoxesSame, ChainsTaken DEF Steps
<1>5. Orderly(e) /\ OneOut(e) BY Phases DEF AloneInv, PlainInv, Ends
<1>6. /\ Moves(peer[e].ops, peer'[e].ops, "setRemoteAnswer", Nothing, Offering)
      /\ Moves(peer[e].ops, peer'[e].ops, "setRemoteAnswer", Nothing, Applying)
      /\ Moves(peer[e].ops, peer'[e].ops, "setRemoteAnswer", Nothing, Replying)
      /\ MailMoves(net[Other(e)], net'[Other(e)], Nothing, Nothing, "offer")
      /\ MailMoves(net[e], net'[e], Nothing, Nothing, "answer")
      /\ Considered(e)' <=> Considered(e)
  BY <1>4, OwnMoves, NothingSaid
<1>7. Applied(e) BY <1>6 DEF Moves, Applied, Applying
<1>8. Busy(e) /\ ~Prepared(e) /\ ~Out(e) /\ peer[e].signaling = "local" /\ ~peer[e].making
  BY <1>5, <1>7 DEF OneOut, Orderly, Busy, Out
<1>9. /\ Only(e, {"ops", "signaling", "pending", "session", "media", "sending",
                  "raised", "view", "reaches"})
      /\ peer'[e].signaling = "stable" /\ peer'[e].session = peer[e].pending.id
      /\ peer'[e].sending = peer[e].pending.share /\ peer'[e].raised = FALSE
      /\ peer'[e].view = Front(e).desc.share
  BY <1>1, <1>8, SetRemoteAnswerDoes
<1>10. /\ Legal("setRemoteAnswer", NoOperation.op, Nothing, NoMessage.type)
       /\ Answers("setRemoteAnswer", NoOperation.op, Nothing, NoMessage.type)
       /\ Fresh(Host, "setRemoteAnswer", NoOperation.op)
       /\ NoOperation.op # "rollback" /\ NoOperation.op # "setRemoteOffer"
       /\ NoOperation.op # "setAnswer" /\ NoOperation.op \notin Telling
       /\ NoMessage.type \notin {"offer", "answer"} /\ NoMessage.type # "answer"
  BY NothingSaid
     DEF Legal, Answers, Fresh, Offering, Answering, Applying, Telling, Nothing
<1>11. peer'[e].session # None BY <1>1, <1>8, <1>9, PendingNumbered
<1>12. /\ peer'[e].making = peer[e].making /\ peer'[e].aborted = peer[e].aborted
       /\ peer'[e].share = peer[e].share
  BY <1>9 DEF Only, Like, Fields
<1>13. CASE e = Newcomer
  <2>1. peer[Newcomer].session = None /\ ~Told BY <1>8, <1>13, Phases
  <2>2. peer[Host].session # None BY <1>1, <1>7, <1>13 DEF LinkedInv, AnsweredInv
  <2>3. Front(e).desc \in Silent /\ peer[Newcomer].pending \in Silent
    <3>1. "setRemoteAnswer" \in Telling BY DEF Telling
    <3>2. QED
      BY <1>1, <1>2, <1>8, <1>13, <2>1, <3>1, FrontSilent DEF AloneInv, SilentInv
  <2>4. ~peer'[Newcomer].sending /\ ~peer'[Newcomer].view /\ peer'[Newcomer].view \in BOOLEAN
    <3>1. Front(e).desc \in Description /\ ~Front(e).desc.share BY <2>3 DEF Silent
    <3>2. Front(e).desc.share \in BOOLEAN BY <3>1, Descriptions
    <3>3. QED BY <1>9, <1>13, <2>3, <3>1, <3>2 DEF Silent
  <2>5. ~Told'
    <3>1. /\ "setRemoteAnswer" \notin Replying /\ NoOperation.op \notin Replying
      BY NothingSaid DEF Replying, Nothing
    <3>2. QED BY <1>1, <1>4, <1>10, <1>13, <2>1, <3>1, ToldKept
  <2>6. peer'[Newcomer].view = peer[Host].sending
    <3>1. peer[Host].sending \in BOOLEAN BY <1>1, EndsAre DEF NegotiationTypeOK, Peer
    <3>2. ~peer[Host].sending BY <1>1, <2>1 DEF AloneInv, SilentInv
    <3>3. QED BY <2>4, <3>1, <3>2
  <2>7. ~InOps(peer'[Newcomer].ops, Replying)
    <3>1. ~InOps(peer[Newcomer].ops, Replying)
      BY <1>1, <1>8, <1>13 DEF AloneInv, PlainInv
    <3>2. QED BY <1>6, <1>13, <3>1 DEF Moves, Replying, Nothing
  <2>8. /\ ~peer'[Newcomer].share /\ ~peer'[Newcomer].making /\ ~peer'[Newcomer].raised
        /\ peer'[Newcomer].signaling # "local" /\ peer'[Newcomer].session # None
    BY <1>1, <1>8, <1>9, <1>11, <1>12, <1>13 DEF AloneInv, OnceInv
  <2>9. QED
    BY <1>1, <1>4, <1>10, <1>13, <2>2, <2>4, <2>5, <2>6, <2>7, <2>8, NewcomerSees
<1>14. CASE e = Host
  <2>1. peer[Newcomer].session # None BY <1>8, <1>14, Phases
  <2>2. ~Prepared(Host)' /\ ~Out(Host)' /\ ~Applied(Host)'
    <3>1. ~Applied(Host)'
      <4>1. OnceIn(peer[Host].ops, Applying) BY <1>5, <1>14 DEF OneOut
      <4>2. QED BY <1>6, <1>14, <4>1 DEF Moves, Applied, Applying, Nothing
    <3>2. ~Prepared(Host)'
      BY <1>6, <1>8, <1>14 DEF Moves, Prepared, Offering, Nothing
    <3>3. ~Out(Host)'
      BY <1>6, <1>8, <1>14 DEF MailMoves, Out, Offered, Answered, Nothing
    <3>4. QED BY <3>1, <3>2, <3>3
  <2>3. Orderly(Host)' BY <1>8, <1>9, <1>12, <1>14, <2>2 DEF Orderly
  <2>4. ~Told'
    <3>1. ~InOps(peer[Newcomer].ops, Replying)
      BY <1>1, <1>8, <1>14, Parts DEF Out, Considered
    <3>2. peer'[Newcomer] = peer[Newcomer] BY <1>1, <1>3, <1>14
    <3>3. QED BY <2>2, <3>1, <3>2 DEF Told, Out
  <2>5. peer[Newcomer].view = peer'[Host].sending
    <3>1. Told BY <1>7, <1>14 DEF Told
    <3>2. QED BY <1>1, <1>9, <1>14, <3>1 DEF AloneInv, ViewInv
  <2>6. /\ ~peer'[Host].aborted /\ ~peer'[Host].raised
        /\ peer'[Host].signaling # "local" /\ peer'[Host].session # None
    BY <1>1, <1>9, <1>11, <1>12, <1>14 DEF AloneInv, PlainInv
  <2>7. QED
    BY <1>1, <1>4, <1>10, <1>14, <2>1, <2>3, <2>4, <2>5, <2>6, HostSees
<1>15. QED BY <1>13, <1>14 DEF Ends

\* Nobody is offering when an offer comes.
LEMMA OnRemoteOfferSees ==
  ASSUME LinkInv, SeenInv, Alone, NEW e \in Ends, NEW way \in Ways, onRemoteOffer(e, way)
  PROVE  AloneInv'
<1>1. /\ NegotiationTypeOK /\ AloneInv /\ Beginnings /\ RemoteInv /\ Newcomer # Host
      /\ Other(Newcomer) = Host /\ Other(Host) = Newcomer
  BY Phases, EndsAre DEF LinkInv, Negotiating
<1>2. /\ Turns(e) /\ Takes(e, way) /\ Head(net[e][way]).type = "offer"
      /\ peer[e].role # "none"
  BY <1>1, OnRemoteOfferDoes
<1>3. peer'[Other(e)] = peer[Other(e)] BY <1>2 DEF Turns
<1>4. Offered(Other(e)) /\ Busy(Other(e))
  <2>1. BoxMoves(e, "offer", Nothing) BY <1>1, <1>2, BoxesTaken DEF Boxes
  <2>2. Mail(net[e], "offer") BY <2>1 DEF BoxMoves, Types, MailMoves
  <2>3. Other(Other(e)) = e BY EndsAre
  <2>4. QED BY <2>2, <2>3 DEF Offered, Out, Busy
<1>5. /\ ~(peer[e].role = "impolite" /\ Colliding(peer[e]))
      /\ ~(peer[e].role = "polite" /\ peer[e].making /\ peer[e].signaling # "stable")
  <2>1. CASE e = Newcomer
    <3>1. /\ peer[Newcomer].session # None /\ peer[Host].signaling = "local"
          /\ OneOut(Host) /\ peer[Newcomer].role = "impolite"
      BY <1>1, <1>4, <2>1, Phases DEF AloneInv, PlainInv, Orderly, Out, Beginnings
    <3>2. ~peer[Newcomer].making /\ peer[Newcomer].signaling # "local"
      BY <1>1, <3>1 DEF AloneInv, OnceInv
    <3>3. ~Considered(Host) BY <1>1, <1>4, <2>1, <3>1 DEF OneOut
    <3>4. ~InOps(peer[Newcomer].ops, Replying)
      BY <1>1, <3>3, Parts DEF Considered
    <3>5. peer[Newcomer].signaling # "remote"
      BY <1>1, <3>4, EndsAre DEF RemoteInv, RemoteOf
    <3>6. peer[Newcomer].signaling = "stable"
      BY <1>1, <2>1, <3>2, <3>5 DEF NegotiationTypeOK, Peer
    <3>7. QED BY <2>1, <3>1, <3>2, <3>6 DEF Colliding
  <2>2. CASE e = Host
    <3>1. ~peer[Host].making BY <1>1, <1>4, <2>2, Phases
    <3>2. QED BY <1>1, <2>2, <3>1 DEF Beginnings
  <2>3. QED BY <2>1, <2>2 DEF Ends
<1>6. Only(e, {"ignoring", "ops"}) BY <1>1, <1>5, OnRemoteOfferDoes
<1>7. PICK op \in Operation :
        /\ op.op = "setRemoteOffer" /\ op.desc = Head(net[e][way])
        /\ peer'[e].ops = Append(peer[e].ops, op)
  BY <1>1, <1>5, OnRemoteOfferDoes
<1>8. Steps(e, Nothing, op, "offer", NoMessage)
  BY <1>1, <1>2, <1>3, <1>7, BoxesTaken, ChainsAdded DEF Steps
<1>9. /\ Legal(Nothing, op.op, "offer", NoMessage.type)
      /\ Answers(Nothing, op.op, "offer", NoMessage.type)
      /\ op.op # "rollback" /\ op.op # "setAnswer"
      /\ op.op \notin Offering /\ op.op \notin Applying /\ op.op \notin Replying
      /\ Nothing \notin Offering /\ Nothing \notin Applying /\ Nothing \notin Replying
      /\ NoMessage.type # "offer" /\ NoMessage.type # "answer"
  BY <1>7, NothingSaid
     DEF Legal, Answers, Offering, Answering, Applying, Replying, Nothing
<1>10. /\ peer'[e].making = peer[e].making /\ peer'[e].aborted = peer[e].aborted
       /\ peer'[e].share = peer[e].share /\ peer'[e].view = peer[e].view
       /\ peer'[e].channel = peer[e].channel /\ peer'[e].signaling = peer[e].signaling
       /\ peer'[e].pending = peer[e].pending /\ peer'[e].session = peer[e].session
       /\ peer'[e].sending = peer[e].sending /\ peer'[e].raised = peer[e].raised
  BY <1>6 DEF Only, Like, Fields
<1>11. CASE e = Newcomer
  <2>1. /\ Busy(Host) /\ peer[Newcomer].session # None /\ peer[Host].signaling = "local"
    BY <1>1, <1>4, <1>11, Phases DEF AloneInv, PlainInv, Orderly, Out
  <2>2. op.desc \in Shown(peer[Host].pending.share)
    <3>1. MailHolds(net[e], {"offer"}, Shown(peer[Host].pending.share))
      BY <1>1, <1>11, <2>1 DEF AloneInv, ViewInv
    <3>2. Head(net[e][way]).type \in {"offer"} BY <1>2
    <3>3. Head(net[e][way]) \in Shown(peer[Host].pending.share)
      BY <1>1, <1>2, <3>1, <3>2, MailHoldsTaken
    <3>4. QED BY <1>7, <3>3
  <2>3. Told' <=> Told BY <1>8, <1>9, <1>11, <1>1, ToldKept
  <2>4. /\ Told' => peer'[Newcomer].view = peer[Host].pending.share
        /\ ~Told' => peer'[Newcomer].view = peer[Host].sending
    BY <1>1, <1>10, <1>11, <2>3 DEF AloneInv, ViewInv
  <2>5. InOps(peer'[Newcomer].ops, Replying) => InOps(peer[Newcomer].ops, Replying)
    <3>1. Moves(peer[Newcomer].ops, peer'[Newcomer].ops, Nothing, op.op, Replying)
      BY <1>8, <1>11, OwnMoves
    <3>2. QED BY <1>9, <3>1 DEF Moves
  <2>6. InOps(peer'[Newcomer].ops, Replying) => peer'[Newcomer].signaling = "remote"
    BY <1>1, <1>10, <1>11, <2>5 DEF AloneInv, PlainInv
  <2>7. /\ ~peer'[Newcomer].sending /\ ~peer'[Newcomer].raised
        /\ peer'[Newcomer].session # None /\ peer'[Newcomer].signaling # "local"
    BY <1>1, <1>10, <1>11, <2>1 DEF AloneInv, OnceInv
  <2>8. QED
    BY <1>8, <1>9, <1>10, <1>11, <2>1, <2>2, <2>4, <2>6, <2>7, NewcomerAnswers
<1>12. CASE e = Host
  <2>1. /\ Busy(Newcomer) /\ peer[Newcomer].session = None /\ peer[Host].signaling # "local"
    BY <1>1, <1>4, <1>12, Phases
  <2>2. op.desc \in Silent
    <3>1. MailHolds(net[e], {"offer", "answer"}, Silent)
      BY <1>1, <2>1 DEF AloneInv, SilentInv
    <3>2. Head(net[e][way]).type \in {"offer", "answer"} BY <1>2
    <3>3. Head(net[e][way]) \in Silent BY <1>1, <1>2, <3>1, <3>2, MailHoldsTaken
    <3>4. QED BY <1>7, <3>3
  <2>3. peer'[Host].sending \in BOOLEAN /\ ~peer'[Host].sending
    <3>1. peer[Host].sending \in BOOLEAN BY <1>1, <1>12 DEF NegotiationTypeOK, Peer
    <3>2. QED BY <1>1, <1>10, <1>12, <2>1, <3>1 DEF AloneInv, SilentInv
  <2>4. /\ peer'[Host].signaling # "local"
        /\ peer'[Host].signaling # "stable" => peer'[Host].pending \in Silent
    BY <1>1, <1>10, <1>12, <2>1 DEF AloneInv, SilentInv
  <2>5. "offer" # "answer" OBVIOUS
  <2>6. QED BY <1>8, <1>9, <1>10, <1>12, <2>1, <2>2, <2>3, <2>4, <2>5, HostAnswers
<1>13. QED BY <1>11, <1>12 DEF Ends

LEMMA OnRemoteAnswerSees ==
  ASSUME LinkInv, SeenInv, Alone, NEW e \in Ends, NEW way \in Ways, onRemoteAnswer(e, way)
  PROVE  AloneInv'
<1>1. /\ NegotiationTypeOK /\ AloneInv /\ Newcomer # Host
      /\ Other(Newcomer) = Host /\ Other(Host) = Newcomer
  BY Phases, EndsAre DEF LinkInv
<1>2. /\ Turns(e) /\ Takes(e, way) /\ Head(net[e][way]).type = "answer"
  BY <1>1, OnRemoteAnswerDoes
<1>3. peer'[Other(e)] = peer[Other(e)] BY <1>2 DEF Turns
<1>4. Answered(e) /\ Out(e) /\ Busy(e) /\ Orderly(e) /\ peer[e].signaling = "local"
  <2>1. BoxMoves(e, "answer", Nothing) BY <1>1, <1>2, BoxesTaken DEF Boxes
  <2>2. Mail(net[e], "answer") BY <2>1 DEF BoxMoves, Types, MailMoves
  <2>3. Orderly(e) BY Phases DEF AloneInv, PlainInv, Ends
  <2>4. QED BY <2>2, <2>3 DEF Answered, Out, Busy, Orderly
<1>5. Only(e, {"making", "ops"}) /\ peer'[e].making = FALSE
  BY <1>1, <1>4, OnRemoteAnswerDoes
<1>6. PICK op \in Operation :
        /\ op.op = "setRemoteAnswer" /\ op.desc = Head(net[e][way])
        /\ peer'[e].ops = Append(peer[e].ops, op)
  BY <1>1, <1>4, OnRemoteAnswerDoes
<1>7. Steps(e, Nothing, op, "answer", NoMessage)
  BY <1>1, <1>2, <1>3, <1>6, BoxesTaken, ChainsAdded DEF Steps
<1>8. /\ Legal(Nothing, op.op, "answer", NoMessage.type)
      /\ Answers(Nothing, op.op, "answer", NoMessage.type)
      /\ Fresh(Host, Nothing, op.op)
      /\ op.op # "rollback" /\ op.op # "setAnswer" /\ op.op # "setRemoteOffer"
      /\ op.op \notin Replying /\ Nothing \notin Replying
      /\ NoMessage.type \notin {"offer", "answer"} /\ NoMessage.type # "answer"
  BY <1>6, NothingSaid
     DEF Legal, Answers, Fresh, Offering, Answering, Applying, Replying, Nothing
<1>9. Applied(e)'
  <2>1. Moves(peer[e].ops, peer'[e].ops, Nothing, op.op, Applying) BY <1>7, OwnMoves
  <2>2. QED BY <1>6, <2>1 DEF Moves, Applied, Applying
<1>10. /\ peer'[e].aborted = peer[e].aborted
       /\ peer'[e].share = peer[e].share /\ peer'[e].view = peer[e].view
       /\ peer'[e].channel = peer[e].channel /\ peer'[e].signaling = peer[e].signaling
       /\ peer'[e].pending = peer[e].pending /\ peer'[e].session = peer[e].session
       /\ peer'[e].media = peer[e].media
       /\ peer'[e].sending = peer[e].sending /\ peer'[e].raised = peer[e].raised
  BY <1>5 DEF Only, Like, Fields
<1>11. peer[Newcomer].session = None => op.desc \in Silent
  <2>1. ASSUME peer[Newcomer].session = None PROVE op.desc \in Silent
    <3>1. MailHolds(net[e], {"offer", "answer"}, Silent)
      BY <1>1, <2>1 DEF AloneInv, SilentInv
    <3>2. Head(net[e][way]).type \in {"offer", "answer"} BY <1>2
    <3>3. Head(net[e][way]) \in Silent BY <1>1, <1>2, <3>1, <3>2, MailHoldsTaken
    <3>4. QED BY <1>6, <3>3
  <2>2. QED BY <2>1
<1>12. CASE e = Newcomer
  <2>1. peer[Newcomer].session = None BY <1>4, <1>12, Phases
  <2>2. Told' <=> Told BY <1>1, <1>7, <1>8, <1>12, ToldKept
  <2>3. /\ Told' => peer'[Newcomer].view = peer[Host].pending.share
        /\ ~Told' => peer'[Newcomer].view = peer[Host].sending
    BY <1>1, <1>10, <1>12, <2>2 DEF AloneInv, ViewInv
  <2>4. ~InOps(peer'[Newcomer].ops, Replying)
    <3>1. Moves(peer[Newcomer].ops, peer'[Newcomer].ops, Nothing, op.op, Replying)
      BY <1>7, <1>12, OwnMoves
    <3>2. ~InOps(peer[Newcomer].ops, Replying)
      BY <1>1, <1>4, <1>12 DEF AloneInv, PlainInv
    <3>3. QED BY <1>8, <3>1, <3>2 DEF Moves
  <2>5. ~peer'[Newcomer].share /\ ~peer'[Newcomer].sending
    BY <1>1, <1>10, <1>12 DEF AloneInv, OnceInv
  <2>6. /\ ~peer'[Newcomer].media /\ ~peer'[Newcomer].view
        /\ peer'[Newcomer].session = None
        /\ peer'[Newcomer].signaling # "stable" => peer'[Newcomer].pending \in Silent
    BY <1>1, <1>10, <1>12, <2>1 DEF AloneInv, SilentInv
  <2>7. QED
    BY <1>1, <1>7, <1>8, <1>9, <1>11, <1>12, <2>1, <2>3, <2>4, <2>5, <2>6, NewcomerSees
<1>13. CASE e = Host
  <2>1. peer[Newcomer].session # None BY <1>4, <1>13, Phases
  <2>2. ~Prepared(Host)' /\ ~Out(Host)'
    <3>1. OneOut(Host)'
      BY <1>1, <1>7, <1>8, <1>13, StepsIs, OwnOneKept DEF AloneInv, PlainInv
    <3>2. QED BY <1>9, <1>13, <3>1 DEF OneOut, Out
  <2>3. Orderly(Host)' BY <1>4, <1>5, <1>9, <1>10, <1>13, <2>2 DEF Orderly
  <2>4. Told /\ Told' BY <1>4, <1>9, <1>13 DEF Told
  <2>5. peer[Newcomer].view = peer'[Host].pending.share
    BY <1>1, <1>10, <1>13, <2>4 DEF AloneInv, ViewInv
  <2>6. ~peer'[Host].aborted BY <1>1, <1>10, <1>13 DEF AloneInv, PlainInv
  <2>7. /\ MailHolds(net'[Newcomer], {"offer"}, Shown(peer'[Host].pending.share))
        /\ Holds(peer[Newcomer].ops, {"setRemoteOffer"}, Shown(peer'[Host].pending.share))
    <3>1. /\ MailHolds(net[Newcomer], {"offer"}, Shown(peer'[Host].pending.share))
          /\ Holds(peer[Newcomer].ops, {"setRemoteOffer"}, Shown(peer'[Host].pending.share))
      BY <1>1, <1>4, <1>10, <1>13 DEF AloneInv, ViewInv
    <3>2. NoMessage.type \notin {"offer"} BY <1>8
    <3>3. QED BY <1>1, <1>7, <1>13, <3>1, <3>2 DEF Steps, Boxes
  <2>8. peer'[Host].session = peer[Host].session BY <1>10, <1>13
  <2>9. QED
    BY <1>1, <1>7, <1>8, <1>9, <1>13, <2>1, <2>3, <2>4, <2>5, <2>6, <2>7, <2>8, HostSees
<1>14. QED BY <1>12, <1>13 DEF Ends

-----------------------------------------------------------------------------
(* The invariant, and what it says when everything rests *)

\* Who is Alone was so before.
LEMMA AloneBefore ==
  ASSUME LinkInv, Alone', [Next]_peerVars
  PROVE  Alone
<1>0. NegotiationTypeOK BY DEF LinkInv
<1>1. CASE UNCHANGED peerVars BY <1>1 DEF peerVars, Alone
<1>2. SUFFICES ASSUME NEW e \in Ends, Turns(e),
                      peer'[e].shares = peer[e].shares \/ Share(e)
               PROVE  Alone
  <2>0. ASSUME NEW e, NEW but, "shares" \notin but, Only(e, but)
        PROVE  peer'[e].shares = peer[e].shares
    BY <2>0 DEF Only, Like, Fields
  <2>1. ASSUME NEW e \in Ends, ChainStep(e)
        PROVE  Turns(e) /\ peer'[e].shares = peer[e].shares
    <3>1. CASE CreateOffer(e) BY <2>0, <1>0, <3>1, CreateOfferDoes
    <3>2. CASE SetOffer(e) BY <2>0, <1>0, <3>2, SetOfferDoes
    <3>3. CASE Rollback(e) BY <2>0, <1>0, <3>3, RollbackDoes
    <3>4. CASE SetRemoteOffer(e) BY <2>0, <1>0, <3>4, SetRemoteOfferDoes
    <3>5. CASE CreateAnswer(e) BY <2>0, <1>0, <3>5, CreateAnswerDoes
    <3>6. CASE SetAnswer(e)
      <4>1. /\ Turns(e)
            /\ \/ Only(e, {"ops"})
               \/ Only(e, {"ops", "signaling", "pending", "session", "media", "sending",
                           "raised", "gathering"})
        BY <1>0, <3>6, SetAnswerDoes
      <4>2. QED BY <2>0, <4>1
    <3>7. CASE SetRemoteAnswer(e)
      <4>1. /\ Turns(e)
            /\ \/ Only(e, {"ops"})
               \/ Only(e, {"ops", "signaling", "pending", "session", "media", "sending",
                           "raised", "view", "reaches"})
        BY <1>0, <3>7, SetRemoteAnswerDoes
      <4>2. QED BY <2>0, <4>1
    <3>8. QED BY <2>1, <3>1, <3>2, <3>3, <3>4, <3>5, <3>6, <3>7 DEF ChainStep
  <2>2. ASSUME NEW e \in Ends, MessageStep(e)
        PROVE  Turns(e) /\ peer'[e].shares = peer[e].shares
    <3>1. CASE OnUserConnected(e) BY <3>1, OnUserConnectedIs DEF Only, Like, Fields
    <3>2. ASSUME NEW way \in Ways, onRemoteOffer(e, way)
          PROVE  Turns(e) /\ peer'[e].shares = peer[e].shares
      BY <2>0, <1>0, <3>2, OnRemoteOfferDoes
    <3>3. ASSUME NEW way \in Ways, onRemoteAnswer(e, way)
          PROVE  Turns(e) /\ peer'[e].shares = peer[e].shares
      BY <2>0, <1>0, <3>3, OnRemoteAnswerDoes
    <3>4. ASSUME NEW way \in Ways, onRemoteIceCandidate(e, way)
          PROVE  Turns(e) /\ peer'[e].shares = peer[e].shares
      BY <2>0, <1>0, <3>4, OnRemoteIceCandidateDoes
    <3>5. QED BY <2>2, <3>1, <3>2, <3>3, <3>4 DEF MessageStep
  <2>3. ASSUME NEW e \in Ends, EventStep(e) \/ OnIceDisconnected(e)
        PROVE  Turns(e) /\ peer'[e].shares = peer[e].shares
    <3>1. CASE OnNegotiationNeeded(e)
      BY <2>0, <1>0, <3>1, OnNegotiationNeededDoes
    <3>2. CASE OnIceCandidate(e) BY <2>0, <1>0, <3>2, OnIceCandidateDoes
    <3>3. CASE OnIceConnected(e) BY <2>0, <1>0, <3>3, OnIceConnectedDoes
    <3>4. CASE OnDataChannelOpen(e)
      BY <2>0, <1>0, <3>4, OnDataChannelOpenDoes
    <3>5. CASE OnIceDisconnected(e)
      BY <2>0, <1>0, <3>5, OnIceDisconnectedDoes
    <3>6. QED BY <2>3, <3>1, <3>2, <3>3, <3>4, <3>5 DEF EventStep
  <2>4. ASSUME NEW e \in Ends, Share(e) PROVE Turns(e) BY <1>0, <2>4, ShareDoes
  <2>5. QED BY <1>1, <2>1, <2>2, <2>3, <2>4 DEF Next
<1>3. CASE e = Newcomer
  <2>1. Share(e) => FALSE
    <3>1. Share(e) => peer[e].shares \in Nat /\ peer'[e].shares = peer[e].shares + 1
      BY <1>0, ShareDoes
    <3>2. QED BY <1>3, <3>1 DEF Alone
  <2>2. QED BY <1>2, <1>3, <2>1 DEF Alone
<1>4. CASE e = Host
  <2>1. Other(e) = Newcomer BY <1>4, EndsAre
  <2>2. QED BY <1>2, <2>1 DEF Turns, Alone
<1>5. QED BY <1>3, <1>4 DEF Ends

LEMMA SeenAtFirst == ASSUME Init PROVE SeenInv
<1>1. /\ LinkInv /\ Newcomer # Host /\ Newcomer \in Ends /\ Host \in Ends
      /\ Other(Newcomer) = Host /\ Other(Host) = Newcomer
  BY LinkAtFirst, EndsAre
<1>2. /\ peer[Newcomer] = OtherPeer("impolite", FALSE)
      /\ peer[Host] = OtherPeer("none", FALSE) /\ hiccups = 0
  BY <1>1 DEF Init
<1>3. /\ \A w \in Ways : net[Newcomer][w] = <<>>
      /\ \A w \in Ways : \A i \in DOMAIN net[Host][w] : net[Host][w][i].type = "connected"
  BY <1>1 DEF Init, Ways
<1>4. \A e \in Ends :
        /\ peer[e].ops = <<>> /\ peer[e].signaling = "stable" /\ peer[e].session = None
        /\ peer[e].ice = "new" /\ peer[e].channel # "open" /\ peer[e].candidates = 0
        /\ ~peer[e].making /\ ~peer[e].aborted /\ ~peer[e].ignoring /\ ~peer[e].raised
  BY <1>2 DEF OtherPeer, Ends
<1>5. /\ peer[Newcomer].share = FALSE /\ peer[Newcomer].sending = FALSE
      /\ peer[Newcomer].media = FALSE /\ peer[Newcomer].view = FALSE
      /\ peer[Host].sending = FALSE /\ peer[Newcomer].channel # "none"
  BY <1>2 DEF OtherPeer
<1>6. \A e \in Ends : \A S, D : ~InOps(peer[e].ops, S) /\ Holds(peer[e].ops, S, D)
  BY <1>4 DEF InOps, Holds
<1>7. \A e \in Ends : ~Mail(net[e], "offer") /\ ~Mail(net[e], "answer")
  BY <1>3 DEF Ends, Mail
<1>8. \A e \in Ends : \A D : /\ MailHolds(net[e], {"offer"}, D)
                             /\ MailHolds(net[e], {"offer", "answer"}, D)
  BY <1>7 DEF Mail, MailHolds
<1>9. \A e \in Ends : ~Prepared(e) /\ ~Out(e) /\ ~Applied(e) /\ ~Answered(e)
  BY <1>1, <1>6, <1>7 DEF Prepared, Out, Offered, Considered, Answered, Applied, Ends
<1>10. NumberedInv BY <1>4, <1>6, <1>8 DEF NumberedInv
<1>11. MetInv BY <1>1, <1>4, <1>5 DEF MetInv
<1>12. AnsweredInv BY <1>1, <1>9 DEF AnsweredInv
<1>14. PlainInv
  <2>1. OneOut(Host) BY <1>1, <1>2 DEF LinkInv, Negotiating, OneInv, Sure
  <2>2. QED BY <1>1, <1>4, <1>6, <1>9, <2>1 DEF PlainInv, Orderly
<1>15. OnceInv BY <1>1, <1>4, <1>5, <1>6 DEF OnceInv
<1>16. SilentInv BY <1>4, <1>5, <1>6, <1>8 DEF SilentInv
<1>17. ViewInv
  <2>1. ~Told BY <1>1, <1>6, <1>9 DEF Told
  <2>2. QED BY <1>1, <1>4, <1>5, <2>1 DEF ViewInv
<1>18. QED
  BY <1>10, <1>11, <1>12, <1>14, <1>15, <1>16, <1>17
     DEF SeenInv, LinkedInv, AloneInv

LEMMA SeenStep == ASSUME LinkInv, SeenInv, [Next]_peerVars PROVE SeenInv'
<1>1. LinkedInv BY DEF SeenInv
<1>2. CASE UNCHANGED peerVars
  <2>1. peer' = peer /\ net' = net BY <1>2 DEF peerVars
  <2>2. Host \in Ends /\ Host # Newcomer /\ peer'[Host].ops = peer[Host].ops
    BY <2>1, EndsAre
  <2>3. Steps(Host, Nothing, NoOperation, Nothing, NoMessage)
    BY <2>1, <2>2, BoxesSame, ChainsSame DEF Steps
  <2>4. LinkedInv'
    <3>1. Links(Host, NoMessage) BY <2>1, NothingSaid DEF Links
    <3>2. QED BY <1>1, <2>1, <2>2, <2>3, <3>1, NothingSaid, IdleLinks
  <2>5. ASSUME Alone PROVE AloneInv'
    <3>1. Only(Host, {"role", "share", "shares", "ignoring", "ice", "reaches",
                      "candidates", "channel", "raised"})
      BY <2>1 DEF Only, Like
    <3>2. QED BY <2>1, <2>2, <2>3, <2>5, <3>1, NothingSaid, IdleSees
  <2>6. Alone' => Alone BY <2>1 DEF Alone
  <2>7. QED BY <2>4, <2>5, <2>6 DEF SeenInv
<1>3. ASSUME NEW e \in Ends, ChainStep(e) PROVE LinkedInv' /\ (Alone => AloneInv')
  <2>1. LinkedInv'
    BY <1>1, <1>3, CreateOfferLinks, SetOfferLinks, RollbackLinks, SetRemoteOfferLinks,
       CreateAnswerLinks, SetAnswerLinks, SetRemoteAnswerLinks DEF ChainStep
  <2>2. Alone => AloneInv'
    BY <1>3, CreateOfferSees, SetOfferSees, RollbackSees, SetRemoteOfferSees,
       CreateAnswerSees, SetAnswerSees, SetRemoteAnswerSees DEF ChainStep
  <2>3. QED BY <2>1, <2>2
<1>4. ASSUME NEW e \in Ends, MessageStep(e) PROVE LinkedInv' /\ (Alone => AloneInv')
  <2>1. LinkedInv'
    BY <1>1, <1>4, OnUserConnectedLinks, OnRemoteOfferLinks, OnRemoteAnswerLinks,
       OnRemoteIceCandidateLinks DEF MessageStep
  <2>2. Alone => AloneInv'
    BY <1>4, OnUserConnectedSees, OnRemoteOfferSees, OnRemoteAnswerSees,
       OnRemoteIceCandidateSees DEF MessageStep
  <2>3. QED BY <2>1, <2>2
<1>5. ASSUME NEW e \in Ends, EventStep(e) PROVE LinkedInv' /\ (Alone => AloneInv')
  <2>1. LinkedInv'
    BY <1>1, <1>5, OnNegotiationNeededLinks, OnIceCandidateLinks, OnIceConnectedLinks,
       OnDataChannelOpenLinks DEF EventStep
  <2>2. Alone => AloneInv'
    BY <1>5, OnNegotiationNeededSees, OnIceCandidateSees, OnIceConnectedSees,
       OnDataChannelOpenSees DEF EventStep
  <2>3. QED BY <2>1, <2>2
<1>6. ASSUME NEW e \in Ends, Share(e) \/ OnIceDisconnected(e)
      PROVE  LinkedInv' /\ (Alone /\ Alone' => AloneInv')
  BY <1>1, <1>6, ShareLinks, OnIceDisconnectedLinks, ShareSees, OnIceDisconnectedSees
<1>7. Alone' => Alone BY AloneBefore
<1>8. QED BY <1>2, <1>3, <1>4, <1>5, <1>6, <1>7 DEF Next, SeenInv

\* At rest with the channel open the host has nothing more to offer, and what
\* it offered last has been told.
LEMMA SeenRests == ASSUME LinkInv, SeenInv PROVE HostSeen
<1>1. SUFFICES ASSUME Quiet, Alone, peer[Host].channel = "open"
               PROVE  peer[Newcomer].view = peer[Host].share
  BY DEF HostSeen, Alone
<1>2. /\ NegotiationTypeOK /\ RemoteInv /\ AloneInv /\ LinkedInv
      /\ Newcomer \in Ends /\ Host \in Ends
      /\ Other(Newcomer) = Host /\ Other(Host) = Newcomer
  BY <1>1, Phases, EndsAre DEF LinkInv, Negotiating
<1>3. \A d \in Ends : \A S : ~InOps(peer[d].ops, S) /\ ~Mail(net[d], S)
  BY <1>1 DEF Quiet, InOps, Mail
<1>4. \A d \in Ends : ~Prepared(d) /\ ~Out(d) /\ ~Applied(d) /\ ~Answered(d)
  BY <1>2, <1>3 DEF Prepared, Out, Offered, Considered, Answered, Applied, Ends
<1>5. /\ peer[Host].role # "none" /\ peer[Host].ops = <<>> /\ ~NegotiationDue(peer[Host])
      /\ peer[Host].session # None
  BY <1>1, <1>2 DEF Quiet, LinkedInv, MetInv, Negotiated
<1>6. peer[Host].signaling = "stable"
  <2>1. peer[Host].signaling # "local" BY <1>2, <1>4 DEF AloneInv, PlainInv, Orderly
  <2>2. peer[Host].signaling # "remote" BY <1>2, <1>3 DEF RemoteInv, RemoteOf
  <2>3. QED BY <1>2, <2>1, <2>2 DEF NegotiationTypeOK, Peer
<1>7. ~peer[Host].raised
  <2>1. ~peer[Host].making BY <1>2, <1>4 DEF AloneInv, PlainInv, Orderly
  <2>2. QED BY <1>1, <1>2, <1>4, <2>1 DEF AloneInv, OnceInv
<1>8. peer[Host].share = peer[Host].sending
  <2>1. Needed(peer[Host]) = peer[Host].raised
    BY <1>2, <1>5, <1>6 DEF NegotiationDue
  <2>2. ~Needed(peer[Host]) BY <1>7, <2>1
  <2>3. QED BY <2>2 DEF Needed
<1>9. ~Told BY <1>2, <1>3, <1>4 DEF Told
<1>10. QED BY <1>2, <1>8, <1>9 DEF AloneInv, ViewInv

(* A newcomer that has never shared a stream sees, once everything rests   *)
(* and the host's data channel has opened, what the host shares, whatever  *)
(* was shared, interrupted and negotiated before (peer-controller.ts,      *)
(* mergeStream, onnegotiationneeded and oniceconnectionstatechange).       *)
THEOREM HostIsSeen == Spec => []HostSeen
<1>1. Init => LinkInv /\ SeenInv BY LinkAtFirst, SeenAtFirst
<1>2. LinkInv /\ SeenInv /\ [Next]_peerVars => (LinkInv /\ SeenInv)'
  BY LinkStep, SeenStep
<1>3. LinkInv /\ SeenInv => HostSeen BY SeenRests
<1>4. QED BY <1>1, <1>2, <1>3, PTL DEF Spec
=============================================================================
