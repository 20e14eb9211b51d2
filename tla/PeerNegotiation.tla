--------------------------- MODULE PeerNegotiation ---------------------------
(***************************************************************************)
(* The two ends of one link between two participants of a room             *)
(* (peer-controller.ts): who offers, who gives way, and what becomes of    *)
(* candidates, the data channel and the shared streams.                    *)
(*                                                                         *)
(* Under each end is the browser's RTCPeerConnection, modelled as its      *)
(* specification has it: operations run one at a time in the order they    *)
(* were chained, and a promise's continuation chains the next one behind   *)
(* whatever has come meanwhile.  Messages go through the server ("relay")  *)
(* until the data channel is open ("direct"); each way is FIFO.            *)
(***************************************************************************)
EXTENDS Naturals, Sequences

CONSTANTS
  Newcomer, Host,  \* the two participants
  MaxCandidates,   \* bound: candidates each end finds
  Sharers,         \* bound: who shares a stream
  MaxShares,       \* bound: times each of them starts or stops
  MaxHiccups       \* bound: times the connection is interrupted

ASSUME EndsAssumption == Newcomer # Host /\ Sharers \subseteq {Newcomer, Host}
\* A stream shared for the second time would need a section of its own.
ASSUME BoundsAssumption ==
  MaxCandidates \in Nat /\ MaxShares \in 0 .. 2 /\ MaxHiccups \in Nat

Ends == {Newcomer, Host}
Other(e) == IF e = Host THEN Newcomer ELSE Host
Ways == {"relay", "direct"}

VARIABLES
  peer,     \* the OtherPeer of each end
  net,      \* messages on their way to each end
  hiccups   \* interruptions so far
peerVars == <<peer, net, hiccups>>

None == <<Newcomer, 0>>   \* no offer
Offers == Ends \X Nat     \* who made it, its number

\* id: the offer, or the offer it answers.  media: there is a section for the
\* stream.  share: the sender's stream is in it.  known: so is a candidate.
Description == [type : {"none", "offer", "answer"}, id : Offers, media : BOOLEAN,
                share : BOOLEAN, known : BOOLEAN]
NoDescription == [type |-> "none", id |-> None, media |-> FALSE,
                  share |-> FALSE, known |-> FALSE]
Message == Description \cup [type : {"connected", "candidate"}]
Operation ==
  [op : {"createOffer"}, way : Ways]
  \cup [op : {"setOffer", "setAnswer"}, way : Ways, desc : Description]
  \cup [op : {"rollback", "setRemoteOffer"}, way : Ways, desc : Description]
  \cup [op : {"createAnswer"}, way : Ways]
  \cup [op : {"setRemoteAnswer"}, desc : Description]
Peer == [
  role : {"none", "polite", "impolite"},
  making : BOOLEAN,     \* _makingOffer
  ignoring : BOOLEAN,   \* _ignoreOffer
  aborted : BOOLEAN,    \* _abortedOwnOffer
  share : BOOLEAN,      \* _outStream
  view : BOOLEAN,       \* _inStream
  channel : {"none", "connecting", "open"},
  \* RTCPeerConnection
  signaling : {"stable", "local", "remote"},
  ops : Seq(Operation), \* the operations chain
  pending : Description, \* the pending local or remote offer
  session : Offers,     \* offer of the current descriptions
  media : BOOLEAN,      \* the current descriptions have a section
  sending : BOOLEAN,    \* the stream is in the current local description
  raised : BOOLEAN,     \* negotiationneeded was fired and is not cleared
  ice : {"new", "connected", "disconnected"},
  reaches : BOOLEAN,    \* a candidate of the other end is known
  gathering : BOOLEAN, candidates : Nat,
  made : Nat, shares : Nat]

NegotiationTypeOK ==
  /\ peer \in [Ends -> Peer]
  /\ net \in [Ends -> [Ways -> Seq(Message)]]
  /\ hiccups \in 0 .. MaxHiccups

-----------------------------------------------------------------------------
\* The end a constructor makes: who initiates creates the data channel.
OtherPeer(role, share) == [
  role |-> role, making |-> FALSE, ignoring |-> FALSE, aborted |-> FALSE,
  share |-> share, view |-> FALSE,
  channel |-> IF role = "impolite" THEN "connecting" ELSE "none",
  signaling |-> "stable", ops |-> <<>>, pending |-> NoDescription, session |-> None,
  media |-> FALSE, sending |-> FALSE, raised |-> FALSE, ice |-> "new",
  reaches |-> FALSE, gathering |-> FALSE, candidates |-> 0,
  made |-> 0, shares |-> 0]

Init ==
  /\ hiccups = 0
  /\ peer = [e \in Ends |->
       OtherPeer(IF e = Newcomer THEN "impolite" ELSE "none", FALSE)]
  /\ net = [e \in Ends |-> [w \in Ways |->
       IF e = Host /\ w = "relay" THEN <<[type |-> "connected"]>> ELSE <<>>]]

Becomes(e, p) == peer' = [peer EXCEPT ![e] = p]
Chained(p, op) == [p EXCEPT !.ops = Append(@, op)]
\* Mutant: the state of the channel taken for the way.
WayByState(p) == IF p.channel = "none" THEN "relay" ELSE p.channel
Way(p) == IF p.channel = "open" THEN "direct" ELSE "relay"
Sends(e, way, m) == net' = [net EXCEPT ![Other(e)][way] = Append(@, m)]
\* Operations of the chain that end, successfully or not.
Runs(e, name) == peer[e].ops # <<>> /\ Head(peer[e].ops).op = name
Done(p) == [p EXCEPT !.ops = Tail(@)]

startNegotiation(p) ==
  Chained([p EXCEPT !.making = TRUE], [op |-> "createOffer", way |-> Way(p)])

-----------------------------------------------------------------------------
(* The room *)

\* addParticipant: the host may be sharing a stream already.
OnUserConnected(e) ==
  /\ net[e]["relay"] # <<>> /\ Head(net[e]["relay"]).type = "connected"
  /\ net' = [net EXCEPT ![e]["relay"] = Tail(@)]
  /\ \E share \in BOOLEAN :
       /\ share => e \in Sharers
       /\ Becomes(e, OtherPeer("polite", share))
  /\ UNCHANGED hiccups

\* mergeStream with or without a track.
Share(e) ==
  /\ peer[e].role # "none" /\ e \in Sharers /\ peer[e].shares < MaxShares
  /\ Becomes(e, [peer[e] EXCEPT !.share = ~@, !.shares = @ + 1])
  /\ UNCHANGED <<net, hiccups>>

-----------------------------------------------------------------------------
(* Offering *)

\* Something is not in the current descriptions: the data channel an end has
\* created, or a change of its stream.
Needed(p) ==
  (p.channel # "none" /\ p.session = None) \/ p.share # p.sending
\* The browser looks whenever the end is stable and nothing is chained, and
\* fires once until the need has gone or a negotiation has ended.
NegotiationDue(p) ==
  /\ p.role # "none" /\ p.signaling = "stable" /\ p.ops = <<>>
  /\ Needed(p) # p.raised
\* Mutant: whoever it is, an end waits for the data channel.
MayOfferOnceOpen(p) == ~p.making /\ ~p.aborted /\ p.channel = "open"
\* Mutant: an offer that was aborted does not keep an end from another.
MayOfferAborted(p) == ~p.making /\ ~(p.role = "polite" /\ p.channel # "open")
MayOffer(p) ==
  ~p.making /\ ~p.aborted /\ ~(p.role = "polite" /\ p.channel # "open")
OnNegotiationNeeded(e) ==
  LET p == [peer[e] EXCEPT !.raised = ~@] IN
  /\ NegotiationDue(peer[e])
  /\ Becomes(e, IF p.raised /\ MayOffer(p) THEN startNegotiation(p) ELSE p)
  /\ UNCHANGED <<net, hiccups>>

CreateOffer(e) ==
  LET p == Done(peer[e])
      op == Head(peer[e].ops)
  IN
  /\ Runs(e, "createOffer")
  /\ Becomes(e,
       IF p.signaling = "remote" THEN [p EXCEPT !.making = FALSE]
       ELSE Chained([p EXCEPT !.made = @ + 1],
              [op |-> "setOffer", way |-> op.way,
               desc |-> [type |-> "offer", id |-> <<e, p.made + 1>>,
                         media |-> p.media \/ p.share, share |-> p.share,
                         known |-> FALSE]]))
  /\ UNCHANGED <<net, hiccups>>

\* What is sent is localDescription, with the candidates found so far.
SetOffer(e) ==
  LET p == Done(peer[e])
      op == Head(peer[e].ops)
  IN
  /\ Runs(e, "setOffer")
  /\ IF p.signaling = "remote"
     THEN Becomes(e, [p EXCEPT !.making = FALSE]) /\ UNCHANGED net
     ELSE /\ Becomes(e, [p EXCEPT !.signaling = "local", !.pending = op.desc,
                                  !.gathering = TRUE])
          /\ Sends(e, op.way, [op.desc EXCEPT !.known = p.candidates > 0])
  /\ UNCHANGED hiccups

\* The pending offer is agreed on, p's stream being sent or not.
Settled(p, sending) ==
  [p EXCEPT !.signaling = "stable", !.pending = NoDescription,
            !.session = p.pending.id, !.media = p.pending.media,
            !.sending = sending, !.raised = FALSE]

-----------------------------------------------------------------------------
(* Answering *)

Receives(e, way, type) ==
  /\ net[e][way] # <<>> /\ Head(net[e][way]).type = type
  /\ way = "direct" => peer[e].channel = "open"
  /\ net' = [net EXCEPT ![e][way] = Tail(@)]

Colliding(p) == p.making \/ p.signaling # "stable"
\* Mutant: the polite end ignores as well.
OfferIgnoredByBoth(e, way) ==
  LET p == [peer[e] EXCEPT !.ignoring = Colliding(peer[e])] IN
  /\ peer[e].role # "none" /\ Receives(e, way, "offer")
  /\ Becomes(e, IF p.ignoring THEN p
                ELSE Chained(p, [op |-> "setRemoteOffer", way |-> way,
                                 desc |-> Head(net[e][way])]))
  /\ UNCHANGED hiccups
onRemoteOffer(e, way) ==
  LET p == [peer[e] EXCEPT
              !.ignoring = peer[e].role = "impolite" /\ Colliding(peer[e])]
      answering(op) == [op |-> op, way |-> way, desc |-> Head(net[e][way])]
  IN
  /\ peer[e].role # "none" /\ Receives(e, way, "offer")
  /\ Becomes(e,
       IF p.ignoring THEN p
       ELSE IF p.role = "polite" /\ p.making /\ p.signaling # "stable"
       THEN Chained([p EXCEPT !.making = FALSE, !.aborted = TRUE],
                    answering("rollback"))
       ELSE Chained(p, answering("setRemoteOffer")))
  /\ UNCHANGED hiccups

\* A rollback of nothing is refused, and the offer never answered.
Rollback(e) ==
  LET p == Done(peer[e])
      op == Head(peer[e].ops)
  IN
  /\ Runs(e, "rollback")
  /\ Becomes(e, IF p.signaling = "stable" THEN p
                ELSE Chained([p EXCEPT !.signaling = "stable",
                                       !.pending = NoDescription, !.raised = FALSE],
                             [op EXCEPT !.op = "setRemoteOffer"]))
  /\ UNCHANGED <<net, hiccups>>

\* A local offer that is pending is rolled back by the browser.
SetRemoteOffer(e) ==
  LET p == Done(peer[e])
      op == Head(peer[e].ops)
  IN
  /\ Runs(e, "setRemoteOffer")
  /\ Becomes(e, Chained([p EXCEPT !.signaling = "remote", !.pending = op.desc,
                                  !.view = op.desc.share,
                                  !.reaches = @ \/ op.desc.known],
                        [op |-> "createAnswer", way |-> op.way]))
  /\ UNCHANGED <<net, hiccups>>
\* An answer carries the stream if the offer has a section for it.
CreateAnswer(e) ==
  LET p == Done(peer[e])
      op == Head(peer[e].ops)
  IN
  /\ Runs(e, "createAnswer")
  /\ Becomes(e, IF p.signaling # "remote" THEN p
                ELSE Chained(p, [op |-> "setAnswer", way |-> op.way,
                       desc |-> [type |-> "answer", id |-> p.pending.id,
                                 media |-> p.pending.media,
                                 share |-> p.pending.media /\ p.share,
                                 known |-> FALSE]]))
  /\ UNCHANGED <<net, hiccups>>
SetAnswer(e) ==
  LET p == Done(peer[e])
      op == Head(peer[e].ops)
  IN
  /\ Runs(e, "setAnswer")
  /\ IF p.signaling # "remote"
     THEN Becomes(e, p) /\ UNCHANGED net
     ELSE /\ Becomes(e, [Settled(p, op.desc.share) EXCEPT !.gathering = TRUE])
          /\ Sends(e, op.way, [op.desc EXCEPT !.known = p.candidates > 0])
  /\ UNCHANGED hiccups

\* Mutant: the answer does not end the making of the offer.
AnswerKeepsMaking(e, way) ==
  /\ peer[e].role # "none" /\ Receives(e, way, "answer")
  /\ Becomes(e, IF peer[e].signaling = "stable" THEN peer[e]
                ELSE Chained(peer[e],
                       [op |-> "setRemoteAnswer", desc |-> Head(net[e][way])]))
  /\ UNCHANGED hiccups
onRemoteAnswer(e, way) ==
  /\ peer[e].role # "none" /\ Receives(e, way, "answer")
  /\ Becomes(e, IF peer[e].signaling = "stable" THEN peer[e]
                ELSE Chained([peer[e] EXCEPT !.making = FALSE],
                       [op |-> "setRemoteAnswer", desc |-> Head(net[e][way])]))
  /\ UNCHANGED hiccups
SetRemoteAnswer(e) ==
  LET p == Done(peer[e])
      d == Head(peer[e].ops).desc
  IN
  /\ Runs(e, "setRemoteAnswer")
  /\ Becomes(e, IF p.signaling # "local" THEN p
                ELSE [Settled(p, p.pending.share)
                        EXCEPT !.view = d.share, !.reaches = @ \/ d.known])
  /\ UNCHANGED <<net, hiccups>>

-----------------------------------------------------------------------------
(* Connecting *)

Negotiated == \A e \in Ends : peer[e].session # None
\* onicecandidate
Finds(e) == peer[e].gathering /\ peer[e].candidates < MaxCandidates
OnIceCandidate(e) ==
  /\ Finds(e)
  /\ Becomes(e, [peer[e] EXCEPT !.candidates = @ + 1])
  /\ Sends(e, Way(peer[e]), [type |-> "candidate"])
  /\ UNCHANGED hiccups

\* currentRemoteDescription is there once a first negotiation has ended.
onRemoteIceCandidate(e, way) ==
  /\ peer[e].role # "none" /\ Receives(e, way, "candidate")
  /\ Becomes(e, IF peer[e].session # None /\ ~peer[e].ignoring
                THEN [peer[e] EXCEPT !.reaches = TRUE] ELSE peer[e])
  /\ UNCHANGED hiccups

\* One end that knows a candidate is enough: its checks show the other the way.
Reachable == Negotiated /\ \E e \in Ends : peer[e].reaches
OnIceConnected(e) ==
  LET p == [peer[e] EXCEPT !.ice = "connected"] IN
  /\ Reachable /\ peer[e].ice # "connected"
  /\ Becomes(e, IF p.aborted THEN startNegotiation([p EXCEPT !.aborted = FALSE])
                ELSE p)
  /\ UNCHANGED <<net, hiccups>>
OnIceDisconnected(e) ==
  /\ peer[e].ice = "connected" /\ hiccups < MaxHiccups
  /\ Becomes(e, [peer[e] EXCEPT !.ice = "disconnected"])
  /\ hiccups' = hiccups + 1
  /\ UNCHANGED net

\* ondatachannel and onopen: the polite end now makes an offer of its own.
Opens(e) ==
  /\ peer[e].channel # "open" /\ \A d \in Ends : peer[d].ice # "new"
OnDataChannelOpen(e) ==
  LET p == [peer[e] EXCEPT !.channel = "open"] IN
  /\ Opens(e)
  /\ Becomes(e, IF p.role = "polite" THEN startNegotiation(p) ELSE p)
  /\ UNCHANGED <<net, hiccups>>

-----------------------------------------------------------------------------
ChainStep(e) ==
  \/ CreateOffer(e) \/ SetOffer(e) \/ Rollback(e) \/ SetRemoteOffer(e)
  \/ CreateAnswer(e) \/ SetAnswer(e) \/ SetRemoteAnswer(e)
MessageStep(e) ==
  \/ OnUserConnected(e)
  \/ \E way \in Ways :
       \/ onRemoteOffer(e, way) \/ onRemoteAnswer(e, way)
       \/ onRemoteIceCandidate(e, way)
EventStep(e) ==
  \/ OnNegotiationNeeded(e) \/ OnIceCandidate(e)
  \/ OnIceConnected(e) \/ OnDataChannelOpen(e)

Next ==
  \E e \in Ends :
    \/ ChainStep(e) \/ MessageStep(e) \/ EventStep(e)
    \/ Share(e) \/ OnIceDisconnected(e)
Spec == Init /\ [][Next]_peerVars

\* Promises settle, messages arrive, the browser fires its events.
Fairness ==
  \A e \in Ends :
    /\ WF_peerVars(ChainStep(e))
    /\ WF_peerVars(MessageStep(e))
    /\ WF_peerVars(OnNegotiationNeeded(e))
    /\ WF_peerVars(OnIceCandidate(e))
    /\ WF_peerVars(OnIceConnected(e) \/ OnDataChannelOpen(e))
FairSpec == Spec /\ Fairness

-----------------------------------------------------------------------------
(* Properties *)

\* Nothing is left to happen by itself.
Quiet ==
  \A e \in Ends :
    /\ peer[e].role # "none" /\ peer[e].ops = <<>>
    /\ \A way \in Ways : net[e][way] = <<>>
    /\ ~NegotiationDue(peer[e]) /\ ~Finds(e)
    /\ ~(Reachable /\ peer[e].ice # "connected") /\ ~Opens(e)
Impolite == {e \in Ends : peer[e].role = "impolite"}

\* Until the connection is first interrupted, an answer is only ever applied
\* to the offer it was made for, whatever was rolled back or ignored in between
\* (onRemoteOffer, onRemoteAnswer).
AnswersFit ==
  hiccups = 0 =>
    \A e \in Ends :
      Runs(e, "setRemoteAnswer") /\ peer[e].signaling = "local"
        => Head(peer[e].ops).desc.id = peer[e].pending.id

\* When everything has come to rest the impolite end is stable, with no offer
\* of its own left open: its offers are always answered (onRemoteOffer).
ImpoliteRests ==
  Quiet => \A e \in Impolite : peer[e].signaling = "stable" /\ ~peer[e].making

\* As long as the newcomer has never shared a stream itself it ends up seeing
\* what the host shares, once the host's data channel has opened and whatever
\* was interrupted meanwhile (mergeStream, onnegotiationneeded,
\* oniceconnectionstatechange).
HostSeen ==
  Quiet /\ peer[Host].channel = "open" /\ peer[Newcomer].shares = 0
    => peer[Newcomer].view = peer[Host].share

\* A newcomer that finds the host in the room gets its data channel, provided
\* that one of the two still finds a candidate after the first negotiation:
\* what arrives earlier is dropped for good (onRemoteIceCandidate), and then
\* there may be no channel.
FindsLate(e) == [](peer[e].candidates = MaxCandidates => Negotiated)
Connects ==
  (\E e \in Ends : FindsLate(e)) => <>(\A e \in Ends : peer[e].channel = "open")

(* What a document says and the peers do not do *)

\* client/README.md:38: the others see the stream of whoever shares one.
StreamsShown == Quiet => \A e \in Ends : peer[Other(e)].view = peer[e].share
=============================================================================
