----------------------------- MODULE MediaControl -----------------------------
(***************************************************************************)
(* The stream manager of one participant (media-controller.component.ts):  *)
(* the form, the requests for a microphone and a camera that overlap, the  *)
(* local stream they replace, the senders that carry it to a peer          *)
(* (peer-controller.ts, OtherPeer.mergeStream) and the participant's view  *)
(* of its own stream (media-player-grid, media-player).                    *)
(*                                                                         *)
(* A video source stands for a camera or for a kind of screen capture.  A  *)
(* browser's prompt may stay unanswered for ever.  A device that ends its  *)
(* track by itself is left out: no code listens for it.                    *)
(***************************************************************************)
EXTENDS Naturals, FiniteSets

CONSTANTS
  Mics, Videos,  \* the sources the form offers
  None,          \* NoneKey
  MaxShares      \* bound: times the form is submitted

ASSUME SourcesAssumption ==
  /\ IsFiniteSet(Mics) /\ IsFiniteSet(Videos)
  /\ Mics \cap Videos = {} /\ None \notin Mics \cup Videos
ASSUME MaxSharesAssumption == MaxShares \in Nat

Kinds == {"audio", "video"}
Sources == Mics \cup Videos
Of(k) == IF k = "audio" THEN Mics ELSE Videos
ShareState ==
  {state \in [Kinds -> Sources \cup {None}] :
     \A k \in Kinds : state[k] \in Of(k) \cup {None}}
Nothing == [k \in Kinds |-> None]

\* Each submission makes one stream and bears its number.  A track bears its
\* kind and the number of the submission it was asked for, which its clones
\* keep: getTracks lists those of a kind by that number.
Submissions == 1 .. MaxShares
Tracks == Kinds \X Submissions
\* A MediaStream: the tracks it lists, with their sources (their labels).  A
\* stopped track stays in it until removed.
Stream == UNION {[D -> Sources] : D \in SUBSET Tracks}
Empty == [t \in {} |-> None]
Job ==
  [wanted : ShareState,
   update : [Kinds -> {"replaced", "unchanged", "deleted"}],
   asked : [Kinds -> {"no", "asked", "given", "denied"}],  \* the promises
   stream : Stream,                                        \* newStream
   stage : {"audio", "video", "failed"}]              \* what is awaited

VARIABLES
  alive,       \* the component has not been destroyed
  open,        \* showSelector
  form,        \* the share state the form describes
  valid,       \* the validity of the form, as of its last change
  shareState,
  local,       \* _localStream, Empty when it is null
  version,     \* the submission that made it, 0 before the first
  shares,      \* submissions made so far
  jobs,        \* those that are not over
  on,          \* the live tracks, whoever holds them: <<stream, track>>
  sent,        \* senders towards a peer: the local track each one carries
  showSelf,    \* MediaPlayerGridComponent._showSelfMedia
  player,      \* the own player's srcObject, 0 without a player
  mishap       \* history: a request failed, or was pending at the destruction

formVars == <<open, form, valid>>
streamVars == <<shareState, local, version, sent>>
jobVars == <<shares, jobs, on, mishap>>
viewVars == <<showSelf, player>>
mediaVars == <<alive, formVars, streamVars, jobVars, viewVars>>

MediaTypeOK ==
  /\ {alive, open, valid, showSelf, mishap} \subseteq BOOLEAN
  /\ form \in ShareState /\ shareState \in ShareState
  /\ local \in Stream
  /\ {version, player} \subseteq 0 .. shares /\ shares \in 0 .. MaxShares
  /\ jobs \in [DOMAIN jobs -> Job] /\ DOMAIN jobs \subseteq 1 .. shares
  /\ on \subseteq (1 .. shares) \X Tracks
  /\ sent \in [DOMAIN sent -> DOMAIN local]
  /\ DOMAIN sent \subseteq (1 .. shares) \X Tracks

-----------------------------------------------------------------------------
(* Streams *)

\* f, and v for x.
With(f, x, v) == [y \in DOMAIN f \cup {x} |-> IF y = x THEN v ELSE f[y]]
OfKind(stream, k) == {t \in DOMAIN stream : t[1] = k}
Without(stream, k) ==
  [t \in DOMAIN stream \ OfKind(stream, k) |-> stream[t]]
\* The live tracks of n's stream.
LiveIn(n, stream) == {t \in DOMAIN stream : <<n, t>> \in on}

\* getStreamFromShareState
Update(k, new, old) ==
  IF new[k] = None THEN "deleted"
  ELSE IF new[k] = old[k] THEN "unchanged" ELSE "replaced"

\* newStream of submission j once the request for one kind has been answered.
Applied(j, k) ==
  LET job == jobs[j] IN
  CASE job.update[k] = "replaced" -> With(job.stream, <<k, j>>, job.wanted[k])
    [] job.update[k] = "deleted" -> Without(job.stream, k)
    [] job.update[k] = "unchanged" -> job.stream
\* Mutant of Stopping: tracks that are removed are not stopped.
StoppingReplaced(j, k) ==
  IF jobs[j].update[k] # "replaced" THEN {} ELSE {j} \X OfKind(jobs[j].stream, k)
\* The tracks this stops.
Stopping(j, k) ==
  IF jobs[j].update[k] = "unchanged" THEN {}
  ELSE {j} \X OfKind(jobs[j].stream, k)

\* The first track of that source: what a sender's track is replaced by.
Matching(stream, s) ==
  {t \in DOMAIN stream :
     stream[t] = s /\ \A u \in DOMAIN stream : stream[u] = s => t[2] <= u[2]}
Replacing(stream, x) == Matching(stream, local[sent[x]])
\* The senders that find a track of their label, and the one they find.
Kept(stream) == {x \in DOMAIN sent : Replacing(stream, x) # {}}
Moved(stream) == [x \in Kept(stream) |-> CHOOSE t \in Replacing(stream, x) : TRUE]
Untaken(stream) == DOMAIN stream \ {Moved(stream)[x] : x \in Kept(stream)}

\* Mutant of Merged: nothing is added once something was replaced.
MergedOrAdded(n, stream) ==
  IF Kept(stream) # {} THEN Moved(stream)
  ELSE [x \in {n} \X Untaken(stream) |-> x[2]]
\* Mutant of Merged: a sender that finds no track is not removed.
MergedUnremoved(n, stream) ==
  [x \in DOMAIN sent \cup {n} \X Untaken(stream) |->
     IF x \in Kept(stream) THEN Moved(stream)[x]
     ELSE IF x \in DOMAIN sent THEN sent[x] ELSE x[2]]
\* mergeStream: a sender keeps on with the first track of its label, the
\* others are removed; a track no sender has taken gets a new one.
Merged(n, stream) ==
  [x \in Kept(stream) \cup {n} \X Untaken(stream) |->
     IF x \in Kept(stream) THEN Moved(stream)[x] ELSE x[2]]

-----------------------------------------------------------------------------
(* The form *)

\* onResetSelector.  The validator compares with the share state of the moment,
\* and never again until the form changes.
Reset(ks, state) ==
  /\ form' = [k \in Kinds |-> IF k \in ks THEN state[k] ELSE form[k]]
  /\ valid' = (form' # shareState)

OpenSelector ==
  /\ alive /\ ~open
  /\ open' = TRUE
  /\ IF form # shareState THEN Reset(Kinds, shareState) ELSE UNCHANGED <<form, valid>>
  /\ UNCHANGED <<alive, streamVars, jobVars, viewVars>>
CloseSelector ==
  /\ alive /\ open
  /\ open' = FALSE
  /\ UNCHANGED <<alive, form, valid, streamVars, jobVars, viewVars>>
ResetSelector(k) ==
  /\ alive /\ open /\ form[k] # None
  /\ Reset({k}, Nothing)
  /\ UNCHANGED <<alive, open, streamVars, jobVars, viewVars>>
ChangeForm(k, s) ==
  /\ alive /\ open
  /\ form' = [form EXCEPT ![k] = s]
  /\ valid' = (form' # shareState)
  /\ UNCHANGED <<alive, open, streamVars, jobVars, viewVars>>

-----------------------------------------------------------------------------
(* Submissions *)

NewJob ==
  LET update == [k \in Kinds |-> Update(k, form, shareState)] IN
  [wanted |-> form, update |-> update, stream |-> local, stage |-> "audio",
   asked |-> [k \in Kinds |-> IF update[k] = "replaced" THEN "asked" ELSE "no"]]
\* Both devices are asked for at once, the local stream is cloned.
OnUpdateShareState ==
  /\ alive /\ open /\ valid /\ shares < MaxShares
  /\ shares' = shares + 1
  /\ jobs' = With(jobs, shares', NewJob)
  /\ on' = on \cup {shares'} \X LiveIn(version, local)
  /\ UNCHANGED <<alive, formVars, streamVars, mishap, viewVars>>

Over(j) == [n \in DOMAIN jobs \ {j} |-> jobs[n]]
\* A failed submission is over once both its promises are settled.
Becomes(j, job) ==
  jobs' = IF job.stage = "failed" /\ \A k \in Kinds : job.asked[k] # "asked"
          THEN Over(j) ELSE [jobs EXCEPT ![j] = job]

\* The browser or its user answers a getUserMedia or getDisplayMedia.
Given(j, k) ==
  /\ jobs[j].asked[k] = "asked"
  /\ Becomes(j, [jobs[j] EXCEPT !.asked[k] = "given"])
  /\ on' = on \cup {<<j, <<k, j>>>>}
  /\ UNCHANGED <<alive, formVars, streamVars, shares, mishap, viewVars>>
Denied(j, k) ==
  /\ jobs[j].asked[k] = "asked"
  /\ Becomes(j, [jobs[j] EXCEPT !.asked[k] = "denied"])
  /\ UNCHANGED <<alive, formVars, streamVars, shares, on, mishap, viewVars>>

\* The promise chain has got as far as the answer for k.
Reaches(j, k) == jobs[j].stage = k /\ jobs[j].asked[k] \in {"no", "given"}

AudioAnswered(j) ==
  /\ Reaches(j, "audio")
  /\ jobs' = [jobs EXCEPT ![j].stream = Applied(j, "audio"), ![j].stage = "video"]
  /\ on' = on \ Stopping(j, "audio")
  /\ UNCHANGED <<alive, formVars, streamVars, shares, mishap, viewVars>>

\* The own player exists while there is a stream to show; its srcObject is set
\* once, when it is made.
Player(show, stream, v) ==
  IF ~show \/ stream = Empty THEN 0 ELSE IF player = 0 THEN v ELSE player
\* _updateLocalStream, the peers' senders and the own player that follow.
UpdateLocalStream(j, stream, stopped) ==
  /\ local' = stream /\ version' = j
  /\ on' = on \ (stopped \cup {version} \X DOMAIN local)
  /\ sent' = IF alive THEN Merged(j, stream) ELSE sent
  /\ player' = Player(alive /\ showSelf, stream, j)
\* Mutant of VideoAnswered: the form of the moment is taken for what is shared.
FormShared(j) ==
  /\ Reaches(j, "video")
  /\ UpdateLocalStream(j, Applied(j, "video"), Stopping(j, "video"))
  /\ shareState' = form
  /\ open' = FALSE
  /\ jobs' = Over(j)
  /\ UNCHANGED <<alive, form, valid, shares, mishap, showSelf>>
VideoAnswered(j) ==
  /\ Reaches(j, "video")
  /\ UpdateLocalStream(j, Applied(j, "video"), Stopping(j, "video"))
  /\ shareState' = jobs[j].wanted
  /\ open' = FALSE
  /\ jobs' = Over(j)
  /\ UNCHANGED <<alive, form, valid, shares, mishap, showSelf>>

\* catch: the clone and what has been given are left as they are.
RequestFailed(j) ==
  /\ jobs[j].stage \in Kinds /\ jobs[j].asked[jobs[j].stage] = "denied"
  /\ Becomes(j, [jobs[j] EXCEPT !.stage = "failed", !.stream = Empty])
  /\ mishap' = TRUE
  /\ UNCHANGED <<alive, formVars, streamVars, shares, on, viewVars>>

-----------------------------------------------------------------------------
\* showSelfPlayerControl, in the same popup.
ShowSelfPlayer ==
  /\ alive /\ open
  /\ showSelf' = ~showSelf
  /\ player' = Player(~showSelf, local, version)
  /\ UNCHANGED <<alive, formVars, streamVars, jobVars>>

\* ngOnDestroy; the room page closes its peer connections with it.
Destroy ==
  /\ alive
  /\ alive' = FALSE /\ open' = FALSE
  /\ on' = on \ {version} \X DOMAIN local
  /\ sent' = Empty /\ player' = 0 /\ showSelf' = FALSE
  /\ mishap' = (mishap \/ jobs # Empty)
  /\ UNCHANGED <<form, valid, shareState, local, version, shares, jobs>>

Init ==
  /\ alive = TRUE /\ open = FALSE /\ valid = FALSE
  /\ form = Nothing /\ shareState = Nothing
  /\ local = Empty /\ version = 0 /\ shares = 0 /\ jobs = Empty
  /\ on = {} /\ sent = Empty /\ showSelf = FALSE /\ player = 0
  /\ mishap = FALSE

FormStep ==
  \/ OpenSelector \/ CloseSelector \/ ShowSelfPlayer
  \/ \E k \in Kinds : ResetSelector(k) \/ \E s \in Of(k) \cup {None} : ChangeForm(k, s)
JobStep ==
  \/ OnUpdateShareState
  \/ \E j \in DOMAIN jobs :
       \/ AudioAnswered(j) \/ VideoAnswered(j) \/ RequestFailed(j)
       \/ \E k \in Kinds : Given(j, k) \/ Denied(j, k)
Next == FormStep \/ JobStep \/ Destroy
Spec == Init /\ [][Next]_mediaVars

-----------------------------------------------------------------------------
(* Properties *)

\* However submissions overlap, and in whatever order their devices are given,
\* the share state names exactly the sources whose live tracks are in the
\* local stream, and there is a stream only if something is shared
\* (onUpdateShareState works on a clone and replaces stream and state at once).
StreamMatchesState ==
  alive =>
    /\ {local[t] : t \in LiveIn(version, local)} = {shareState[k] : k \in Kinds} \ {None}
    /\ \A t, u \in LiveIn(version, local) : local[t] = local[u] => t = u
    /\ local = Empty <=> shareState = Nothing

\* Every live track of the local stream is carried to a peer, whichever senders
\* of tracks shared earlier, ended and of the same label, are still there
\* (OtherPeer.mergeStream, for a peer that has been there all along).
LiveTracksSent ==
  alive => \A t \in LiveIn(version, local) : \E x \in DOMAIN sent : sent[x] = t

\* Unless a request failed or was left pending by the page, no device stays on
\* but for the tracks of the local stream: clones, given and replaced tracks are
\* all stopped.
NothingLeftOn ==
  ~mishap /\ jobs = Empty =>
    on = IF alive THEN {version} \X LiveIn(version, local) ELSE {}

(* What a document says and the page does not do *)

\* client/README.md:27: feedback for your shared stream.  The own player takes
\* its stream once, when it is made (media-player.component.ts:83): a stream
\* that replaces another is never shown.
OwnViewCurrent == player # 0 => player = version
=============================================================================
