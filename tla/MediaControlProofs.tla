--------------------------- MODULE MediaControlProofs ---------------------------
(***************************************************************************)
(* Proofs about MediaControl, for any sources and any number of            *)
(* submissions: its types, and that however submissions overlap the share  *)
(* state, the local stream, the senders and the devices stay in step.      *)
(***************************************************************************)
EXTENDS MediaControl, TLAPS

-----------------------------------------------------------------------------
(* The inductive invariant *)

\* A track's source is of its kind; the number is that of a submission before n.
Labelled(stream) == \A t \in DOMAIN stream : stream[t] \in Of(t[1])
\* Of kind k the live tracks of n's stream are what the state says: one, or none
\* at all, not even an ended one.
Exact(n, stream, state, k) ==
  /\ state[k] = None => OfKind(stream, k) = {}
  /\ state[k] # None =>
       \E t \in OfKind(stream, k) :
         /\ <<n, t>> \in on /\ stream[t] = state[k]
         /\ \A u \in OfKind(stream, k) : <<n, u>> \in on => u = t

\* The local stream: it is no submission's any more, and as the share state says.
LocalInv ==
  /\ version \notin DOMAIN jobs
  /\ Labelled(local) /\ \A t \in DOMAIN local : t[2] <= version
  /\ alive => \A k \in Kinds : Exact(version, local, shareState, k)

\* The kinds whose answer the chain has not come to.
Ahead(j) == IF jobs[j].stage = "audio" THEN Kinds ELSE {"video"}
\* A submission works on tracks that are older than it, and on its own once given.
Newest(j) ==
  \A t \in DOMAIN jobs[j].stream :
    t[2] < j \/ (t = <<"audio", j>> /\ jobs[j].stage = "video")
\* It asks for what it replaces.
Asking(j) ==
  \A k \in Kinds :
    /\ jobs[j].wanted[k] = None <=> jobs[j].update[k] = "deleted"
    /\ jobs[j].asked[k] = "no" <=> jobs[j].update[k] # "replaced"
\* What it has been given is on; the kinds it is done with are as wanted, and
\* so are those it leaves as they are.
Working(j) ==
  /\ \A k \in Ahead(j) : jobs[j].asked[k] = "given" => <<j, <<k, j>>>> \in on
  /\ \A k \in Kinds :
       k \notin Ahead(j) \/ jobs[j].update[k] = "unchanged" =>
         Exact(j, jobs[j].stream, jobs[j].wanted, k)
  /\ jobs[j].stage = "video" => jobs[j].asked["audio"] # "asked"
JobInv(j) ==
  /\ Labelled(jobs[j].stream) /\ Newest(j) /\ Asking(j)
  /\ jobs[j].stage # "failed" => Working(j)
JobsInv == \A j \in DOMAIN jobs : JobInv(j)

\* Every local track has a sender; no sender is named after a submission that is
\* not over.
SendersInv ==
  /\ alive => \A t \in DOMAIN local : \E x \in DOMAIN sent : sent[x] = t
  /\ \A x \in DOMAIN sent : x[1] \notin DOMAIN jobs
  /\ ~alive => DOMAIN sent = {}

\* Whatever is on is in the local stream, or in a submission's, or given to one.
HeldBy(j, t) ==
  \/ t \in DOMAIN jobs[j].stream
  \/ \E k \in Ahead(j) : t = <<k, j>> /\ jobs[j].asked[k] = "given"
Held(o) ==
  \/ alive /\ o[1] = version /\ o[2] \in DOMAIN local
  \/ o[1] \in DOMAIN jobs /\ HeldBy(o[1], o[2])
DevicesInv ==
  ~mishap =>
    /\ \A o \in on : Held(o)
    /\ \A j \in DOMAIN jobs : jobs[j].stage # "failed"
    /\ alive \/ jobs = Empty

MediaInv == MediaTypeOK /\ LocalInv /\ JobsInv /\ SendersInv /\ DevicesInv
-----------------------------------------------------------------------------
(* Streams and functions *)

LEMMA StreamIs ==
  ASSUME NEW s
  PROVE  s \in Stream <=> /\ s = [t \in DOMAIN s |-> s[t]] /\ DOMAIN s \subseteq Tracks
                          /\ \A t \in DOMAIN s : s[t] \in Sources
<1>1. s \in Stream <=> \E D \in SUBSET Tracks : s \in [D -> Sources] BY DEF Stream
<1>2. QED BY <1>1

LEMMA EmptyIs == DOMAIN Empty = {} /\ Empty \in Stream
<1>1. DOMAIN Empty = {} BY DEF Empty
<1>2. QED BY <1>1, StreamIs DEF Empty

LEMMA NoDomain == ASSUME NEW s \in Stream PROVE s = Empty <=> DOMAIN s = {}
BY StreamIs DEF Empty

LEMMA Overs ==
  ASSUME NEW j
  PROVE  /\ DOMAIN Over(j) = DOMAIN jobs \ {j}
         /\ \A i \in DOMAIN Over(j) : Over(j)[i] = jobs[i]
         /\ Over(j) = [i \in DOMAIN jobs \ {j} |-> Over(j)[i]]
BY DEF Over
-----------------------------------------------------------------------------
(* What a step does not touch *)

\* A stream's tracks stay on, or stay off.
StillOn(n) == \A t : <<n, t>> \in on' <=> <<n, t>> \in on

LEMMA JobKept ==
  ASSUME NEW i, jobs'[i] = jobs[i], StillOn(i), JobInv(i)
  PROVE  JobInv(i)'
<1>1. Labelled(jobs[i].stream)' BY DEF JobInv, Labelled
<1>2. Newest(i)' /\ Asking(i)' BY DEF JobInv, Newest, Asking
<1>3. ASSUME jobs[i].stage # "failed" PROVE Working(i)'
  <2>1. Working(i) BY <1>3 DEF JobInv
  <2>2. Ahead(i)' = Ahead(i) BY DEF Ahead
  <2>3. \A k \in Ahead(i) : jobs[i].asked[k] = "given" => <<i, <<k, i>>>> \in on'
    BY <2>1 DEF Working, StillOn
  <2>4. ASSUME NEW k \in Kinds, k \notin Ahead(i) \/ jobs[i].update[k] = "unchanged"
        PROVE  Exact(i, jobs[i].stream, jobs[i].wanted, k)'
    <3>1. Exact(i, jobs[i].stream, jobs[i].wanted, k) BY <2>1, <2>4 DEF Working
    <3> DEFINE stream == jobs[i].stream
               state == jobs[i].wanted
    <3>2. stream' = stream /\ state' = state OBVIOUS
    <3>3. QED BY <3>1, <3>2 DEF Exact, OfKind, StillOn
  <2>5. QED BY <2>1, <2>2, <2>3, <2>4 DEF Working
<1>4. QED BY <1>1, <1>2, <1>3 DEF JobInv

LEMMA LocalKept ==
  ASSUME LocalInv, UNCHANGED <<local, version, shareState>>, alive' => alive,
         version \notin DOMAIN jobs', StillOn(version)
  PROVE  LocalInv'
<1>1. ASSUME alive, NEW k \in Kinds PROVE Exact(version, local, shareState, k)'
  <2>1. Exact(version, local, shareState, k) BY <1>1 DEF LocalInv
  <2>2. QED BY <2>1 DEF Exact, OfKind, StillOn
<1>2. QED BY <1>1 DEF LocalInv, Labelled

\* What is held stays held.
LEMMA HeldKept ==
  ASSUME NEW o, Held(o), UNCHANGED <<alive, version, local, jobs>>
  PROVE  Held(o)'
BY DEF Held, HeldBy, Ahead

-----------------------------------------------------------------------------
(* The form *)

LEMMA StatesAre ==
  ASSUME NEW state
  PROVE  state \in ShareState <=>
           /\ state \in [Kinds -> Sources \cup {None}]
           /\ \A k \in Kinds : state[k] \in Of(k) \cup {None}
BY DEF ShareState

LEMMA NothingIs == Nothing \in ShareState
BY StatesAre DEF Nothing

LEMMA ResetTyped ==
  ASSUME form \in ShareState, shareState \in ShareState, NEW ks, NEW state \in ShareState,
         Reset(ks, state)
  PROVE  form' \in ShareState /\ valid' \in BOOLEAN
BY StatesAre DEF Reset

\* The form and the own player concern no stream.
Aside == UNCHANGED <<alive, shareState, local, version, sent, shares, jobs, on, mishap>>
LEMMA AsideKeeps ==
  ASSUME MediaInv, Aside,
         {open', valid', showSelf'} \subseteq BOOLEAN, form' \in ShareState,
         player' \in 0 .. shares
  PROVE  MediaInv'
<1>1. MediaTypeOK' BY DEF MediaInv, MediaTypeOK, Aside
<1>2. \A n : StillOn(n) BY DEF StillOn, Aside
<1>3. LocalInv' BY <1>2, LocalKept DEF MediaInv, Aside, LocalInv
<1>4. JobsInv' BY <1>2, JobKept DEF MediaInv, Aside, JobsInv
<1>5. SendersInv' BY DEF MediaInv, SendersInv, Aside
<1>6. DevicesInv' BY HeldKept DEF MediaInv, DevicesInv, Aside
<1>7. QED BY <1>1, <1>3, <1>4, <1>5, <1>6 DEF MediaInv

LEMMA FormKeeps == ASSUME MediaInv, FormStep PROVE MediaInv'
<1> USE DEF streamVars, jobVars, viewVars, Aside
<1>0. /\ {open, valid, showSelf} \subseteq BOOLEAN /\ form \in ShareState
      /\ shareState \in ShareState /\ player \in 0 .. shares /\ version \in 0 .. shares
      /\ 0 \in 0 .. shares
  BY MaxSharesAssumption DEF MediaInv, MediaTypeOK
<1>1. CASE OpenSelector
  <2>1. CASE form # shareState
    <3>1. Reset(Kinds, shareState) BY <1>1, <2>1 DEF OpenSelector
    <3>2. valid' \in BOOLEAN /\ form' = [k \in Kinds |-> shareState[k]]
      BY <3>1 DEF Reset
    <3>3. form' \in ShareState BY <1>0, <3>2, StatesAre
    <3>4. QED BY <1>0, <1>1, <3>2, <3>3, AsideKeeps DEF OpenSelector
  <2>2. CASE form = shareState BY <1>0, <1>1, <2>2, AsideKeeps DEF OpenSelector
  <2>3. QED BY <2>1, <2>2
<1>2. CASE CloseSelector BY <1>0, <1>2, AsideKeeps DEF CloseSelector
<1>3. CASE ShowSelfPlayer
  <2>1. player' \in 0 .. shares BY <1>0, <1>3 DEF ShowSelfPlayer, Player
  <2>2. QED BY <1>0, <1>3, <2>1, AsideKeeps DEF ShowSelfPlayer, formVars
<1>4. ASSUME NEW k \in Kinds, ResetSelector(k) PROVE MediaInv'
  <2>1. form' \in ShareState /\ valid' \in BOOLEAN
    BY <1>0, <1>4, ResetTyped, NothingIs DEF ResetSelector
  <2>2. QED BY <1>0, <1>4, <2>1, AsideKeeps DEF ResetSelector
<1>5. ASSUME NEW k \in Kinds, NEW s \in Of(k) \cup {None}, ChangeForm(k, s) PROVE MediaInv'
  <2>1. form' = [form EXCEPT ![k] = s] /\ valid' \in BOOLEAN BY <1>5 DEF ChangeForm
  <2>2. Of(k) \subseteq Sources BY DEF Of, Sources
  <2>3. form' \in [Kinds -> Sources \cup {None}] BY <1>0, <2>1, <2>2, StatesAre
  <2>4. \A l \in Kinds : form'[l] \in Of(l) \cup {None} BY <1>0, <2>1, StatesAre
  <2>5. form' \in ShareState BY <2>3, <2>4, StatesAre
  <2>6. QED BY <1>0, <1>5, <2>1, <2>5, AsideKeeps DEF ChangeForm
<1>6. QED BY <1>1, <1>2, <1>3, <1>4, <1>5 DEF FormStep
-----------------------------------------------------------------------------
(* Submissions *)

\* Only submission j changes, or comes, or goes.
LEMMA OneJob ==
  ASSUME JobsInv, NEW j, DOMAIN jobs' \subseteq DOMAIN jobs \cup {j},
         \A i \in DOMAIN jobs' : i # j => jobs'[i] = jobs[i] /\ StillOn(i),
         j \in DOMAIN jobs' => JobInv(j)'
  PROVE  JobsInv'
<1>1. \A i \in DOMAIN jobs' : i # j => JobInv(i)' BY JobKept DEF JobsInv
<1>2. QED BY <1>1 DEF JobsInv

LEMMA NewJobIs ==
  ASSUME MediaInv
  PROVE  /\ NewJob \in Job
         /\ NewJob.wanted = form /\ NewJob.stream = local /\ NewJob.stage = "audio"
         /\ \A k \in Kinds :
              /\ NewJob.update[k] = Update(k, form, shareState)
              /\ NewJob.asked[k] = IF NewJob.update[k] = "replaced" THEN "asked" ELSE "no"
<1> DEFINE update == [k \in Kinds |-> Update(k, form, shareState)]
           asked == [k \in Kinds |-> IF update[k] = "replaced" THEN "asked" ELSE "no"]
<1>1. update \in [Kinds -> {"replaced", "unchanged", "deleted"}] BY DEF Update
<1>2. asked \in [Kinds -> {"no", "asked", "given", "denied"}] OBVIOUS
<1>3. NewJob = [wanted |-> form, update |-> update, stream |-> local, stage |-> "audio",
                asked |-> asked]
  BY DEF NewJob
<1>4. \A k \in Kinds : /\ update[k] = Update(k, form, shareState)
                      /\ asked[k] = IF update[k] = "replaced" THEN "asked" ELSE "no"
  OBVIOUS
<1> HIDE DEF update, asked
<1>5. QED BY <1>1, <1>2, <1>3, <1>4 DEF Job, MediaInv, MediaTypeOK

LEMMA SubmissionKeeps == ASSUME MediaInv, OnUpdateShareState PROVE MediaInv'
<1>a. PICK n : n = shares + 1 OBVIOUS
<1>0. /\ shares \in 0 .. MaxShares /\ MaxShares \in Nat /\ DOMAIN jobs \subseteq 1 .. shares
      /\ version \in 0 .. shares /\ local \in Stream /\ on \subseteq (1 .. shares) \X Tracks
      /\ jobs \in [DOMAIN jobs -> Job]
  BY MaxSharesAssumption DEF MediaInv, MediaTypeOK
<1>1. /\ alive /\ shares < MaxShares /\ shares' = n /\ jobs' = With(jobs, n, NewJob)
      /\ on' = on \cup {n} \X LiveIn(version, local)
      /\ UNCHANGED <<alive, formVars, streamVars, mishap, viewVars>>
  BY <1>a DEF OnUpdateShareState
<1>2. /\ n \in 1 .. MaxShares /\ n \notin DOMAIN jobs /\ version # n /\ version < n
      /\ n \in Nat /\ version \in Nat
  BY <1>a, <1>0, <1>1
<1>3. /\ DOMAIN jobs' = DOMAIN jobs \cup {n} /\ jobs'[n] = NewJob
      /\ \A i \in DOMAIN jobs : jobs'[i] = jobs[i]
      /\ jobs' = [i \in DOMAIN jobs \cup {n} |-> jobs'[i]]
  <2>1. PICK J : J = NewJob OBVIOUS
  <2>2. jobs' = With(jobs, n, J) BY <1>1, <2>1
  <2>3. jobs' = [i \in DOMAIN jobs \cup {n} |-> IF i = n THEN J ELSE jobs[i]]
    BY <2>2 DEF With
  <2>4. QED BY <1>2, <2>1, <2>3
<1>4. \A i : i # n => StillOn(i) BY <1>1 DEF StillOn
<1>5. \A t : <<n, t>> \in on' <=> t \in DOMAIN local /\ <<version, t>> \in on
  BY <1>a, <1>0, <1>1 DEF LiveIn
<1>6. MediaTypeOK'
  <2>1. jobs' \in [DOMAIN jobs' -> Job] BY <1>0, <1>3, NewJobIs
  <2>2. DOMAIN jobs' \subseteq 1 .. shares' BY <1>a, <1>0, <1>1, <1>3
  <2>3. on' \subseteq (1 .. shares') \X Tracks
    <3>1. LiveIn(version, local) \subseteq Tracks BY <1>0, StreamIs DEF LiveIn
    <3>2. 1 .. shares \subseteq 1 .. n /\ n \in 1 .. n BY <1>a, <1>0
    <3>3. QED BY <1>0, <1>1, <3>1, <3>2
  <2>4. 0 .. shares \subseteq 0 .. shares' /\ 1 .. shares \subseteq 1 .. shares'
        /\ shares' \in 0 .. MaxShares
    BY <1>a, <1>0, <1>1
  <2>5. QED
    BY <1>1, <2>1, <2>2, <2>3, <2>4
       DEF MediaInv, MediaTypeOK, formVars, streamVars, viewVars
<1>7. LocalInv'
  BY <1>1, <1>2, <1>3, <1>4, LocalKept DEF MediaInv, streamVars, LocalInv
<1>8. JobInv(n)'
  <2>1. /\ jobs'[n].wanted = form /\ jobs'[n].stream = local /\ jobs'[n].stage = "audio"
        /\ \A k \in Kinds :
             /\ jobs'[n].update[k] = Update(k, form, shareState)
             /\ jobs'[n].asked[k] = IF jobs'[n].update[k] = "replaced" THEN "asked" ELSE "no"
    BY <1>3, NewJobIs
  <2>2. Labelled(jobs[n].stream)' BY <2>1 DEF Labelled, MediaInv, LocalInv
  <2>3. Newest(n)'
    <3>1. \A t \in DOMAIN local : t[2] \in Nat /\ t[2] <= version
      BY <1>0, StreamIs DEF MediaInv, LocalInv, Tracks, Submissions
    <3>2. QED BY <1>2, <2>1, <3>1 DEF Newest
  <2>4. Asking(n)' BY <2>1 DEF Asking, Update
  <2>5. Ahead(n)' = Kinds BY <2>1 DEF Ahead
  <2>6. ASSUME NEW k \in Kinds, jobs'[n].update[k] = "unchanged"
        PROVE  Exact(n, jobs[n].stream, jobs[n].wanted, k)'
    <3>1. form[k] = shareState[k] /\ form[k] # None BY <2>1, <2>6 DEF Update
    <3>2. Exact(version, local, shareState, k) BY <1>1 DEF MediaInv, LocalInv
    <3>3. PICK t \in OfKind(local, k) :
            /\ <<version, t>> \in on /\ local[t] = form[k]
            /\ \A u \in OfKind(local, k) : <<version, u>> \in on => u = t
      BY <3>1, <3>2 DEF Exact
    <3>4. \A u \in OfKind(local, k) : <<n, u>> \in on' <=> <<version, u>> \in on
      BY <1>5 DEF OfKind
    <3>5. QED BY <2>1, <3>1, <3>3, <3>4 DEF Exact, OfKind
  <2>7. Working(n)' BY <2>1, <2>5, <2>6 DEF Working
  <2>8. QED BY <2>2, <2>3, <2>4, <2>7 DEF JobInv
<1>9. JobsInv' BY <1>3, <1>4, <1>8, OneJob DEF MediaInv
<1>10. SendersInv'
  <2>1. \A x \in DOMAIN sent : x[1] # n
    BY <1>a, <1>0 DEF MediaInv, MediaTypeOK
  <2>2. QED BY <1>1, <1>3, <2>1 DEF MediaInv, SendersInv, streamVars
<1>11. DevicesInv'
  <2>1. ASSUME NEW o \in on, Held(o) PROVE Held(o)'
    BY <1>1, <1>3, <2>1 DEF Held, HeldBy, Ahead, streamVars
  <2>2. ASSUME NEW t \in LiveIn(version, local) PROVE Held(<<n, t>>)'
    BY <1>3, NewJobIs DEF Held, HeldBy, LiveIn
  <2>3. jobs'[n].stage # "failed" BY <1>3, NewJobIs
  <2>4. QED BY <1>1, <1>3, <2>1, <2>2, <2>3 DEF MediaInv, DevicesInv
<1>12. QED BY <1>6, <1>7, <1>9, <1>10, <1>11 DEF MediaInv
-----------------------------------------------------------------------------
(* Answers *)

LEMMA JobsAre ==
  ASSUME MediaInv, NEW j \in DOMAIN jobs
  PROVE  /\ jobs[j] \in Job /\ j \in 1 .. shares /\ j \in Nat /\ j # version
         /\ shares \in 0 .. MaxShares /\ jobs \in [DOMAIN jobs -> Job]
         /\ version \in 0 .. shares
         /\ on \subseteq (1 .. shares) \X Tracks /\ local \in Stream /\ JobInv(j)
         /\ jobs[j].stream \in Stream /\ jobs[j].wanted \in ShareState
         /\ jobs[j].stage \in {"audio", "video", "failed"}
         /\ j \in Submissions
BY MaxSharesAssumption DEF MediaInv, MediaTypeOK, LocalInv, JobsInv, Job, Submissions

\* The submission with the answer a.
LEMMA AnsweredJob ==
  ASSUME MediaInv, NEW j \in DOMAIN jobs, NEW k \in Kinds, NEW a \in {"given", "denied"},
         NEW J, J = [jobs[j] EXCEPT !.asked[k] = a]
  PROVE  /\ J \in Job /\ J.wanted = jobs[j].wanted /\ J.update = jobs[j].update
         /\ J.stream = jobs[j].stream /\ J.stage = jobs[j].stage
         /\ J.asked[k] = a /\ \A l \in Kinds : l # k => J.asked[l] = jobs[j].asked[l]
<1>1. jobs[j] \in Job BY JobsAre
<1>2. [jobs[j].asked EXCEPT ![k] = a] \in [Kinds -> {"no", "asked", "given", "denied"}]
  BY <1>1 DEF Job
<1>3. QED BY <1>1, <1>2 DEF Job

\* What becomes of the other submissions.
LEMMA BecomesIs ==
  ASSUME MediaInv, NEW j \in DOMAIN jobs, NEW J \in Job, Becomes(j, J)
  PROVE  /\ jobs' \in [DOMAIN jobs' -> Job]
         /\ DOMAIN jobs' = DOMAIN jobs \/ (J.stage = "failed" /\ DOMAIN jobs' = DOMAIN jobs \ {j})
         /\ j \in DOMAIN jobs' => jobs'[j] = J
         /\ \A i \in DOMAIN jobs' : i # j => jobs'[i] = jobs[i]
<1>1. jobs \in [DOMAIN jobs -> Job] BY JobsAre
<1>2. CASE jobs' = [jobs EXCEPT ![j] = J] BY <1>1, <1>2
<1>3. CASE J.stage = "failed" /\ jobs' = Over(j)
  <2>1. jobs' = [i \in DOMAIN jobs \ {j} |-> jobs[i]] BY <1>3 DEF Over
  <2>2. QED BY <1>1, <1>3, <2>1
<1>4. QED BY <1>2, <1>3 DEF Becomes

LEMMA AnswerKeeps ==
  ASSUME MediaInv, NEW j \in DOMAIN jobs, NEW k \in Kinds, NEW a \in {"given", "denied"},
         jobs[j].asked[k] = "asked", Becomes(j, [jobs[j] EXCEPT !.asked[k] = a]),
         on' = on \cup (IF a = "given" THEN {<<j, <<k, j>>>>} ELSE {}),
         UNCHANGED <<alive, formVars, streamVars, shares, mishap, viewVars>>
  PROVE  MediaInv'
<1>1. PICK J : J = [jobs[j] EXCEPT !.asked[k] = a] OBVIOUS
<1>2. /\ J \in Job /\ J.wanted = jobs[j].wanted /\ J.update = jobs[j].update
      /\ J.stream = jobs[j].stream /\ J.stage = jobs[j].stage
      /\ J.asked[k] = a /\ \A l \in Kinds : l # k => J.asked[l] = jobs[j].asked[l]
  BY <1>1, AnsweredJob
<1>3. Becomes(j, J) BY <1>1
<1>4. /\ jobs' \in [DOMAIN jobs' -> Job] /\ DOMAIN jobs' \subseteq DOMAIN jobs
      /\ J.stage # "failed" => DOMAIN jobs' = DOMAIN jobs
      /\ j \in DOMAIN jobs' => jobs'[j] = J
      /\ \A i \in DOMAIN jobs' : i # j => jobs'[i] = jobs[i]
  BY <1>2, <1>3, BecomesIs
<1>5. JobInv(j) /\ j # version /\ j \in Nat BY JobsAre
<1>6. \A i : i # j => StillOn(i) BY DEF StillOn
<1>7. MediaTypeOK'
  <2>1. on' \subseteq (1 .. shares) \X Tracks BY JobsAre DEF Tracks
  <2>2. QED BY <1>4, <2>1 DEF MediaInv, MediaTypeOK, formVars, streamVars, viewVars
<1>8. LocalInv' BY <1>4, <1>5, <1>6, LocalKept DEF MediaInv, LocalInv, streamVars
<1>9. ASSUME jobs[j].stage # "failed"
      PROVE  k \in Ahead(j) /\ <<k, j>> \notin DOMAIN jobs[j].stream
  <2>1. Working(j) /\ Newest(j) BY <1>5, <1>9 DEF JobInv
  <2>2. jobs[j].stage \in {"audio", "video"} BY <1>9, JobsAre
  <2>3. ~(k = "audio" /\ jobs[j].stage = "video") BY <2>1 DEF Working
  <2>4. k \in Ahead(j) BY <2>2, <2>3 DEF Ahead, Kinds
  <2>5. <<k, j>> \notin DOMAIN jobs[j].stream BY <1>5, <2>1, <2>3 DEF Newest
  <2>6. QED BY <2>4, <2>5
<1>10. ASSUME j \in DOMAIN jobs' PROVE JobInv(j)'
  <2>0. jobs'[j] = J BY <1>4, <1>10
  <2>1. Labelled(jobs[j].stream)' /\ Newest(j)'
    BY <1>2, <1>5, <2>0 DEF JobInv, Labelled, Newest
  <2>2. Asking(j)' BY <1>2, <1>5, <2>0 DEF JobInv, Asking
  <2>3. ASSUME J.stage # "failed" PROVE Working(j)'
    <3>1. Working(j) BY <1>2, <1>5, <2>3 DEF JobInv
    <3>2. Ahead(j)' = Ahead(j) /\ Ahead(j) \subseteq Kinds BY <1>2, <2>0 DEF Ahead, Kinds
    <3>3. \A l \in Ahead(j) : J.asked[l] = "given" => <<j, <<l, j>>>> \in on'
      BY <1>2, <3>1, <3>2 DEF Working
    <3>4. ASSUME NEW l \in Kinds, l \notin Ahead(j) \/ J.update[l] = "unchanged"
          PROVE  Exact(j, jobs[j].stream, jobs[j].wanted, l)'
      <4>1. Exact(j, jobs[j].stream, jobs[j].wanted, l) BY <1>2, <3>1, <3>4 DEF Working
      <4>2. \A t \in OfKind(jobs[j].stream, l) : <<j, t>> \in on' <=> <<j, t>> \in on
        BY <1>2, <1>9, <2>3 DEF OfKind
      <4>3. /\ OfKind(jobs[j].stream, l)' = OfKind(jobs[j].stream, l)
            /\ jobs'[j].stream = jobs[j].stream /\ jobs'[j].wanted = jobs[j].wanted
        BY <1>2, <2>0 DEF OfKind
      <4>4. QED BY <4>1, <4>2, <4>3 DEF Exact
    <3>5. J.stage = "video" => J.asked["audio"] # "asked"
      BY <1>2, <3>1 DEF Working, Kinds
    <3>6. QED BY <2>0, <3>2, <3>3, <3>4, <3>5 DEF Working
  <2>4. QED BY <2>0, <2>1, <2>2, <2>3 DEF JobInv
<1>11. JobsInv' BY <1>4, <1>6, <1>10, OneJob DEF MediaInv
<1>12. SendersInv' BY <1>4 DEF MediaInv, SendersInv, streamVars
<1>13. ASSUME ~mishap PROVE DevicesInv'
  <2>1. J.stage # "failed" /\ jobs[j].stage # "failed"
    BY <1>2, <1>13 DEF MediaInv, DevicesInv
  <2>2. DOMAIN jobs' = DOMAIN jobs /\ jobs'[j] = J BY <1>4, <2>1
  <2>3. \A i \in DOMAIN jobs : jobs'[i].stage = jobs[i].stage /\ jobs'[i].stream = jobs[i].stream
                                /\ \A l \in Kinds : jobs[i].asked[l] = "given" =>
                                                     jobs'[i].asked[l] = "given"
    BY <1>2, <1>4, <2>2
  <2>4. ASSUME NEW o \in on, Held(o) PROVE Held(o)'
    <3>1. \A i \in DOMAIN jobs : Ahead(i)' = Ahead(i) /\ Ahead(i) \subseteq Kinds
      BY <2>3 DEF Ahead, Kinds
    <3>2. \A i \in DOMAIN jobs : \A t : HeldBy(i, t) => HeldBy(i, t)'
      BY <2>3, <3>1 DEF HeldBy
    <3>3. QED BY <2>2, <2>4, <3>2 DEF Held, streamVars
  <2>5. ASSUME a = "given" PROVE Held(<<j, <<k, j>>>>)'
    <3>1. k \in Ahead(j)' BY <1>2, <1>9, <2>1, <2>2 DEF Ahead
    <3>2. HeldBy(j, <<k, j>>)' BY <1>2, <2>2, <2>5, <3>1 DEF HeldBy
    <3>3. QED BY <2>2, <3>2 DEF Held
  <2>6. \A o \in on' : Held(o)' BY <1>13, <2>4, <2>5 DEF MediaInv, DevicesInv
  <2>7. \A i \in DOMAIN jobs' : jobs'[i].stage # "failed"
    BY <1>13, <2>2, <2>3 DEF MediaInv, DevicesInv
  <2>8. alive' \/ jobs' = Empty
    <3>1. jobs # Empty BY EmptyIs
    <3>2. QED BY <1>13, <3>1 DEF MediaInv, DevicesInv
  <2>9. QED BY <2>6, <2>7, <2>8 DEF DevicesInv
<1>14. DevicesInv' BY <1>13 DEF DevicesInv
<1>15. QED BY <1>7, <1>8, <1>11, <1>12, <1>14 DEF MediaInv
-----------------------------------------------------------------------------
(* What a submission makes of its answers *)

\* The tracks of the other kind are the same.
Beside(s, old, k) ==
  \A l \in Kinds \ {k} : /\ OfKind(s, l) = OfKind(old, l)
                        /\ \A t \in OfKind(s, l) : s[t] = old[t]

\* newStream, once the answer for k has been applied.
LEMMA AppliedIs ==
  ASSUME MediaInv, NEW j \in DOMAIN jobs, NEW k \in Kinds, Reaches(j, k), NEW s, s = Applied(j, k)
  PROVE  /\ s \in Stream /\ Labelled(s)
         /\ <<k, j>> \notin DOMAIN jobs[j].stream
         /\ \A t \in DOMAIN s : t \in DOMAIN jobs[j].stream \/ t = <<k, j>>
         /\ \A t \in DOMAIN jobs[j].stream :
              <<j, t>> \in Stopping(j, k) \/ (t \in DOMAIN s /\ s[t] = jobs[j].stream[t])
         /\ jobs[j].asked[k] = "given" => <<k, j>> \in DOMAIN s
         /\ Beside(s, jobs[j].stream, k)
<1> DEFINE old == jobs[j].stream
<1>1. /\ old \in Stream /\ jobs[j].wanted \in ShareState /\ JobInv(j) /\ j \in Nat
      /\ jobs[j].update[k] \in {"replaced", "unchanged", "deleted"} /\ j \in Submissions
  BY JobsAre DEF Job
<1>2. jobs[j].stage = k /\ jobs[j].asked[k] \in {"no", "given"} BY DEF Reaches
<1>3. <<k, j>> \notin DOMAIN old
  BY <1>1, <1>2 DEF JobInv, Newest, Kinds
<1>4. /\ jobs[j].wanted[k] = None <=> jobs[j].update[k] = "deleted"
      /\ jobs[j].asked[k] = "no" <=> jobs[j].update[k] # "replaced"
  BY <1>1 DEF JobInv, Asking
<1>5. Labelled(old) BY <1>1 DEF JobInv
<1>6. CASE jobs[j].update[k] = "unchanged"
  <2>1. s = old BY <1>6 DEF Applied
  <2>2. Beside(s, old, k) BY <2>1 DEF Beside, OfKind
  <2>3. QED BY <1>1, <1>2, <1>3, <1>4, <1>5, <1>6, <2>1, <2>2
<1>7. CASE jobs[j].update[k] = "deleted"
  <2>1. s = Without(old, k) BY <1>7 DEF Applied
  <2>2. /\ s \in Stream /\ DOMAIN s = DOMAIN old \ OfKind(old, k)
        /\ \A t \in DOMAIN s : s[t] = old[t]
    <3>1. s = [t \in DOMAIN old \ OfKind(old, k) |-> old[t]] BY <2>1 DEF Without
    <3>2. DOMAIN old \subseteq Tracks /\ \A t \in DOMAIN old : old[t] \in Sources
      BY <1>1, StreamIs
    <3>3. QED BY <3>1, <3>2, StreamIs
  <2>3. Labelled(s) BY <1>5, <2>2 DEF Labelled
  <2>4. \A t \in DOMAIN old : <<j, t>> \in Stopping(j, k) \/ t \in DOMAIN s
    BY <1>7, <2>2 DEF Stopping
  <2>5. Beside(s, old, k) BY <2>2 DEF Beside, OfKind
  <2>6. jobs[j].asked[k] # "given" BY <1>2, <1>4, <1>7
  <2>7. QED BY <1>3, <2>2, <2>3, <2>4, <2>5, <2>6
<1>8. CASE jobs[j].update[k] = "replaced"
  <2>1. s = With(old, <<k, j>>, jobs[j].wanted[k]) BY <1>8 DEF Applied
  <2>2. /\ DOMAIN s = DOMAIN old \cup {<<k, j>>} /\ s[<<k, j>>] = jobs[j].wanted[k]
        /\ \A t \in DOMAIN old : s[t] = old[t]
        /\ s = [t \in DOMAIN s |-> s[t]]
    BY <1>3, <2>1 DEF With
  <2>3. jobs[j].wanted[k] \in Of(k) /\ Of(k) \subseteq Sources
    BY <1>1, <1>4, <1>8, StatesAre DEF Of, Sources
  <2>4. s \in Stream
    <3>1. DOMAIN old \subseteq Tracks /\ \A t \in DOMAIN old : old[t] \in Sources BY <1>1, StreamIs
    <3>2. <<k, j>> \in Tracks BY <1>1 DEF Tracks
    <3>3. QED BY <2>2, <2>3, <3>1, <3>2, StreamIs
  <2>5. Labelled(s) BY <1>5, <2>2, <2>3 DEF Labelled
  <2>6. Beside(s, old, k) BY <2>2 DEF Beside, OfKind
  <2>7. QED BY <1>3, <2>2, <2>4, <2>5, <2>6
<1>9. QED BY <1>1, <1>6, <1>7, <1>8

\* What stays on of it: all but what the answer stops.
StopsFor(j, k) == \A t : <<j, t>> \in on' <=> <<j, t>> \in on \ Stopping(j, k)

\* The kind answered for is then as wanted, the other no different.
LEMMA AppliedExact ==
  ASSUME MediaInv, NEW j \in DOMAIN jobs, NEW k \in Kinds, Reaches(j, k),
         NEW s, s = Applied(j, k), StopsFor(j, k), NEW w, w = jobs[j].wanted,
         NEW old, old = jobs[j].stream
  PROVE  /\ Exact(j, s, w, k)'
         /\ \A l \in Kinds \ {k} : Exact(j, old, w, l) => Exact(j, s, w, l)'
<1>1. /\ JobInv(j) /\ j \in Nat /\ old \in Stream /\ w \in ShareState
      /\ jobs[j].update[k] \in {"replaced", "unchanged", "deleted"}
  BY JobsAre DEF Job
<1>2. jobs[j].stage = k /\ jobs[j].asked[k] \in {"no", "given"} BY DEF Reaches
<1>3. /\ w[k] = None <=> jobs[j].update[k] = "deleted"
      /\ jobs[j].asked[k] = "no" <=> jobs[j].update[k] # "replaced"
  BY <1>1 DEF JobInv, Asking
<1>4. Working(j) /\ k \in Ahead(j)
  BY <1>1, <1>2 DEF JobInv, Ahead, Kinds
<1>5. <<k, j>> \notin DOMAIN old BY AppliedIs
<1>6. CASE jobs[j].update[k] = "unchanged"
  <2>1. s = old /\ Stopping(j, k) = {} BY <1>6 DEF Applied, Stopping
  <2>2. Exact(j, old, w, k) BY <1>4, <1>6 DEF Working
  <2>3. \A t : <<j, t>> \in on' <=> <<j, t>> \in on BY <2>1 DEF StopsFor
  <2>4. \A l \in Kinds : Exact(j, old, w, l) => Exact(j, s, w, l)'
    BY <2>1, <2>3 DEF Exact, OfKind
  <2>5. QED BY <2>2, <2>4
<1>7. Stopping(j, k) \subseteq {j} \X OfKind(old, k) BY DEF Stopping
<1>8. \A l \in Kinds \ {k} : \A t \in OfKind(old, l) : <<j, t>> \in on' <=> <<j, t>> \in on
  BY <1>7 DEF StopsFor, OfKind
<1>9. ASSUME NEW l \in Kinds \ {k}, Exact(j, old, w, l) PROVE Exact(j, s, w, l)'
  <2>a. Beside(s, old, k) BY AppliedIs
  <2>1. OfKind(s, l) = OfKind(old, l) /\ \A t \in OfKind(s, l) : s[t] = old[t]
    BY <2>a DEF Beside
  <2>2. OfKind(s, l)' = OfKind(s, l) BY DEF OfKind
  <2>3. QED BY <1>8, <1>9, <2>1, <2>2 DEF Exact
<1>10. CASE jobs[j].update[k] = "deleted"
  <2>1. s = [t \in DOMAIN old \ OfKind(old, k) |-> old[t]] BY <1>10 DEF Applied, Without
  <2>2. OfKind(s, k) = {} BY <2>1 DEF OfKind
  <2>3. OfKind(s, k)' = OfKind(s, k) BY DEF OfKind
  <2>4. Exact(j, s, w, k)' BY <1>3, <1>10, <2>2, <2>3 DEF Exact
  <2>5. QED BY <1>9, <2>4
<1>11. CASE jobs[j].update[k] = "replaced"
  <2>1. /\ DOMAIN s = DOMAIN old \cup {<<k, j>>} /\ s[<<k, j>>] = w[k]
    BY <1>5, <1>11 DEF Applied, With
  <2>2. Stopping(j, k) = {j} \X OfKind(old, k) BY <1>11 DEF Stopping
  <2>3. jobs[j].asked[k] = "given" BY <1>2, <1>3, <1>11
  <2>4. <<j, <<k, j>>>> \in on BY <1>4, <2>3 DEF Working
  <2>5. <<j, <<k, j>>>> \in on' BY <1>5, <2>2, <2>4 DEF StopsFor, OfKind
  <2>6. \A t \in OfKind(s, k) : <<j, t>> \in on' => t = <<k, j>>
    BY <2>1, <2>2 DEF StopsFor, OfKind
  <2>7. <<k, j>> \in OfKind(s, k) BY <2>1 DEF OfKind
  <2>8. OfKind(s, k)' = OfKind(s, k) BY DEF OfKind
  <2>9. w[k] # None BY <1>3, <1>11
  <2>10. Exact(j, s, w, k)' BY <2>1, <2>5, <2>6, <2>7, <2>8, <2>9 DEF Exact
  <2>11. QED BY <1>9, <2>10
<1>12. QED BY <1>1, <1>6, <1>10, <1>11
-----------------------------------------------------------------------------
(* The chain goes on *)

\* Streams other than j's are not concerned.
LEMMA StoppingOwn ==
  ASSUME NEW j, NEW k
  PROVE  Stopping(j, k) \subseteq {j} \X OfKind(jobs[j].stream, k)
BY DEF Stopping

LEMMA AudioKeeps == ASSUME MediaInv, NEW j \in DOMAIN jobs, AudioAnswered(j) PROVE MediaInv'
<1>a. PICK s : s = Applied(j, "audio") OBVIOUS
<1>b. PICK w : w = jobs[j].wanted OBVIOUS
<1>c. PICK old : old = jobs[j].stream OBVIOUS
<1>d. PICK J : J = [jobs[j] EXCEPT !.stream = s, !.stage = "video"] OBVIOUS
<1>0. /\ Reaches(j, "audio") /\ on' = on \ Stopping(j, "audio")
      /\ jobs' = [jobs EXCEPT ![j] = J]
      /\ UNCHANGED <<alive, formVars, streamVars, shares, mishap, viewVars>>
  BY <1>a, <1>d DEF AudioAnswered
<1>1. /\ jobs[j] \in Job /\ JobInv(j) /\ j # version /\ j \in Nat
      /\ jobs \in [DOMAIN jobs -> Job]
  BY JobsAre
<1>2. jobs[j].stage = "audio" /\ jobs[j].asked["audio"] \in {"no", "given"}
  BY <1>0 DEF Reaches
<1>3. /\ s \in Stream /\ Labelled(s)
      /\ \A t \in DOMAIN s : t \in DOMAIN old \/ t = <<"audio", j>>
      /\ \A t \in DOMAIN old : <<j, t>> \in Stopping(j, "audio") \/ t \in DOMAIN s
      /\ jobs[j].asked["audio"] = "given" => <<"audio", j>> \in DOMAIN s
  <2>1. "audio" \in Kinds BY DEF Kinds
  <2>2. QED BY <1>0, <1>a, <1>c, <2>1, AppliedIs
<1>4. /\ J \in Job /\ J.wanted = w /\ J.update = jobs[j].update /\ J.stream = s
      /\ J.stage = "video" /\ J.asked = jobs[j].asked
  BY <1>1, <1>3, <1>b, <1>d DEF Job
<1>5. /\ DOMAIN jobs' = DOMAIN jobs /\ jobs' \in [DOMAIN jobs -> Job] /\ jobs'[j] = J
      /\ \A i \in DOMAIN jobs : i # j => jobs'[i] = jobs[i]
  BY <1>0, <1>1, <1>4
<1>6. StopsFor(j, "audio") BY <1>0 DEF StopsFor
<1>7. \A i : i # j => StillOn(i) BY <1>0, StoppingOwn DEF StillOn
<1>8. MediaTypeOK'
  BY <1>0, <1>5 DEF MediaInv, MediaTypeOK, formVars, streamVars, viewVars
<1>9. LocalInv' BY <1>0, <1>1, <1>5, <1>7, LocalKept DEF MediaInv, LocalInv, streamVars
<1>10. JobInv(j)'
  <2>1. Labelled(jobs[j].stream)' BY <1>3, <1>4, <1>5 DEF Labelled
  <2>2. Newest(j)'
    <3>1. \A t \in DOMAIN old : t[2] < j BY <1>1, <1>2, <1>c DEF JobInv, Newest
    <3>2. QED BY <1>3, <1>4, <1>5, <3>1 DEF Newest
  <2>3. Asking(j)' BY <1>1, <1>b, <1>4, <1>5 DEF JobInv, Asking
  <2>4. Working(j) /\ Ahead(j) = Kinds /\ Ahead(j)' = {"video"}
    BY <1>1, <1>2, <1>4, <1>5 DEF JobInv, Ahead
  <2>5. J.asked["video"] = "given" => <<j, <<"video", j>>>> \in on'
    <3>1. J.asked["video"] = "given" => <<j, <<"video", j>>>> \in on
      BY <1>4, <2>4 DEF Working, Kinds
    <3>2. <<j, <<"video", j>>>> \notin Stopping(j, "audio") BY StoppingOwn DEF OfKind
    <3>3. QED BY <1>0, <3>1, <3>2
  <2>6. /\ Exact(j, s, w, "audio")'
        /\ \A l \in Kinds \ {"audio"} : Exact(j, old, w, l) => Exact(j, s, w, l)'
    <3>1. "audio" \in Kinds BY DEF Kinds
    <3>2. QED BY <1>0, <1>6, <1>a, <1>b, <1>c, <3>1, AppliedExact
  <2>7. ASSUME NEW k \in Kinds, k # "video" \/ J.update[k] = "unchanged"
        PROVE  Exact(j, s, w, k)'
    <3>1. CASE k = "audio" BY <2>6, <3>1
    <3>2. CASE k # "audio"
      <4>1. Exact(j, old, w, k)
        BY <1>4, <1>b, <1>c, <2>4, <2>7, <3>2 DEF Working, Kinds
      <4>2. QED BY <2>6, <3>2, <4>1
    <3>3. QED BY <3>1, <3>2
  <2>8. \A k \in Kinds : k # "video" \/ J.update[k] = "unchanged" =>
          Exact(j, jobs[j].stream, jobs[j].wanted, k)'
    <3>1. jobs'[j].stream = s /\ jobs'[j].wanted = w BY <1>4, <1>5
    <3>2. ASSUME NEW k \in Kinds, Exact(j, s, w, k)'
          PROVE  Exact(j, jobs[j].stream, jobs[j].wanted, k)'
      <4>1. OfKind(jobs[j].stream, k)' = OfKind(s, k)' BY <3>1 DEF OfKind
      <4>2. QED BY ONLY <3>1, <3>2, <4>1 DEF Exact
    <3>3. QED BY <2>7, <3>2
  <2>9. Working(j)' BY <1>2, <1>4, <1>5, <2>4, <2>5, <2>8 DEF Working
  <2>10. QED BY <2>1, <2>2, <2>3, <2>9 DEF JobInv
<1>11. JobsInv' BY <1>5, <1>7, <1>10, OneJob DEF MediaInv
<1>12. SendersInv' BY <1>0, <1>5 DEF MediaInv, SendersInv, streamVars
<1>13. ASSUME ~mishap PROVE DevicesInv'
  <2>1. ASSUME NEW t, HeldBy(j, t), <<j, t>> \in on' PROVE HeldBy(j, t)'
    <3>1. Ahead(j)' = {"video"} BY <1>4, <1>5 DEF Ahead
    <3>2. t \in DOMAIN old => t \in DOMAIN s BY <1>0, <1>3, <2>1
    <3>3. QED BY <1>3, <1>4, <1>5, <1>c, <2>1, <3>1, <3>2 DEF HeldBy, Ahead, Kinds
  <2>2. ASSUME NEW i \in DOMAIN jobs, i # j, NEW t, HeldBy(i, t) PROVE HeldBy(i, t)'
    BY <1>5, <2>2 DEF HeldBy, Ahead
  <2>3. ASSUME NEW o \in on' PROVE Held(o)'
    <3>1. o \in on BY <1>0
    <3>2. Held(o) BY <1>13, <3>1 DEF MediaInv, DevicesInv
    <3>3. o = <<o[1], o[2]>>
      <4>1. on \subseteq (1 .. shares) \X Tracks BY JobsAre
      <4>2. QED BY <3>1, <4>1
    <3>4. QED BY <1>0, <1>5, <2>1, <2>2, <3>2, <3>3 DEF Held, streamVars
  <2>4. \A i \in DOMAIN jobs' : jobs'[i].stage # "failed"
    BY <1>4, <1>5, <1>13 DEF MediaInv, DevicesInv
  <2>5. alive'
    <3>1. jobs # Empty BY EmptyIs
    <3>2. QED BY <1>0, <1>13, <3>1 DEF MediaInv, DevicesInv
  <2>6. QED BY <2>3, <2>4, <2>5 DEF DevicesInv
<1>14. DevicesInv' BY <1>0, <1>13 DEF DevicesInv
<1>15. QED BY <1>8, <1>9, <1>11, <1>12, <1>14 DEF MediaInv

LEMMA FailureKeeps == ASSUME MediaInv, NEW j \in DOMAIN jobs, RequestFailed(j) PROVE MediaInv'
<1>a. PICK J : J = [jobs[j] EXCEPT !.stage = "failed", !.stream = Empty] OBVIOUS
<1>0. /\ Becomes(j, J) /\ mishap' = TRUE
      /\ UNCHANGED <<alive, formVars, streamVars, shares, on, viewVars>>
  BY <1>a DEF RequestFailed
<1>1. /\ jobs[j] \in Job /\ JobInv(j) /\ j # version /\ j \in Nat
      /\ jobs \in [DOMAIN jobs -> Job]
  BY JobsAre
<1>2. /\ J \in Job /\ J.wanted = jobs[j].wanted /\ J.update = jobs[j].update
      /\ J.stream = Empty /\ J.stage = "failed" /\ J.asked = jobs[j].asked
  BY <1>1, <1>a, EmptyIs DEF Job
<1>3. /\ jobs' \in [DOMAIN jobs' -> Job] /\ DOMAIN jobs' \subseteq DOMAIN jobs
      /\ j \in DOMAIN jobs' => jobs'[j] = J
      /\ \A i \in DOMAIN jobs' : i # j => jobs'[i] = jobs[i]
  BY <1>0, <1>2, BecomesIs
<1>4. \A i : StillOn(i) BY <1>0 DEF StillOn
<1>5. MediaTypeOK'
  BY <1>0, <1>3 DEF MediaInv, MediaTypeOK, formVars, streamVars, viewVars
<1>6. LocalInv' BY <1>0, <1>3, <1>4, LocalKept DEF MediaInv, LocalInv, streamVars
<1>7. ASSUME j \in DOMAIN jobs' PROVE JobInv(j)'
  <2>1. DOMAIN jobs'[j].stream = {} BY <1>2, <1>3, <1>7, EmptyIs
  <2>2. Asking(j)' BY <1>1, <1>2, <1>3, <1>7 DEF JobInv, Asking
  <2>3. QED BY <1>2, <1>3, <1>7, <2>1, <2>2 DEF JobInv, Labelled, Newest
<1>8. JobsInv' BY <1>3, <1>4, <1>7, OneJob DEF MediaInv
<1>9. SendersInv' BY <1>0, <1>3 DEF MediaInv, SendersInv, streamVars
<1>10. DevicesInv' BY <1>0 DEF DevicesInv
<1>11. QED BY <1>5, <1>6, <1>8, <1>9, <1>10 DEF MediaInv

LEMMA DestroyKeeps == ASSUME MediaInv, Destroy PROVE MediaInv'
<1>0. /\ alive /\ alive' = FALSE /\ open' = FALSE /\ sent' = Empty /\ player' = 0
      /\ showSelf' = FALSE /\ on' = on \ {version} \X DOMAIN local
      /\ mishap' = (mishap \/ jobs # Empty)
      /\ UNCHANGED <<form, valid, shareState, local, version, shares, jobs>>
  BY DEF Destroy
<1>1. \A i : i # version => StillOn(i) BY <1>0 DEF StillOn
<1>2. MediaTypeOK'
  <2>1. DOMAIN sent' = {} /\ sent' \in [DOMAIN sent' -> DOMAIN local']
    BY <1>0, EmptyIs DEF Empty
  <2>2. mishap' \in BOOLEAN BY <1>0
  <2>3. 0 \in 0 .. shares BY DEF MediaInv, MediaTypeOK
  <2>4. QED BY <1>0, <2>1, <2>2, <2>3 DEF MediaInv, MediaTypeOK
<1>3. LocalInv' BY <1>0 DEF MediaInv, LocalInv, Labelled
<1>4. JobsInv'
  <2>1. \A i \in DOMAIN jobs : StillOn(i) BY <1>1 DEF MediaInv, LocalInv
  <2>2. QED BY <1>0, <2>1, JobKept DEF MediaInv, JobsInv
<1>5. SendersInv' BY <1>0, EmptyIs DEF SendersInv
<1>6. ASSUME ~mishap' PROVE DevicesInv'
  <2>1. ~mishap /\ jobs = Empty BY <1>0, <1>6
  <2>2. DOMAIN jobs = {} BY <2>1, EmptyIs
  <2>3. ASSUME NEW o \in on' PROVE FALSE
    <3>1. o \in on /\ o \notin {version} \X DOMAIN local BY <1>0
    <3>2. o[1] = version /\ o[2] \in DOMAIN local
      BY <2>1, <2>2, <3>1 DEF MediaInv, DevicesInv, Held
    <3>3. on \subseteq (1 .. shares) \X Tracks BY DEF MediaInv, MediaTypeOK
    <3>4. QED BY <3>1, <3>2, <3>3
  <2>4. QED BY <1>0, <2>1, <2>2, <2>3 DEF DevicesInv
<1>7. DevicesInv' BY <1>6 DEF DevicesInv
<1>8. QED BY <1>2, <1>3, <1>4, <1>5, <1>7 DEF MediaInv
-----------------------------------------------------------------------------
(* The local stream is replaced *)

\* The senders mergeStream leaves: those there were, on a track of the new
\* stream, and new ones for the tracks none of them has taken.
LEMMA MergedIs ==
  ASSUME NEW n, NEW stream, \A x \in DOMAIN sent : x[1] # n
  PROVE  /\ Merged(n, stream) \in [DOMAIN Merged(n, stream) -> DOMAIN stream]
         /\ \A x \in DOMAIN Merged(n, stream) :
              x \in DOMAIN sent \/ x \in {n} \X DOMAIN stream
         /\ \A t \in DOMAIN stream :
              \E x \in DOMAIN Merged(n, stream) : Merged(n, stream)[x] = t
<1>a. PICK M : M = Merged(n, stream) OBVIOUS
<1>b. PICK moved : moved = Moved(stream) OBVIOUS
<1>c. PICK kept : kept = Kept(stream) OBVIOUS
<1>d. PICK left : left = Untaken(stream) OBVIOUS
<1>1. M = [x \in kept \cup ({n} \X left) |-> IF x \in kept THEN moved[x] ELSE x[2]]
  BY <1>a, <1>b, <1>c, <1>d DEF Merged
<1>2. kept \subseteq DOMAIN sent BY <1>c DEF Kept
<1>3. \A x \in kept : moved[x] \in DOMAIN stream
  <2>1. moved = [x \in kept |-> CHOOSE t \in Replacing(stream, x) : TRUE]
    BY <1>b, <1>c DEF Moved
  <2>2. ASSUME NEW x \in kept PROVE moved[x] \in DOMAIN stream
    <3>1. Replacing(stream, x) # {} BY <1>c DEF Kept
    <3>2. moved[x] \in Replacing(stream, x) BY <2>1, <3>1
    <3>3. QED BY <3>2 DEF Replacing, Matching
  <2>3. QED BY <2>2
<1>4. left = DOMAIN stream \ {moved[x] : x \in kept} BY <1>b, <1>c, <1>d DEF Untaken
<1>5. M \in [DOMAIN M -> DOMAIN stream]
  <2>1. \A x \in DOMAIN M : M[x] \in DOMAIN stream BY <1>1, <1>3, <1>4
  <2>2. QED BY <1>1, <2>1
<1>6. \A x \in DOMAIN M : x \in DOMAIN sent \/ x \in {n} \X DOMAIN stream
  BY <1>1, <1>2, <1>4
<1>7. ASSUME NEW t \in DOMAIN stream PROVE \E x \in DOMAIN M : M[x] = t
  <2>1. CASE t \in left
    <3>1. <<n, t>> \notin kept BY <1>2
    <3>2. <<n, t>> \in DOMAIN M /\ M[<<n, t>>] = t BY <1>1, <2>1, <3>1
    <3>3. QED BY <3>2
  <2>2. CASE t \notin left
    <3>1. PICK x \in kept : moved[x] = t BY <1>4, <2>2
    <3>2. x \in DOMAIN M /\ M[x] = t BY <1>1, <3>1
    <3>3. QED BY <3>2
  <2>3. QED BY <2>1, <2>2
<1>8. QED BY <1>a, <1>5, <1>6, <1>7

LEMMA VideoKeeps == ASSUME MediaInv, NEW j \in DOMAIN jobs, VideoAnswered(j) PROVE MediaInv'
<1>a. PICK s : s = Applied(j, "video") OBVIOUS
<1>b. PICK w : w = jobs[j].wanted OBVIOUS
<1>c. PICK old : old = jobs[j].stream OBVIOUS
<1>d. PICK M : M = Merged(j, s) OBVIOUS
<1>0. /\ Reaches(j, "video") /\ local' = s /\ version' = j /\ shareState' = w
      /\ on' = on \ (Stopping(j, "video") \cup ({version} \X DOMAIN local))
      /\ sent' = (IF alive THEN M ELSE sent) /\ open' = FALSE
      /\ player' = Player(alive /\ showSelf, s, j) /\ jobs' = Over(j)
      /\ UNCHANGED <<alive, form, valid, shares, mishap, showSelf>>
  BY <1>a, <1>b, <1>d DEF VideoAnswered, UpdateLocalStream
<1>1. /\ jobs[j] \in Job /\ JobInv(j) /\ j # version /\ j \in Nat /\ j \in 1 .. shares
      /\ jobs \in [DOMAIN jobs -> Job] /\ w \in ShareState /\ old \in Stream
      /\ on \subseteq (1 .. shares) \X Tracks /\ shares \in 0 .. MaxShares
  BY <1>b, <1>c, JobsAre
<1>2. jobs[j].stage = "video" /\ jobs[j].asked["video"] \in {"no", "given"}
  BY <1>0 DEF Reaches
<1>k. "video" \in Kinds BY DEF Kinds
<1>3. /\ s \in Stream /\ Labelled(s)
      /\ \A t \in DOMAIN s : t \in DOMAIN old \/ t = <<"video", j>>
      /\ \A t \in DOMAIN old : <<j, t>> \in Stopping(j, "video") \/ t \in DOMAIN s
      /\ jobs[j].asked["video"] = "given" => <<"video", j>> \in DOMAIN s
  BY <1>0, <1>a, <1>c, <1>k, AppliedIs
<1>4. /\ DOMAIN jobs' = DOMAIN jobs \ {j} /\ \A i \in DOMAIN jobs' : jobs'[i] = jobs[i]
      /\ jobs' = [i \in DOMAIN jobs \ {j} |-> jobs'[i]]
  BY <1>0, Overs
<1>5. StopsFor(j, "video") BY <1>0, <1>1 DEF StopsFor
<1>6. \A i : i # j /\ i # version => StillOn(i) BY <1>0, StoppingOwn DEF StillOn
<1>7. /\ \A x \in DOMAIN sent : x[1] \notin DOMAIN jobs
      /\ DOMAIN sent \subseteq (1 .. shares) \X Tracks
      /\ sent \in [DOMAIN sent -> DOMAIN local]
      /\ ~alive => DOMAIN sent = {}
  BY DEF MediaInv, SendersInv, MediaTypeOK
<1>8. /\ M \in [DOMAIN M -> DOMAIN s]
      /\ \A x \in DOMAIN M : x \in DOMAIN sent \/ x \in {j} \X DOMAIN s
      /\ \A t \in DOMAIN s : \E x \in DOMAIN M : M[x] = t
  <2>1. \A x \in DOMAIN sent : x[1] # j BY <1>7
  <2>2. QED BY <1>d, <2>1, MergedIs
<1>9. MediaTypeOK'
  <2>1. sent' \in [DOMAIN sent' -> DOMAIN local'] /\ DOMAIN sent' \subseteq (1 .. shares) \X Tracks
    <3>1. DOMAIN s \subseteq Tracks BY <1>3, StreamIs
    <3>2. CASE alive BY <1>0, <1>1, <1>7, <1>8, <3>1, <3>2
    <3>3. CASE ~alive BY <1>0, <1>7, <3>3
    <3>4. QED BY <3>2, <3>3
  <2>2. jobs' \in [DOMAIN jobs' -> Job] /\ DOMAIN jobs' \subseteq 1 .. shares
    BY <1>1, <1>4 DEF MediaInv, MediaTypeOK
  <2>3. on' \subseteq (1 .. shares) \X Tracks BY <1>0, <1>1
  <2>4. player' \in 0 .. shares
    BY <1>0, <1>1 DEF Player, MediaInv, MediaTypeOK
  <2>5. version' \in 0 .. shares BY <1>0, <1>1
  <2>6. QED
    BY <1>0, <1>1, <1>3, <2>1, <2>2, <2>3, <2>4, <2>5 DEF MediaInv, MediaTypeOK
<1>10. \A k \in Kinds : Exact(j, s, w, k)'
  <2>1. /\ Exact(j, s, w, "video")'
        /\ \A l \in Kinds \ {"video"} : Exact(j, old, w, l) => Exact(j, s, w, l)'
    BY <1>0, <1>5, <1>a, <1>b, <1>c, <1>k, AppliedExact
  <2>2. ASSUME NEW k \in Kinds, k # "video" PROVE Exact(j, s, w, k)'
    <3>1. Working(j) /\ Ahead(j) = {"video"} BY <1>1, <1>2 DEF JobInv, Ahead
    <3>2. Exact(j, old, w, k) BY <1>b, <1>c, <2>2, <3>1 DEF Working
    <3>3. QED BY <2>1, <2>2, <3>2
  <2>3. QED BY <2>1, <2>2
<1>11. LocalInv'
  <2>1. version' \notin DOMAIN jobs' BY <1>0, <1>4
  <2>2. Labelled(local)' BY <1>0, <1>3 DEF Labelled
  <2>3. \A t \in DOMAIN local' : t[2] <= version'
    <3>1. ASSUME NEW t \in DOMAIN old PROVE t[2] <= j
      <4>1. t[2] \in Nat BY <1>1, StreamIs DEF Tracks, Submissions
      <4>2. QED BY <1>1, <1>c, <4>1 DEF JobInv, Newest
    <3>2. QED BY <1>0, <1>1, <1>3, <3>1
  <2>4. \A k \in Kinds : Exact(version, local, shareState, k)'
    <3> SUFFICES ASSUME NEW k \in Kinds PROVE Exact(version, local, shareState, k)' OBVIOUS
    <3>1. Exact(j, s, w, k)' BY <1>10
    <3>2. OfKind(local, k)' = OfKind(s, k)' BY <1>0 DEF OfKind
    <3>3. QED BY <1>0, <3>1, <3>2 DEF Exact
  <2>5. QED BY <2>1, <2>2, <2>3, <2>4 DEF LocalInv
<1>12. JobsInv'
  <2>1. \A i \in DOMAIN jobs' : i # j /\ i # version
    BY <1>4 DEF MediaInv, LocalInv
  <2>2. QED BY <1>4, <1>6, <2>1, OneJob DEF MediaInv
<1>13. SendersInv'
  <2>1. alive' => \A t \in DOMAIN local' : \E x \in DOMAIN sent' : sent'[x] = t
    BY <1>0, <1>8
  <2>2. \A x \in DOMAIN sent' : x[1] \notin DOMAIN jobs' BY <1>0, <1>4, <1>7, <1>8
  <2>3. ~alive' => DOMAIN sent' = {} BY <1>0, <1>7
  <2>4. QED BY <2>1, <2>2, <2>3 DEF SendersInv
<1>14. ASSUME ~mishap PROVE DevicesInv'
  <2>1. alive
    <3>1. jobs # Empty BY EmptyIs
    <3>2. QED BY <1>14, <3>1 DEF MediaInv, DevicesInv
  <2>2. ASSUME NEW o \in on' PROVE Held(o)'
    <3>1. /\ o \in on /\ o \notin Stopping(j, "video")
          /\ o \notin {version} \X DOMAIN local
      BY <1>0
    <3>2. o = <<o[1], o[2]>> BY <1>1, <3>1
    <3>3. o[1] \in DOMAIN jobs /\ HeldBy(o[1], o[2])
      BY <1>14, <3>1, <3>2 DEF MediaInv, DevicesInv, Held
    <3>4. CASE o[1] = j
      <4>1. Ahead(j) = {"video"} BY <1>2 DEF Ahead
      <4>2. o[2] \in DOMAIN old \/ (o[2] = <<"video", j>> /\ jobs[j].asked["video"] = "given")
        BY <1>c, <3>3, <3>4, <4>1 DEF HeldBy
      <4>3. o[2] \in DOMAIN s BY <1>3, <3>1, <3>2, <3>4, <4>2
      <4>4. QED BY <1>0, <2>1, <3>4, <4>3 DEF Held
    <3>5. CASE o[1] # j
      <4>1. HeldBy(o[1], o[2])' BY <1>4, <3>3, <3>5 DEF HeldBy, Ahead
      <4>2. QED BY <1>4, <3>3, <3>5, <4>1 DEF Held
    <3>6. QED BY <3>4, <3>5
  <2>3. \A i \in DOMAIN jobs' : jobs'[i].stage # "failed"
    BY <1>4, <1>14 DEF MediaInv, DevicesInv
  <2>4. QED BY <1>0, <2>1, <2>2, <2>3 DEF DevicesInv
<1>15. DevicesInv' BY <1>0, <1>14 DEF DevicesInv
<1>16. QED BY <1>9, <1>11, <1>12, <1>13, <1>15 DEF MediaInv
-----------------------------------------------------------------------------
(* The theorems *)

LEMMA MediaFirst == Init => MediaInv
<1> SUFFICES ASSUME Init PROVE MediaInv OBVIOUS
<1>0. /\ alive = TRUE /\ open = FALSE /\ valid = FALSE
      /\ form = Nothing /\ shareState = Nothing
      /\ local = Empty /\ version = 0 /\ shares = 0 /\ jobs = Empty
      /\ on = {} /\ sent = Empty /\ showSelf = FALSE /\ player = 0
      /\ mishap = FALSE
  BY DEF Init
<1>1. DOMAIN Empty = {} /\ Empty \in Stream BY EmptyIs
<1>2. MediaTypeOK
  <2>1. jobs \in [DOMAIN jobs -> Job] /\ sent \in [DOMAIN sent -> DOMAIN local]
    BY <1>0, <1>1 DEF Empty
  <2>2. 0 \in 0 .. shares /\ shares \in 0 .. MaxShares BY <1>0, MaxSharesAssumption
  <2>3. QED BY <1>0, <1>1, <2>1, <2>2, NothingIs DEF MediaTypeOK
<1>3. LocalInv
  <2>1. \A k \in Kinds : Exact(version, local, shareState, k)
    BY <1>0, <1>1 DEF Exact, OfKind, Nothing
  <2>2. QED BY <1>0, <1>1, <2>1 DEF LocalInv, Labelled
<1>4. JobsInv BY <1>0, <1>1 DEF JobsInv
<1>5. SendersInv BY <1>0, <1>1 DEF SendersInv
<1>6. DevicesInv BY <1>0, <1>1 DEF DevicesInv
<1>7. QED BY <1>2, <1>3, <1>4, <1>5, <1>6 DEF MediaInv

LEMMA MediaStep == MediaInv /\ [Next]_mediaVars => MediaInv'
<1> SUFFICES ASSUME MediaInv, [Next]_mediaVars PROVE MediaInv' OBVIOUS
<1>1. CASE FormStep BY <1>1, FormKeeps
<1>2. CASE OnUpdateShareState BY <1>2, SubmissionKeeps
<1>3. ASSUME NEW j \in DOMAIN jobs, AudioAnswered(j) PROVE MediaInv' BY <1>3, AudioKeeps
<1>4. ASSUME NEW j \in DOMAIN jobs, VideoAnswered(j) PROVE MediaInv' BY <1>4, VideoKeeps
<1>5. ASSUME NEW j \in DOMAIN jobs, RequestFailed(j) PROVE MediaInv' BY <1>5, FailureKeeps
<1>6. ASSUME NEW j \in DOMAIN jobs, NEW k \in Kinds, Given(j, k) PROVE MediaInv'
  BY <1>6, AnswerKeeps DEF Given
<1>7. ASSUME NEW j \in DOMAIN jobs, NEW k \in Kinds, Denied(j, k) PROVE MediaInv'
  BY <1>7, AnswerKeeps DEF Denied
<1>8. CASE Destroy BY <1>8, DestroyKeeps
<1>9. CASE UNCHANGED mediaVars
  <2>1. /\ Aside /\ UNCHANGED <<open, form, valid, showSelf, player>>
    BY <1>9 DEF mediaVars, formVars, streamVars, jobVars, viewVars, Aside
  <2>2. QED BY <2>1, AsideKeeps DEF MediaInv, MediaTypeOK
<1>10. QED
  BY <1>1, <1>2, <1>3, <1>4, <1>5, <1>6, <1>7, <1>8, <1>9 DEF Next, JobStep

LEMMA MediaAlways == Spec => []MediaInv
BY MediaFirst, MediaStep, PTL DEF Spec

\* Whatever is submitted, answered, refused or left, in any order, the form, the
\* share state, the streams, the senders and the own player are what their
\* types say.
THEOREM MediaTypeCorrect == Spec => []MediaTypeOK
BY MediaAlways, PTL DEF MediaInv

LEMMA StateFollows == ASSUME MediaInv PROVE StreamMatchesState
<1> SUFFICES ASSUME alive PROVE StreamMatchesState BY DEF StreamMatchesState
<1>0. local \in Stream /\ shareState \in ShareState /\ Labelled(local)
  BY DEF MediaInv, MediaTypeOK, LocalInv
<1>1. \A k \in Kinds : Exact(version, local, shareState, k) BY DEF MediaInv, LocalInv
<1>2. ASSUME NEW t \in DOMAIN local PROVE t[1] \in Kinds /\ t \in OfKind(local, t[1])
  BY <1>0, StreamIs DEF Tracks, OfKind
<1>3. ASSUME NEW t \in LiveIn(version, local)
      PROVE  /\ t[1] \in Kinds /\ local[t] = shareState[t[1]] /\ shareState[t[1]] # None
             /\ \A u \in LiveIn(version, local) : u[1] = t[1] => u = t
  <2>1. t \in DOMAIN local /\ <<version, t>> \in on BY DEF LiveIn
  <2>2. t[1] \in Kinds /\ t \in OfKind(local, t[1]) BY <1>2, <2>1
  <2>3. shareState[t[1]] # None BY <1>1, <2>2 DEF Exact
  <2>4. PICK v \in OfKind(local, t[1]) :
          /\ local[v] = shareState[t[1]]
          /\ \A u \in OfKind(local, t[1]) : <<version, u>> \in on => u = v
    BY <1>1, <2>2, <2>3 DEF Exact
  <2>5. QED BY <2>1, <2>2, <2>3, <2>4 DEF LiveIn, OfKind
<1>4. \A t \in LiveIn(version, local) : local[t] \in Of(t[1])
  BY <1>0 DEF LiveIn, Labelled
<1>5. ASSUME NEW k \in Kinds, shareState[k] # None
      PROVE  \E t \in LiveIn(version, local) : local[t] = shareState[k]
  BY <1>1, <1>5 DEF Exact, LiveIn, OfKind
<1>6. {local[t] : t \in LiveIn(version, local)} = {shareState[k] : k \in Kinds} \ {None}
  BY <1>3, <1>5
<1>7. ASSUME NEW t \in LiveIn(version, local), NEW u \in LiveIn(version, local),
             local[t] = local[u]
      PROVE  t = u
  <2>1. t[1] \in Kinds /\ u[1] \in Kinds BY <1>3
  <2>2. t[1] = u[1] BY <1>4, <1>7, <2>1, SourcesAssumption DEF Of, Kinds
  <2>3. QED BY <1>3, <2>2
<1>8. local = Empty <=> shareState = Nothing
  <2>1. ASSUME local = Empty PROVE shareState = Nothing
    <3>1. LiveIn(version, local) = {} BY <2>1, EmptyIs DEF LiveIn
    <3>2. \A k \in Kinds : shareState[k] = None BY <1>5, <3>1
    <3>3. QED BY <1>0, <3>2, StatesAre DEF Nothing
  <2>2. ASSUME shareState = Nothing PROVE local = Empty
    <3>1. \A k \in Kinds : OfKind(local, k) = {} BY <1>1, <2>2 DEF Exact, Nothing
    <3>2. DOMAIN local = {} BY <1>2, <3>1
    <3>3. QED BY <1>0, <3>2, NoDomain
  <2>3. QED BY <2>1, <2>2
<1>9. QED BY <1>6, <1>7, <1>8 DEF StreamMatchesState

\* However submissions overlap, the share state names exactly the sources whose
\* live tracks are in the local stream, each source once, and there is a stream
\* only when something is shared (onUpdateShareState, _updateLocalStream).
THEOREM StreamFollowsState == Spec => []StreamMatchesState
BY MediaAlways, StateFollows, PTL

LEMMA TracksHaveSenders == ASSUME MediaInv PROVE LiveTracksSent
BY DEF MediaInv, SendersInv, LiveTracksSent, LiveIn

\* A peer is sent every live track of the local stream, whatever streams came
\* before (OtherPeer.mergeStream).
THEOREM TracksCarried == Spec => []LiveTracksSent
BY MediaAlways, TracksHaveSenders, PTL

LEMMA DevicesOff == ASSUME MediaInv PROVE NothingLeftOn
<1> SUFFICES ASSUME ~mishap, jobs = Empty
             PROVE  on = IF alive THEN {version} \X LiveIn(version, local) ELSE {}
  BY DEF NothingLeftOn
<1>1. DOMAIN jobs = {} BY EmptyIs
<1>2. on \subseteq (1 .. shares) \X Tracks BY DEF MediaInv, MediaTypeOK
<1>3. ASSUME NEW o \in on PROVE alive /\ o = <<version, o[2]>> /\ o[2] \in DOMAIN local
  <2>1. Held(o) BY DEF MediaInv, DevicesInv
  <2>2. alive /\ o[1] = version /\ o[2] \in DOMAIN local BY <1>1, <2>1 DEF Held
  <2>3. o = <<o[1], o[2]>> BY <1>2
  <2>4. QED BY <2>2, <2>3
<1>4. CASE alive
  <2>1. on = {version} \X LiveIn(version, local) BY <1>3 DEF LiveIn
  <2>2. QED BY <1>4, <2>1
<1>5. CASE ~alive BY <1>3, <1>5
<1>6. QED BY <1>4, <1>5

\* Unless a request failed or was left pending by the page, no camera, microphone
\* or screen capture stays on but for the local stream: every clone, every given
\* and every replaced track has been stopped.
THEOREM DevicesReleased == Spec => []NothingLeftOn
BY MediaAlways, DevicesOff, PTL
=============================================================================
