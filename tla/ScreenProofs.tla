---------------------------- MODULE ScreenProofs ----------------------------
(***************************************************************************)
(* What the capture screen loses, and when: for any number of sacks,        *)
(* pickups, collectors, taps and renders, each property of the evidence and *)
(* of the session holds as long as the meetings it names did not happen.    *)
(***************************************************************************)
EXTENDS MCCaptureScreen, TLAPS, FiniteSetTheorems

-----------------------------------------------------------------------------
(* The inductive invariant                                                 *)

\* How far a tap has come says whether it is recorded, and where.
TapOK(tap) ==
    /\ tap.at \in {"coding", "over"} => tap.landed
    /\ tap.at \in {"untapped", "storing", "collecting"} => ~ tap.landed
    /\ tap.at = "storing" => tap.job = None
    /\ tap.at = "collecting" => tap.job # None
    /\ tap.at = "failed" /\ tap.landed => tap.job # None

Idle == Committing = {}

\* What is met is remembered.
Remembered ==
    /\ "taps" \notin met => \A k, l \in Committing : k = l
    /\ "commit and render" \notin met => Idle \/ ~ Rendering
    /\ "commit and photo" \notin met => Idle \/ readings = {}
    /\ "lost answer" \notin met =>
         \A k \in 1..MaxTaps : taps[k].job # None => ~ (taps[k].at = "failed" /\ taps[k].landed)

\* A commit has hold of the photo on the screen, unless another commit has cleared it.
PhotoOK == \A k \in Committing : photo \in {None, taps[k].photo}

\* The photo is of the sack at the scale, and gone once the sack is said to be recorded.
PhotoAtHand ==
    /\ photo \in {None, sack} /\ readings \subseteq {sack}
    /\ Told => photo = None /\ readings = {}

\* A commit is of the sack at the scale, which is not recorded before.
SackOK ==
    /\ PhotoAtHand
    /\ \A k \in Committing : taps[k].photo = sack /\ ~ Told
    /\ \A k, l \in 1..MaxTaps :
         taps[k].landed /\ taps[l].landed /\ taps[k].photo = taps[l].photo => k = l

\* So is the weight, in the field and in every render under way.
WeightAtHand ==
    /\ weight \in {None, sack}
    /\ Told => weight = None
    /\ \A i \in 1..MaxRenders : renders[i] # None =>
         renders[i].weight \in {None, sack} /\ (Told => renders[i].weight = None)

\* A commit whose field is gone is that of a collector who signed out, and nothing can be
\* typed meanwhile.
EvidenceOK ==
    /\ PhotoAtHand /\ WeightAtHand
    /\ \A k \in Committing : ~ taps[k].attached => page \notin Collectors /\ weight = None
    /\ EvidenceIsOfOneSack

\* A phone that is signed out waits for nothing, and every render under way is of the
\* session.
SessionOK ==
    /\ PageShowsSession /\ NothingToInherit
    /\ session = None => ~ Awaiting
    /\ \A i \in 1..MaxRenders : renders[i] # None => renders[i].by = session

TapsOK == \A k \in 1..MaxTaps : TapOK(taps[k])

ScreenInv == TypeOK /\ TapsOK /\ ActiveJobIsListed

\* Each of them as long as what it names was not met.
MetInv ==
    /\ Meeting \subseteq met
    /\ {"commit and render", "commit and photo"} \cap met = {} => EvidenceOK
    /\ {"taps", "commit and photo", "lost answer"} \cap met = {} => SackOK
    /\ "commit and photo" \notin met => PhotoOK
    /\ "session and handler" \notin met => SessionOK

Inv == ScreenInv /\ MetInv

-----------------------------------------------------------------------------
(* Taps and renders                                                        *)

LEMMA TapFields ==
    ASSUME TypeOK, NEW k \in 1..MaxTaps
    PROVE  /\ taps[k] \in Tap
           /\ taps[k].weight \in Sacks \cup {None} /\ taps[k].photo \in Sacks \cup {None}
           /\ taps[k].job \in Jobs \cup {None} /\ taps[k].landed \in BOOLEAN
           /\ taps[k].attached \in BOOLEAN
<1>1. taps[k] \in Tap
  BY DEF TypeOK
<1> QED
  BY <1>1 DEF Tap

\* What a step that sets one tap has to show of it.
LEMMA OneTapSet ==
    ASSUME TypeOK, TapsOK, NEW k \in 1..MaxTaps, NEW tap \in Tap, TapOK(tap),
           taps' = [taps EXCEPT ![k] = tap]
    PROVE  /\ taps' \in [1..MaxTaps -> Tap] /\ TapsOK'
           /\ \A l \in 1..MaxTaps : taps'[l] = IF l = k THEN tap ELSE taps[l]
<1>1. taps' \in [1..MaxTaps -> Tap]
  BY DEF TypeOK
<1>2. \A l \in 1..MaxTaps : taps'[l] = IF l = k THEN tap ELSE taps[l]
  BY DEF TypeOK
<1>3. TapsOK'
  BY <1>2 DEF TapsOK, TapOK
<1> QED
  BY <1>1, <1>2, <1>3

\* A tap keeps all but, perhaps, its field.
Stays(k) ==
    /\ taps'[k].at = taps[k].at /\ taps'[k].weight = taps[k].weight
    /\ taps'[k].photo = taps[k].photo /\ taps'[k].job = taps[k].job
    /\ taps'[k].landed = taps[k].landed

LEMMA DetachedStays ==
    ASSUME TypeOK, TapsOK, taps' = Detached
    PROVE  /\ taps' \in [1..MaxTaps -> Tap] /\ TapsOK'
           /\ \A k \in 1..MaxTaps : Stays(k)
<1>1. ASSUME NEW k \in 1..MaxTaps
      PROVE  taps'[k] \in Tap /\ Stays(k)
  <2>1. taps'[k] = [taps[k] EXCEPT !.attached = FALSE]
    BY DEF Detached
  <2>2. taps[k] \in Tap
    BY TapFields
  <2> QED
    BY <2>1, <2>2 DEF Tap, Stays
<1>2. taps' \in [1..MaxTaps -> Tap]
  BY <1>1 DEF Detached
<1>3. TapsOK'
  BY <1>1 DEF TapsOK, TapOK, Stays
<1> QED
  BY <1>1, <1>2, <1>3

\* Renders go on as they are, but for one that may begin: of collector c, with what was
\* typed.
Rerenders(c, typed) ==
    /\ renders' \in [1..MaxRenders -> Render \cup {None}]
    /\ \A i \in 1..MaxRenders :
         \/ renders'[i] = renders[i]
         \/ renders'[i] \in Render /\ renders'[i].by = c /\ renders'[i].weight = typed

LEMMA Started ==
    ASSUME TypeOK, NEW c \in Collectors, NEW typed \in Sacks \cup {None}, Free # {},
           renders' = [renders EXCEPT ![CHOOSE i \in Free : TRUE] = [by |-> c, weight |-> typed]]
    PROVE  Rerenders(c, typed) /\ Rendering'
<1>1. PICK i \in Free : i = CHOOSE j \in Free : TRUE
  OBVIOUS
<1>2. i \in 1..MaxRenders
  BY DEF Free
<1>3. PICK r : r = [by |-> c, weight |-> typed]
  OBVIOUS
<1>4. r \in Render /\ r.by = c /\ r.weight = typed
  BY <1>3 DEF Render
<1>5. renders' = [renders EXCEPT ![i] = r]
  BY <1>1, <1>3
<1>6. Rerenders(c, typed)
  BY <1>2, <1>4, <1>5 DEF TypeOK, Rerenders
<1>7. renders'[i] = r
  BY <1>2, <1>5 DEF TypeOK
<1>8. Rendering'
  BY <1>2, <1>4, <1>7, NoRenderAssumption DEF Rendering
<1> QED
  BY <1>6, <1>8

LEMMA Repainted ==
    ASSUME TypeOK, NEW typed \in Sacks \cup {None}, Repaints(typed)
    PROVE  /\ Rerenders(session, typed)
           /\ session # None => page' = page /\ Rendering'
           /\ session = None => page' = "sign in" /\ renders' = renders
<1>1. CASE session # None
  <2>1. session \in Collectors
    BY <1>1 DEF TypeOK
  <2> QED
    BY <1>1, <2>1, Started DEF Repaints, StartsRender
<1>2. CASE session = None
  BY <1>2 DEF Repaints, Rerenders, TypeOK
<1> QED
  BY <1>1, <1>2

-----------------------------------------------------------------------------
(* Types, what a tap says of itself, and the pickup that is worked          *)

LEMMA ScreenInit == Init => ScreenInv
<1> SUFFICES ASSUME Init PROVE ScreenInv
  OBVIOUS
<1>1. Untapped \in Tap /\ TapOK(Untapped)
  BY DEF Untapped, Tap, TapOK
<1>s. signOuts \in 0..MaxSignOuts
  <2>1. signOuts = 0 /\ MaxSignOuts \in Nat
    BY ScreenAssumption DEF Init
  <2> QED
    BY <2>1
<1>p. page \in Collectors \cup {"sign in", "dead"}
  BY DEF Init
<1>2. TypeOK
  BY <1>1, <1>s, <1>p DEF Init, TypeOK
<1>3. TapsOK
  BY <1>1 DEF Init, TapsOK
<1> QED
  BY <1>2, <1>3 DEF Init, ScreenInv, ActiveJobIsListed

\* Handlers that may only start a render.
LEMMA RepaintTypes ==
    ASSUME ScreenInv, NEW typed \in Sacks \cup {None}, Repaints(typed)
    PROVE  /\ renders' \in [1..MaxRenders -> Render \cup {None}]
           /\ page' \in Collectors \cup {"sign in", "dead"}
BY Repainted DEF Rerenders, ScreenInv, TypeOK

LEMMA RefreshTypes ==
    ASSUME ScreenInv, Refresh
    PROVE  ScreenInv'
<1>1. session \in Collectors /\ weight \in Sacks \cup {None}
  BY DEF Refresh, ScreenInv, TypeOK
<1>2. renders' \in [1..MaxRenders -> Render \cup {None}]
  BY <1>1, Started DEF Refresh, StartsRender, Rerenders, ScreenInv
<1> QED
  BY <1>2 DEF Refresh, app, ScreenInv, TypeOK, TapsOK, ActiveJobIsListed

LEMMA FinishRenderTypes ==
    ASSUME ScreenInv, NEW i \in 1..MaxRenders, FinishRender(i)
    PROVE  ScreenInv'
<1>1. renders[i] \in Render
  BY DEF FinishRender, ScreenInv, TypeOK
<1>2. renders[i].by \in Collectors /\ renders[i].weight \in Sacks \cup {None}
  BY <1>1 DEF Render
<1>3. page' \in Collectors \cup {"sign in", "dead"} /\ weight' \in Sacks \cup {None}
  BY <1>2 DEF FinishRender, Carried
<1>4. taps' \in [1..MaxTaps -> Tap] /\ TapsOK'
  BY DetachedStays DEF FinishRender, ScreenInv
<1>5. renders' \in [1..MaxRenders -> Render \cup {None}]
  BY DEF FinishRender, ScreenInv, TypeOK
<1> QED
  BY <1>3, <1>4, <1>5 DEF FinishRender, app, ScreenInv, TypeOK, ActiveJobIsListed

LEMMA EvidenceTypes ==
    ASSUME ScreenInv,
           \/ Type \/ Shoot
           \/ \E s \in Sacks : NextSack(s) \/ \E readable \in BOOLEAN : ReadPhoto(s, readable)
    PROVE  ScreenInv'
<1>1. CASE Type
  BY <1>1 DEF Type, app, awaiting, ScreenInv, TypeOK, TapsOK, ActiveJobIsListed
<1>2. CASE Shoot
  BY <1>2 DEF Shoot, ScreenInv, TypeOK, TapsOK, ActiveJobIsListed
<1>3. ASSUME NEW s \in Sacks, NextSack(s)
      PROVE  ScreenInv'
  BY <1>3 DEF NextSack, app, awaiting, ScreenInv, TypeOK, TapsOK, ActiveJobIsListed
<1>4. ASSUME NEW s \in Sacks, NEW readable \in BOOLEAN, ReadPhoto(s, readable)
      PROVE  ScreenInv'
  <2>1. photo' \in Sacks \cup {None} /\ readings' \subseteq Sacks
    BY <1>4 DEF ReadPhoto, ScreenInv, TypeOK
  <2> QED
    BY <1>4, <2>1 DEF ReadPhoto, ScreenInv, TypeOK, TapsOK, ActiveJobIsListed
<1> QED
  BY <1>1, <1>2, <1>3, <1>4

\* The tap a commit() begins with.
LEMMA CommitTap ==
    ASSUME ScreenInv, NEW k \in 1..MaxTaps, Commit(k)
    PROVE  \E tap \in Tap :
             /\ TapOK(tap) /\ taps' = [taps EXCEPT ![k] = tap]
             /\ tap.at \in {"storing", "collecting"} /\ tap.attached /\ ~ tap.landed
             /\ tap.weight = weight /\ tap.photo = photo
<1>1. PICK tap : tap = [at |-> IF activeJob = None THEN "storing" ELSE "collecting",
                        weight |-> weight, photo |-> photo, by |-> session, job |-> activeJob,
                        attached |-> TRUE, landed |-> FALSE]
  OBVIOUS
<1>2. tap \in Tap /\ TapOK(tap)
  BY <1>1 DEF Tap, TapOK, ScreenInv, TypeOK
<1>3. taps' = [taps EXCEPT ![k] = tap]
  BY <1>1 DEF Commit
<1> QED
  BY <1>1, <1>2, <1>3

\* The tap that enqueue() leaves.
LEMMA EnqueueTap ==
    ASSUME ScreenInv, NEW k \in 1..MaxTaps, NEW room \in BOOLEAN, Enqueue(k, room)
    PROVE  \E tap \in Tap :
             /\ TapOK(tap) /\ taps' = [taps EXCEPT ![k] = tap]
             /\ tap.at = (IF room THEN "coding" ELSE "failed") /\ tap.landed = room
             /\ tap.weight = taps[k].weight /\ tap.photo = taps[k].photo
             /\ tap.job = taps[k].job /\ tap.attached = taps[k].attached
<1>1. PICK tap : tap = [taps[k] EXCEPT !.at = IF room THEN "coding" ELSE "failed", !.landed = room]
  OBVIOUS
<1>2. taps[k] \in Tap /\ TapOK(taps[k]) /\ taps[k].at = "storing"
  BY TapFields DEF ScreenInv, TapsOK, Enqueue
<1>3. tap \in Tap
  BY <1>1, <1>2 DEF Tap
<1>4. /\ tap.at = (IF room THEN "coding" ELSE "failed") /\ tap.landed = room
      /\ tap.weight = taps[k].weight /\ tap.photo = taps[k].photo
      /\ tap.job = taps[k].job /\ tap.attached = taps[k].attached
  BY <1>1, <1>2 DEF Tap
<1>5. TapOK(tap)
  BY <1>2, <1>4 DEF TapOK
<1>6. taps' = [taps EXCEPT ![k] = tap]
  BY <1>1 DEF Enqueue, ScreenInv, TypeOK
<1> QED
  BY <1>3, <1>4, <1>5, <1>6

\* The tap that a collection leaves, answered in time or not.
LEMMA CollectTap ==
    ASSUME ScreenInv, NEW k \in 1..MaxTaps, Collect(k)
    PROVE  \E tap \in Tap :
             /\ TapOK(tap) /\ taps' = [taps EXCEPT ![k] = tap]
             /\ tap.at = (IF taps[k].at = "collecting" THEN "coding" ELSE "failed") /\ tap.landed
             /\ tap.weight = taps[k].weight /\ tap.photo = taps[k].photo
             /\ tap.job = taps[k].job /\ tap.attached = taps[k].attached
<1>1. PICK tap : tap = [taps[k] EXCEPT !.at = IF @ = "collecting" THEN "coding" ELSE @, !.landed = TRUE]
  OBVIOUS
<1>2. taps[k] \in Tap /\ TapOK(taps[k]) /\ taps[k].at \in {"collecting", "failed"} /\ taps[k].job # None
  BY TapFields DEF ScreenInv, TapsOK, Collect
<1>3. tap \in Tap
  BY <1>1, <1>2 DEF Tap
<1>4. /\ tap.at = (IF taps[k].at = "collecting" THEN "coding" ELSE "failed") /\ tap.landed = TRUE
      /\ tap.weight = taps[k].weight /\ tap.photo = taps[k].photo
      /\ tap.job = taps[k].job /\ tap.attached = taps[k].attached
  BY <1>1, <1>2 DEF Tap
<1>5. TapOK(tap)
  BY <1>2, <1>4 DEF TapOK
<1>6. taps' = [taps EXCEPT ![k] = tap]
  BY <1>1 DEF Collect, ScreenInv, TypeOK
<1> QED
  BY <1>3, <1>4, <1>5, <1>6

\* The tap of a handler that is over, whether it failed or finished.
LEMMA EndedTap ==
    ASSUME ScreenInv, NEW k \in 1..MaxTaps, NEW end \in {"failed", "over"},
           \/ CollectFails(k) /\ end = "failed"
           \/ FinishCommit(k) /\ end = "over"
    PROVE  \E tap \in Tap :
             /\ TapOK(tap) /\ taps' = [taps EXCEPT ![k] = tap]
             /\ tap.at = end /\ tap.landed = taps[k].landed
             /\ tap.weight = taps[k].weight /\ tap.photo = taps[k].photo
             /\ tap.job = taps[k].job /\ tap.attached = taps[k].attached
<1>1. PICK tap : tap = [taps[k] EXCEPT !.at = end]
  OBVIOUS
<1>2. /\ taps[k] \in Tap /\ TapOK(taps[k])
      /\ end = "failed" => taps[k].job # None
      /\ end = "over" => taps[k].at = "coding"
  BY TapFields DEF ScreenInv, TapsOK, TapOK, CollectFails, FinishCommit
<1>3. tap \in Tap
  BY <1>1, <1>2 DEF Tap
<1>4. /\ tap.at = end /\ tap.landed = taps[k].landed
      /\ tap.weight = taps[k].weight /\ tap.photo = taps[k].photo
      /\ tap.job = taps[k].job /\ tap.attached = taps[k].attached
  BY <1>1, <1>2 DEF Tap
<1>5. TapOK(tap)
  BY <1>2, <1>4 DEF TapOK
<1>6. taps' = [taps EXCEPT ![k] = tap]
  BY <1>1 DEF CollectFails, FinishCommit, ScreenInv, TypeOK
<1> QED
  BY <1>3, <1>4, <1>5, <1>6

LEMMA CommitTypes ==
    ASSUME ScreenInv, NEW k \in 1..MaxTaps,
           \/ Commit(k) \/ (\E room \in BOOLEAN : Enqueue(k, room))
           \/ Collect(k) \/ CollectFails(k) \/ FinishCommit(k)
    PROVE  ScreenInv'
<1>1. taps' \in [1..MaxTaps -> Tap] /\ TapsOK'
  <2>1. PICK tap \in Tap : TapOK(tap) /\ taps' = [taps EXCEPT ![k] = tap]
    <3>1. CASE \E room \in BOOLEAN : Enqueue(k, room)
      <4>1. PICK room \in BOOLEAN : Enqueue(k, room)
        BY <3>1
      <4> QED
        BY <4>1, EnqueueTap
    <3>2. CASE CollectFails(k)
      <4> DEFINE end == "failed"
      <4>1. end \in {"failed", "over"} /\ (CollectFails(k) /\ end = "failed")
        BY <3>2
      <4> HIDE DEF end
      <4> QED
        BY <4>1, EndedTap
    <3>3. CASE FinishCommit(k)
      <4> DEFINE end == "over"
      <4>1. /\ end \in {"failed", "over"}
            /\ FinishCommit(k) /\ end = "over"
        BY <3>3
      <4> HIDE DEF end
      <4> QED
        BY <4>1, EndedTap
    <3> QED
      BY <3>1, <3>2, <3>3, CommitTap, CollectTap
  <2> QED
    BY <2>1, OneTapSet DEF ScreenInv
<1>2. CASE Commit(k)
  BY <1>1, <1>2 DEF Commit, app, ScreenInv, TypeOK, ActiveJobIsListed
<1>3. ASSUME NEW room \in BOOLEAN, Enqueue(k, room)
      PROVE  ScreenInv'
  BY <1>1, <1>3 DEF Enqueue, app, ScreenInv, TypeOK, ActiveJobIsListed
<1>4. CASE Collect(k)
  BY <1>1, <1>4 DEF Collect, app, ScreenInv, TypeOK, ActiveJobIsListed
<1>5. CASE CollectFails(k)
  <2>1. /\ renders' \in [1..MaxRenders -> Render \cup {None}]
        /\ page' \in Collectors \cup {"sign in", "dead"}
    BY <1>5, RepaintTypes DEF CollectFails, ScreenInv, TypeOK
  <2> QED
    BY <1>1, <1>5, <2>1 DEF CollectFails, PhotoAfterFailure, ScreenInv, TypeOK, ActiveJobIsListed
<1>6. CASE FinishCommit(k)
  <2>1. weight' \in Sacks \cup {None}
    BY <1>6 DEF FinishCommit, WeightAfter, ScreenInv, TypeOK
  <2>2. /\ renders' \in [1..MaxRenders -> Render \cup {None}]
        /\ page' \in Collectors \cup {"sign in", "dead"}
    BY <1>6, <2>1, RepaintTypes DEF FinishCommit
  <2>3. /\ jobs' \subseteq Jobs /\ activeJob' \in Jobs \cup {None} /\ doorProof' \in Jobs \cup {None}
        /\ lastProof' \in 1..MaxTaps \cup {None}
        /\ ActiveJobIsListed'
    <3>1. taps[k].job \in Jobs \cup {None}
      BY TapFields DEF ScreenInv
    <3>2. CASE taps[k].job = None
      <4>1. lastProof' = k /\ UNCHANGED <<jobs, activeJob, doorProof>>
        BY <1>6, <3>2 DEF FinishCommit
      <4> QED
        BY <4>1 DEF ScreenInv, TypeOK, ActiveJobIsListed
    <3>3. CASE taps[k].job # None
      BY <1>6, <3>1, <3>3 DEF FinishCommit, ScreenInv, TypeOK, ActiveJobIsListed
    <3> QED
      BY <3>2, <3>3
  <2> QED
    BY <1>1, <1>6, <2>1, <2>2, <2>3 DEF FinishCommit, PhotoAfter, ScreenInv, TypeOK
<1> QED
  BY <1>2, <1>3, <1>4, <1>5, <1>6

Pickups ==
    \/ \E j \in Jobs : SelectJob(j) \/ \E c \in Collectors \cup {None} : Dispatch(j, c)
    \/ StartPoll \/ \E p \in polls : FinishPoll(p) \/ LosePoll(p)
    \/ DismissDoor \/ DismissProof

LEMMA PickupTypes ==
    ASSUME ScreenInv, Pickups
    PROVE  ScreenInv'
<1>0. weight \in Sacks \cup {None}
  BY DEF ScreenInv, TypeOK
<1>1. ASSUME NEW j \in Jobs, SelectJob(j)
      PROVE  ScreenInv'
  BY <1>0, <1>1, RepaintTypes DEF SelectJob, ScreenInv, TypeOK, TapsOK, ActiveJobIsListed
<1>2. ASSUME NEW j \in Jobs, NEW c \in Collectors \cup {None}, Dispatch(j, c)
      PROVE  ScreenInv'
  BY <1>2 DEF Dispatch, app, awaiting, ScreenInv, TypeOK, TapsOK, ActiveJobIsListed
<1>3. CASE StartPoll
  BY <1>3 DEF StartPoll, app, Poll, ScreenInv, TypeOK, TapsOK, ActiveJobIsListed
<1>4. ASSUME NEW p \in polls, FinishPoll(p)
      PROVE  ScreenInv'
  BY <1>0, <1>4, RepaintTypes
     DEF FinishPoll, KeptActive, Poll, ScreenInv, TypeOK, TapsOK, ActiveJobIsListed
<1>5. ASSUME NEW p \in polls, LosePoll(p)
      PROVE  ScreenInv'
  BY <1>0, <1>5, RepaintTypes DEF LosePoll, app, ScreenInv, TypeOK, TapsOK, ActiveJobIsListed
<1>6. CASE DismissDoor
  BY <1>0, <1>6, RepaintTypes DEF DismissDoor, ScreenInv, TypeOK, TapsOK, ActiveJobIsListed
<1>7. CASE DismissProof
  BY <1>0, <1>7, RepaintTypes DEF DismissProof, ScreenInv, TypeOK, TapsOK, ActiveJobIsListed
<1> QED
  BY <1>1, <1>2, <1>3, <1>4, <1>5, <1>6, <1>7 DEF Pickups

LEMMA ShowTypes ==
    ASSUME ScreenInv, NEW k \in 1..MaxTaps, StartShow(k) \/ FinishShow(k)
    PROVE  ScreenInv'
<1>1. CASE StartShow(k)
  BY <1>1 DEF StartShow, app, ScreenInv, TypeOK, TapsOK, ActiveJobIsListed
<1>2. CASE FinishShow(k)
  <2>1. /\ renders' \in [1..MaxRenders -> Render \cup {None}]
        /\ page' \in Collectors \cup {"sign in", "dead"}
    BY <1>2, RepaintTypes DEF FinishShow, ScreenInv, TypeOK
  <2> QED
    BY <1>2, <2>1 DEF FinishShow, ScreenInv, TypeOK, TapsOK, ActiveJobIsListed
<1> QED
  BY <1>1, <1>2

LEMMA SignTypes ==
    ASSUME ScreenInv, SignOut \/ \E c \in Collectors : SignIn(c)
    PROVE  ScreenInv'
<1>1. CASE SignOut
  <2>1. taps' \in [1..MaxTaps -> Tap] /\ TapsOK'
    BY <1>1, DetachedStays DEF SignOut, ScreenInv
  <2>2. signOuts' \in 0..MaxSignOuts
    <3>1. /\ signOuts \in 0..MaxSignOuts /\ MaxSignOuts \in Nat
          /\ signOuts < MaxSignOuts /\ signOuts' = signOuts + 1
      BY <1>1, ScreenAssumption DEF SignOut, ScreenInv, TypeOK
    <3> QED
      BY <3>1
  <2> QED
    BY <1>1, <2>1, <2>2 DEF SignOut, JobsAfterSignOut, ScreenInv, TypeOK, ActiveJobIsListed
<1>2. ASSUME NEW c \in Collectors, SignIn(c)
      PROVE  ScreenInv'
  <2>1. renders' \in [1..MaxRenders -> Render \cup {None}]
    BY <1>2, Started DEF SignIn, Rerenders, ScreenInv
  <2> QED
    BY <1>2, <2>1 DEF SignIn, ScreenInv, TypeOK, TapsOK, ActiveJobIsListed
<1> QED
  BY <1>1, <1>2

Signing == SignOut \/ \E c \in Collectors : SignIn(c)

Evidence ==
    \/ Type \/ Shoot
    \/ \E s \in Sacks : NextSack(s) \/ \E readable \in BOOLEAN : ReadPhoto(s, readable)

Committed(k) ==
    \/ Commit(k) \/ (\E room \in BOOLEAN : Enqueue(k, room))
    \/ Collect(k) \/ CollectFails(k) \/ FinishCommit(k)

LEMMA ScreenStep ==
    ASSUME ScreenInv, Next
    PROVE  ScreenInv'
BY RefreshTypes, FinishRenderTypes, EvidenceTypes, CommitTypes, PickupTypes, ShowTypes, SignTypes
   DEF Next, Pickups

-----------------------------------------------------------------------------
(* Meetings                                                                *)

LEMMA MeetingsRemembered ==
    ASSUME TypeOK, Meeting \subseteq met
    PROVE  Remembered
<1>0. MaxTaps \in Nat
  BY ScreenAssumption
<1>1. IsFiniteSet(1..MaxTaps)
  <2>1. 1 \in Int /\ MaxTaps \in Int
    BY <1>0
  <2> QED
    BY <2>1, FS_Interval
<1>2. IsFiniteSet(Committing) /\ Cardinality(Committing) \in Nat
  BY <1>1, FS_Subset, FS_CardinalityType DEF Committing
<1>3. "taps" \notin met => \A k, l \in Committing : k = l
  <2>1. SUFFICES ASSUME "taps" \notin met, NEW k \in Committing, NEW l \in Committing, k # l
                 PROVE  FALSE
    OBVIOUS
  <2>2. ~ Cardinality(Committing) > 1
    BY <2>1 DEF Meeting
  <2>3. IsFiniteSet({k}) /\ Cardinality({k}) = 1
    BY FS_Singleton
  <2>4. Cardinality({k} \cup {l}) = Cardinality({k}) + 1
    BY <2>1, <2>3, FS_AddElement
  <2>5. {k} \cup {l} \subseteq Committing
    OBVIOUS
  <2>6. Cardinality({k} \cup {l}) =< Cardinality(Committing)
    BY <1>2, <2>5, FS_Subset
  <2> QED
    BY <1>2, <2>2, <2>3, <2>4, <2>6
<1>4. "commit and render" \notin met => Idle \/ ~ Rendering
  BY DEF Meeting, Idle
<1>5. "commit and photo" \notin met => Idle \/ readings = {}
  BY DEF Meeting, Idle
<1>6. "lost answer" \notin met =>
        \A k \in 1..MaxTaps : taps[k].job # None => ~ (taps[k].at = "failed" /\ taps[k].landed)
  BY DEF Meeting
<1> QED
  BY <1>3, <1>4, <1>5, <1>6 DEF Remembered

\* The handlers that touch neither the evidence nor how far a commit has come.
Aside ==
    \/ Refresh \/ (\E i \in 1..MaxRenders : FinishRender(i))
    \/ Pickups
    \/ \E k \in 1..MaxTaps : StartShow(k) \/ FinishShow(k)
    \/ Signing

LEMMA NextIs == Next <=> Aside \/ Evidence \/ \E k \in 1..MaxTaps : Committed(k)
BY DEF Next, Aside, Evidence, Committed, Pickups, Signing

\* What they may do to the weight, to renders and to the page.
Keeps ==
    /\ UNCHANGED <<sack, photo, readings>>
    /\ \A k \in 1..MaxTaps : Stays(k)
    /\ \/ weight' \in {weight, None}
       \/ \E i \in 1..MaxRenders : renders[i] # None /\ weight' = renders[i].weight
    /\ \A i \in 1..MaxRenders :
         \/ renders'[i] = renders[i]
         \/ renders'[i] = None
         \/ renders'[i].weight \in {weight, None}
    /\ ~ Rendering /\ ~ Rendering' =>
         \/ taps' = taps /\ weight' = weight /\ page' \in {page, "sign in"}
         \/ weight' = None /\ page' = "sign in"

LEMMA RepaintKeeps ==
    ASSUME ScreenInv, Repaints(weight), UNCHANGED <<sack, photo, weight, readings, taps>>
    PROVE  Keeps
<1>1. weight \in Sacks \cup {None}
  BY DEF ScreenInv, TypeOK
<1>2. Rerenders(session, weight) /\ (Rendering' \/ page' \in {page, "sign in"})
  BY <1>1, Repainted DEF ScreenInv
<1> QED
  BY <1>2 DEF Keeps, Stays, Rerenders

LEMMA AsideKeeps ==
    ASSUME ScreenInv, Aside
    PROVE  Keeps
<1>0. weight \in Sacks \cup {None}
  BY DEF ScreenInv, TypeOK
<1>1. CASE Refresh
  <2>1. Repaints(weight)
    BY <1>1 DEF Refresh, Repaints
  <2> QED
    BY <1>1, <2>1, RepaintKeeps DEF Refresh, app
<1>2. ASSUME NEW i \in 1..MaxRenders, FinishRender(i)
      PROVE  Keeps
  <2>1. \A k \in 1..MaxTaps : Stays(k)
    BY <1>2, DetachedStays DEF FinishRender, ScreenInv
  <2>2. Rendering
    BY <1>2 DEF FinishRender, Rendering
  <2>3. \A j \in 1..MaxRenders : renders'[j] = renders[j] \/ renders'[j] = None
    BY <1>2 DEF FinishRender, ScreenInv, TypeOK
  <2>4. weight' \in {renders[i].weight, None}
    BY <1>2 DEF FinishRender, Carried
  <2>5. renders[i] # None /\ UNCHANGED <<sack, photo, readings>>
    BY <1>2 DEF FinishRender, app
  <2> QED
    BY <2>1, <2>2, <2>3, <2>4, <2>5 DEF Keeps
<1>3. CASE Pickups
  <2>1. UNCHANGED <<sack, photo, weight, readings, taps>>
    BY <1>3 DEF Pickups, SelectJob, Dispatch, StartPoll, FinishPoll, LosePoll, DismissDoor,
                DismissProof, app, awaiting
  <2>2. Repaints(weight) \/ UNCHANGED <<page, renders>>
    BY <1>3 DEF Pickups, SelectJob, Dispatch, StartPoll, FinishPoll, LosePoll, DismissDoor,
                DismissProof, awaiting
  <2> QED
    BY <2>1, <2>2, RepaintKeeps DEF Keeps, Stays
<1>4. ASSUME NEW k \in 1..MaxTaps, StartShow(k) \/ FinishShow(k)
      PROVE  Keeps
  <2>1. UNCHANGED <<sack, photo, weight, readings, taps>>
    BY <1>4 DEF StartShow, FinishShow, app
  <2>2. Repaints(weight) \/ UNCHANGED <<page, renders>>
    BY <1>4 DEF StartShow, FinishShow
  <2> QED
    BY <2>1, <2>2, RepaintKeeps DEF Keeps, Stays
<1>5. CASE SignOut
  <2>1. \A k \in 1..MaxTaps : Stays(k)
    BY <1>5, DetachedStays DEF SignOut, ScreenInv
  <2> QED
    BY <1>5, <2>1 DEF SignOut, Keeps
<1>6. ASSUME NEW c \in Collectors, SignIn(c)
      PROVE  Keeps
  <2>1. Rerenders(c, None) /\ Rendering'
    BY <1>6, Started DEF SignIn, ScreenInv
  <2> QED
    BY <1>6, <2>1 DEF SignIn, Keeps, Stays, Rerenders
<1> QED
  BY <1>1, <1>2, <1>3, <1>4, <1>5, <1>6 DEF Aside, Signing

-----------------------------------------------------------------------------
(* Evidence                                                                *)

\* Whether the sack at the scale is said to be recorded, and which commits are under
\* way, is left alone.
LEMMA StayingStays ==
    ASSUME sack' = sack, \A k \in 1..MaxTaps : Stays(k)
    PROVE  Told' = Told /\ Committing' = Committing
BY DEF Told, Recorded, Committing, InFlight, Stays

\* One tap moves, to anything but over.
LEMMA TapMoves ==
    ASSUME ScreenInv, NEW k \in 1..MaxTaps, NEW tap \in Tap, TapOK(tap),
           taps' = [taps EXCEPT ![k] = tap], tap.at # "over", taps[k].at # "over",
           sack' = sack
    PROVE  /\ Told' = Told
           /\ \A l \in 1..MaxTaps : taps'[l] = IF l = k THEN tap ELSE taps[l]
<1>1. \A l \in 1..MaxTaps : taps'[l] = IF l = k THEN tap ELSE taps[l]
  BY OneTapSet DEF ScreenInv
<1>2. \A l \in 1..MaxTaps : taps'[l].at = "over" <=> taps[l].at = "over"
  BY <1>1
<1>3. \A l \in 1..MaxTaps : taps'[l].at = "over" => taps'[l] = taps[l]
  BY <1>1
<1> QED
  BY <1>1, <1>2, <1>3 DEF Told, Recorded

\* Neither a render nor a photo is under way during a commit.
Quiet == Idle \/ (~ Rendering /\ readings = {})

LEMMA AsideEvidence ==
    ASSUME ScreenInv, Quiet, Quiet', EvidenceOK, Aside
    PROVE  EvidenceOK'
<1>1. Keeps
  BY AsideKeeps
<1>2. Told' = Told /\ Committing' = Committing
  BY <1>1, StayingStays DEF Keeps
<1>3. PhotoAtHand'
  BY <1>1, <1>2 DEF Keeps, EvidenceOK, PhotoAtHand
<1>4. weight' \in {None, sack} /\ (Told => weight' = None)
  BY <1>1 DEF Keeps, EvidenceOK, WeightAtHand
<1>5. \A i \in 1..MaxRenders : renders'[i] # None =>
        renders'[i].weight \in {None, sack} /\ (Told => renders'[i].weight = None)
  BY <1>1 DEF Keeps, EvidenceOK, WeightAtHand
<1>6. WeightAtHand'
  BY <1>1, <1>2, <1>4, <1>5 DEF Keeps, WeightAtHand
<1>7. ASSUME NEW k \in Committing, ~ taps'[k].attached
      PROVE  page' \notin Collectors /\ weight' = None
  <2>1. ~ Rendering /\ ~ Rendering'
    BY <1>2, <1>7 DEF Quiet, Idle
  <2> QED
    BY <1>1, <1>7, <2>1, ScreenAssumption DEF Keeps, EvidenceOK
<1>8. EvidenceIsOfOneSack'
  BY <1>1 DEF Keeps, Stays, EvidenceOK, EvidenceIsOfOneSack
<1> QED
  BY <1>2, <1>3, <1>6, <1>7, <1>8 DEF EvidenceOK

LEMMA TakingEvidence ==
    ASSUME ScreenInv, EvidenceOK, Evidence
    PROVE  EvidenceOK'
<1>1. CASE Type
  <2>1. Told' = Told /\ Committing' = Committing
    BY <1>1 DEF Type, awaiting, Told, Recorded, Committing, InFlight
  <2> QED
    BY <1>1, <2>1 DEF Type, app, awaiting, OnScreen, EvidenceOK, PhotoAtHand, WeightAtHand,
                      EvidenceIsOfOneSack
<1>2. CASE Shoot
  <2>1. Told' = Told /\ Committing' = Committing
    BY <1>2 DEF Shoot, Told, Recorded, Committing, InFlight
  <2> QED
    BY <1>2, <2>1 DEF Shoot, EvidenceOK, PhotoAtHand, WeightAtHand, EvidenceIsOfOneSack
<1>3. ASSUME NEW s \in Sacks, NextSack(s)
      PROVE  EvidenceOK'
  <2>1. ~ Told' /\ Committing' = Committing
    BY <1>3 DEF NextSack, awaiting, Told, Recorded, Committing, InFlight
  <2> QED
    BY <1>3, <2>1 DEF NextSack, app, awaiting, EvidenceOK, PhotoAtHand, WeightAtHand,
                      EvidenceIsOfOneSack
<1>4. ASSUME NEW s \in Sacks, NEW readable \in BOOLEAN, ReadPhoto(s, readable)
      PROVE  EvidenceOK'
  <2>1. Told' = Told /\ Committing' = Committing
    BY <1>4 DEF ReadPhoto, Told, Recorded, Committing, InFlight
  <2>2. ~ Told /\ s = sack
    BY <1>4 DEF ReadPhoto, EvidenceOK, PhotoAtHand
  <2>3. PhotoAtHand'
    BY <1>4, <2>1, <2>2 DEF ReadPhoto, EvidenceOK, PhotoAtHand
  <2> QED
    BY <1>4, <2>1, <2>3 DEF ReadPhoto, EvidenceOK, WeightAtHand, EvidenceIsOfOneSack
<1> QED
  BY <1>1, <1>2, <1>3, <1>4 DEF Evidence

LEMMA CommitEvidence ==
    ASSUME ScreenInv, EvidenceOK, NEW k \in 1..MaxTaps, Commit(k)
    PROVE  EvidenceOK'
<1>1. PICK tap \in Tap :
        /\ TapOK(tap) /\ taps' = [taps EXCEPT ![k] = tap]
        /\ tap.at \in {"storing", "collecting"} /\ tap.attached /\ ~ tap.landed
        /\ tap.weight = weight /\ tap.photo = photo
  BY CommitTap
<1>2. taps[k].at # "over" /\ tap.at # "over" /\ sack' = sack
  BY <1>1 DEF Commit
<1>3. Told' = Told /\ \A l \in 1..MaxTaps : taps'[l] = IF l = k THEN tap ELSE taps[l]
  BY <1>1, <1>2, TapMoves
<1>4. weight = photo
  BY DEF Commit, Complete, EvidenceOK, PhotoAtHand, WeightAtHand
<1>5. EvidenceIsOfOneSack'
  BY <1>1, <1>3, <1>4 DEF EvidenceOK, EvidenceIsOfOneSack
<1>6. PhotoAtHand' /\ WeightAtHand'
  BY <1>3 DEF Commit, app, EvidenceOK, PhotoAtHand, WeightAtHand
<1>7. \A l \in Committing' : l = k \/ l \in Committing
  BY <1>3 DEF Committing, InFlight
<1>8. \A l \in Committing' : ~ taps'[l].attached => page' \notin Collectors /\ weight' = None
  BY <1>1, <1>3, <1>7 DEF Commit, EvidenceOK, Committing
<1> QED
  BY <1>5, <1>6, <1>8 DEF EvidenceOK

\* The server or the queue answers: the evidence on the page stays as it is.
LEMMA LandingEvidence ==
    ASSUME ScreenInv, EvidenceOK, NEW k \in 1..MaxTaps,
           (\E room \in BOOLEAN : Enqueue(k, room)) \/ Collect(k)
    PROVE  EvidenceOK'
<1>1. PICK tap \in Tap :
        /\ TapOK(tap) /\ taps' = [taps EXCEPT ![k] = tap]
        /\ tap.at \in {"coding", "failed"}
        /\ tap.at = "coding" => taps[k].at \in {"storing", "collecting"}
        /\ tap.weight = taps[k].weight /\ tap.photo = taps[k].photo
        /\ tap.attached = taps[k].attached
  <2>1. CASE \E room \in BOOLEAN : Enqueue(k, room)
    <3>1. PICK room \in BOOLEAN : Enqueue(k, room)
      BY <2>1
    <3>2. taps[k].at = "storing"
      BY <3>1 DEF Enqueue
    <3> QED
      BY <3>1, <3>2, EnqueueTap
  <2>2. CASE Collect(k)
    BY <2>2, CollectTap
  <2> QED
    BY <2>1, <2>2
<1>2. taps[k].at # "over" /\ tap.at # "over" /\ UNCHANGED <<sack, app, page, weight, readings, renders>>
  BY <1>1 DEF Enqueue, Collect
<1>3. Told' = Told /\ \A l \in 1..MaxTaps : taps'[l] = IF l = k THEN tap ELSE taps[l]
  BY <1>1, <1>2, TapMoves
<1>4. Committing' \subseteq Committing
  BY <1>1, <1>3 DEF Committing, InFlight
<1>5. \A l \in 1..MaxTaps : taps'[l].weight = taps[l].weight /\ taps'[l].photo = taps[l].photo
                            /\ taps'[l].attached = taps[l].attached
  BY <1>1, <1>3
<1>6. PhotoAtHand' /\ WeightAtHand'
  BY <1>2, <1>3 DEF app, EvidenceOK, PhotoAtHand, WeightAtHand
<1> QED
  BY <1>2, <1>4, <1>5, <1>6 DEF EvidenceOK, EvidenceIsOfOneSack, Committing

LEMMA FailingEvidence ==
    ASSUME ScreenInv, Quiet, Quiet', EvidenceOK, NEW k \in 1..MaxTaps, CollectFails(k)
    PROVE  EvidenceOK'
<1>0. weight \in Sacks \cup {None} /\ "failed" \in {"failed", "over"}
  BY DEF ScreenInv, TypeOK
<1>1. PICK tap \in Tap :
        /\ TapOK(tap) /\ taps' = [taps EXCEPT ![k] = tap]
        /\ tap.at = "failed"
        /\ tap.weight = taps[k].weight /\ tap.photo = taps[k].photo
        /\ tap.attached = taps[k].attached
  BY <1>0, EndedTap
<1>2. taps[k].at # "over" /\ tap.at # "over" /\ UNCHANGED <<sack, weight, photo, readings>>
  BY <1>1 DEF CollectFails, PhotoAfterFailure
<1>3. Told' = Told /\ \A l \in 1..MaxTaps : taps'[l] = IF l = k THEN tap ELSE taps[l]
  BY <1>1, <1>2, TapMoves
<1>4. Committing' \subseteq Committing
  BY <1>1, <1>3 DEF Committing, InFlight
<1>5. /\ Rerenders(session, weight)
      /\ ~ Rendering' => page' = "sign in"
  BY <1>0, Repainted DEF CollectFails, ScreenInv
<1>6. PhotoAtHand'
  BY <1>2, <1>3 DEF EvidenceOK, PhotoAtHand
<1>7. WeightAtHand'
  BY <1>2, <1>3, <1>5 DEF Rerenders, EvidenceOK, WeightAtHand
<1>8. ASSUME NEW l \in Committing', ~ taps'[l].attached
      PROVE  page' \notin Collectors /\ weight' = None
  <2>1. ~ Rendering' /\ l \in Committing /\ ~ taps[l].attached
    BY <1>1, <1>3, <1>4, <1>8 DEF Quiet, Idle, Committing
  <2> QED
    BY <1>2, <1>5, <2>1, ScreenAssumption DEF EvidenceOK
<1>9. EvidenceIsOfOneSack'
  BY <1>1, <1>3 DEF EvidenceOK, EvidenceIsOfOneSack
<1> QED
  BY <1>6, <1>7, <1>8, <1>9 DEF EvidenceOK

LEMMA FinishingEvidence ==
    ASSUME ScreenInv, Quiet, Quiet', EvidenceOK, NEW k \in 1..MaxTaps, FinishCommit(k)
    PROVE  EvidenceOK'
<1>0. "over" \in {"failed", "over"}
  OBVIOUS
<1>1. PICK tap \in Tap :
        /\ TapOK(tap) /\ taps' = [taps EXCEPT ![k] = tap]
        /\ tap.at = "over"
        /\ tap.weight = taps[k].weight /\ tap.photo = taps[k].photo
        /\ tap.attached = taps[k].attached
  BY <1>0, EndedTap
<1>2. \A l \in 1..MaxTaps : taps'[l] = IF l = k THEN tap ELSE taps[l]
  BY <1>1, OneTapSet DEF ScreenInv
<1>3. k \in Committing
  BY DEF FinishCommit, Committing, InFlight
<1>4. ~ Rendering /\ readings = {}
  BY <1>3 DEF Quiet, Idle
<1>5. weight' = None /\ photo' = None /\ readings' = {} /\ sack' = sack
  BY <1>3, <1>4 DEF FinishCommit, WeightAfter, PhotoAfter, EvidenceOK
<1>6. /\ Rerenders(session, None)
      /\ ~ Rendering' => page' = "sign in"
  <2>1. Repaints(None)
    BY <1>5 DEF FinishCommit
  <2>2. None \in Sacks \cup {None}
    OBVIOUS
  <2> QED
    BY <2>1, <2>2, Repainted DEF ScreenInv
<1>7. PhotoAtHand'
  BY <1>5 DEF PhotoAtHand
<1>8. WeightAtHand'
  BY <1>4, <1>5, <1>6 DEF Rerenders, Rendering, WeightAtHand
<1>9. ASSUME NEW l \in Committing'
      PROVE  page' \notin Collectors /\ weight' = None
  <2>1. ~ Rendering'
    BY <1>9 DEF Quiet, Idle
  <2> QED
    BY <1>5, <1>6, <2>1, ScreenAssumption
<1>10. EvidenceIsOfOneSack'
  BY <1>1, <1>2 DEF EvidenceOK, EvidenceIsOfOneSack
<1> QED
  BY <1>7, <1>8, <1>9, <1>10 DEF EvidenceOK

LEMMA EvidenceStep ==
    ASSUME ScreenInv, Quiet, Quiet', EvidenceOK, Next
    PROVE  EvidenceOK'
<1>1. ASSUME NEW k \in 1..MaxTaps, Committed(k)
      PROVE  EvidenceOK'
  BY <1>1, CommitEvidence, LandingEvidence, FailingEvidence, FinishingEvidence DEF Committed
<1> QED
  BY <1>1, NextIs, AsideEvidence, TakingEvidence

-----------------------------------------------------------------------------
(* One sack, one weigh-in                                                  *)

\* One commit at a time, no photo read during it, and no answer lost.
Solo ==
    /\ \A k, l \in Committing : k = l
    /\ Idle \/ readings = {}
    /\ \A k \in 1..MaxTaps : taps[k].job # None => ~ (taps[k].at = "failed" /\ taps[k].landed)

LEMMA AsideSack ==
    ASSUME ScreenInv, SackOK, Aside
    PROVE  SackOK'
<1>1. Keeps
  BY AsideKeeps
<1>2. Told' = Told /\ Committing' = Committing
  BY <1>1, StayingStays DEF Keeps
<1>3. PhotoAtHand'
  BY <1>1, <1>2 DEF Keeps, SackOK, PhotoAtHand
<1>4. \A k \in 1..MaxTaps : taps'[k].photo = taps[k].photo /\ taps'[k].landed = taps[k].landed
  BY <1>1 DEF Keeps, Stays
<1>5. sack' = sack /\ Committing \subseteq 1..MaxTaps
  BY <1>1 DEF Keeps, Committing
<1> QED
  BY <1>2, <1>3, <1>4, <1>5 DEF SackOK

LEMMA TakingSack ==
    ASSUME ScreenInv, SackOK, Evidence
    PROVE  SackOK'
<1>1. CASE Type
  <2>1. Told' = Told /\ Committing' = Committing
    BY <1>1 DEF Type, awaiting, Told, Recorded, Committing, InFlight
  <2> QED
    BY <1>1, <2>1 DEF Type, app, awaiting, SackOK, PhotoAtHand
<1>2. CASE Shoot
  <2>1. Told' = Told /\ Committing' = Committing
    BY <1>2 DEF Shoot, Told, Recorded, Committing, InFlight
  <2> QED
    BY <1>2, <2>1 DEF Shoot, SackOK, PhotoAtHand
<1>3. ASSUME NEW s \in Sacks, NextSack(s)
      PROVE  SackOK'
  <2>1. ~ Told' /\ Committing' = Committing
    BY <1>3 DEF NextSack, awaiting, Told, Recorded, Committing, InFlight
  <2>2. Committing = {} /\ photo = None /\ readings = {}
    BY <1>3 DEF NextSack, SackOK, PhotoAtHand
  <2> QED
    BY <1>3, <2>1, <2>2 DEF NextSack, app, awaiting, SackOK, PhotoAtHand
<1>4. ASSUME NEW s \in Sacks, NEW readable \in BOOLEAN, ReadPhoto(s, readable)
      PROVE  SackOK'
  <2>1. Told' = Told /\ Committing' = Committing
    BY <1>4 DEF ReadPhoto, Told, Recorded, Committing, InFlight
  <2>2. ~ Told /\ s = sack
    BY <1>4 DEF ReadPhoto, SackOK, PhotoAtHand
  <2>3. PhotoAtHand'
    BY <1>4, <2>1, <2>2 DEF ReadPhoto, SackOK, PhotoAtHand
  <2> QED
    BY <1>4, <2>1, <2>3 DEF ReadPhoto, SackOK
<1> QED
  BY <1>1, <1>2, <1>3, <1>4 DEF Evidence

LEMMA CommitSack ==
    ASSUME ScreenInv, SackOK, NEW k \in 1..MaxTaps, Commit(k)
    PROVE  SackOK'
<1>1. PICK tap \in Tap :
        /\ TapOK(tap) /\ taps' = [taps EXCEPT ![k] = tap]
        /\ tap.at \in {"storing", "collecting"} /\ ~ tap.landed
        /\ tap.photo = photo
  BY CommitTap
<1>2. taps[k].at # "over" /\ tap.at # "over" /\ UNCHANGED <<sack, photo, readings>>
  BY <1>1 DEF Commit, app
<1>3. Told' = Told /\ \A l \in 1..MaxTaps : taps'[l] = IF l = k THEN tap ELSE taps[l]
  BY <1>1, <1>2, TapMoves
<1>4. photo = sack /\ ~ Told
  BY DEF Commit, Complete, SackOK, PhotoAtHand
<1>5. \A l \in Committing' : l = k \/ l \in Committing
  BY <1>3 DEF Committing, InFlight
<1>6. \A l \in Committing' : taps'[l].photo = sack' /\ ~ Told'
  BY <1>1, <1>2, <1>3, <1>4, <1>5 DEF SackOK, Committing
<1>7. \A l, m \in 1..MaxTaps :
        taps'[l].landed /\ taps'[m].landed /\ taps'[l].photo = taps'[m].photo => l = m
  BY <1>1, <1>3 DEF SackOK
<1> QED
  BY <1>2, <1>3, <1>6, <1>7 DEF SackOK, PhotoAtHand

\* A weigh-in that lands is the first of its sack.
LEMMA LandingSack ==
    ASSUME ScreenInv, Solo, Solo', SackOK, NEW k \in 1..MaxTaps,
           (\E room \in BOOLEAN : Enqueue(k, room)) \/ Collect(k)
    PROVE  SackOK'
<1>1. PICK tap \in Tap :
        /\ TapOK(tap) /\ taps' = [taps EXCEPT ![k] = tap]
        /\ tap.at \in {"coding", "failed"}
        /\ tap.at = "coding" => taps[k].at \in {"storing", "collecting"}
        /\ tap.photo = taps[k].photo
  <2>1. CASE \E room \in BOOLEAN : Enqueue(k, room)
    <3>1. PICK room \in BOOLEAN : Enqueue(k, room)
      BY <2>1
    <3>2. taps[k].at = "storing"
      BY <3>1 DEF Enqueue
    <3> QED
      BY <3>1, <3>2, EnqueueTap
  <2>2. CASE Collect(k)
    BY <2>2, CollectTap
  <2> QED
    BY <2>1, <2>2
<1>2. taps[k].at # "over" /\ tap.at # "over" /\ UNCHANGED <<sack, photo, readings>>
  BY <1>1 DEF Enqueue, Collect, app
<1>3. Told' = Told /\ \A l \in 1..MaxTaps : taps'[l] = IF l = k THEN tap ELSE taps[l]
  BY <1>1, <1>2, TapMoves
<1>4. Committing' \subseteq Committing
  BY <1>1, <1>3 DEF Committing, InFlight
<1>5. \A l \in Committing' : taps'[l].photo = sack' /\ ~ Told'
  BY <1>1, <1>2, <1>3, <1>4 DEF SackOK, Committing
<1>6. ASSUME tap.landed
      PROVE  k \in Committing /\ taps[k].photo = sack /\ ~ Told
  <2>1. tap.at # "failed"
    BY <1>1, <1>3, <1>6 DEF TapOK, Solo
  <2>2. k \in Committing
    BY <1>1, <2>1 DEF Committing, InFlight
  <2> QED
    BY <2>2 DEF SackOK
<1>7. ASSUME tap.landed, NEW l \in 1..MaxTaps, taps[l].landed, taps[l].photo = sack
      PROVE  l = k
  <2>1. TapOK(taps[l]) /\ taps[l] \in Tap
    BY TapFields DEF ScreenInv, TapsOK
  <2>2. taps[l].at \in {"coding", "over", "failed"}
    BY <1>7, <2>1 DEF TapOK, Tap
  <2>3. taps[l].at # "failed"
    BY <1>7, <2>1 DEF TapOK, Solo
  <2>4. taps[l].at # "over"
    BY <1>6, <1>7 DEF Told, Recorded
  <2>5. l \in Committing
    BY <2>2, <2>3, <2>4 DEF Committing, InFlight
  <2> QED
    BY <1>6, <1>7, <2>5 DEF Solo
<1>8. \A l, m \in 1..MaxTaps :
        taps'[l].landed /\ taps'[m].landed /\ taps'[l].photo = taps'[m].photo => l = m
  BY <1>1, <1>3, <1>6, <1>7 DEF SackOK
<1> QED
  BY <1>2, <1>3, <1>5, <1>8 DEF SackOK, PhotoAtHand

LEMMA EndingSack ==
    ASSUME ScreenInv, Solo, SackOK, NEW k \in 1..MaxTaps, NEW end \in {"failed", "over"},
           \/ CollectFails(k) /\ end = "failed"
           \/ FinishCommit(k) /\ end = "over"
    PROVE  SackOK'
<1>1. PICK tap \in Tap :
        /\ TapOK(tap) /\ taps' = [taps EXCEPT ![k] = tap]
        /\ tap.at = end /\ tap.landed = taps[k].landed /\ tap.photo = taps[k].photo
  BY EndedTap
<1>2. \A l \in 1..MaxTaps : taps'[l] = IF l = k THEN tap ELSE taps[l]
  BY <1>1, OneTapSet DEF ScreenInv
<1>3. k \in Committing /\ sack' = sack
  BY DEF CollectFails, FinishCommit, Committing, InFlight
<1>4. Committing' = {}
  BY <1>1, <1>2, <1>3 DEF Solo, Committing, InFlight
<1>5. readings = {}
  BY <1>3 DEF Solo, Idle
<1>6. PhotoAtHand'
  <2>1. CASE FinishCommit(k) /\ end = "over"
    BY <1>5, <2>1 DEF FinishCommit, PhotoAfter, PhotoAtHand
  <2>2. CASE CollectFails(k) /\ end = "failed"
    <3>1. taps[k].at # "over" /\ tap.at # "over"
      BY <1>1, <2>2 DEF CollectFails
    <3>2. Told' = Told
      BY <1>1, <1>3, <3>1, TapMoves
    <3> QED
      BY <2>2, <3>2 DEF CollectFails, PhotoAfterFailure, SackOK, PhotoAtHand
  <2> QED
    BY <2>1, <2>2
<1>7. \A l, m \in 1..MaxTaps :
        taps'[l].landed /\ taps'[m].landed /\ taps'[l].photo = taps'[m].photo => l = m
  BY <1>1, <1>2 DEF SackOK
<1> QED
  BY <1>4, <1>6, <1>7 DEF SackOK

LEMMA SackStep ==
    ASSUME ScreenInv, Solo, Solo', SackOK, Next
    PROVE  SackOK'
<1>1. ASSUME NEW k \in 1..MaxTaps, Committed(k)
      PROVE  SackOK'
  <2>1. "failed" \in {"failed", "over"} /\ "over" \in {"failed", "over"}
    OBVIOUS
  <2> QED
    BY <1>1, <2>1, CommitSack, LandingSack, EndingSack DEF Committed
<1> QED
  BY <1>1, NextIs, AsideSack, TakingSack

-----------------------------------------------------------------------------
(* What a commit has hold of                                               *)

LEMMA PhotoStep ==
    ASSUME ScreenInv, Idle \/ readings = {}, PhotoOK, Next
    PROVE  /\ PhotoOK'
           /\ KeepsEvidence
<1>1. CASE Aside
  <2>1. Keeps
    BY <1>1, AsideKeeps
  <2>2. Committing' = Committing
    BY <2>1, StayingStays DEF Keeps
  <2> QED
    BY <2>1, <2>2 DEF Keeps, Stays, PhotoOK, KeepsEvidence, Committing
<1>2. CASE Evidence
  <2>1. Committing' = Committing /\ taps' = taps
    BY <1>2 DEF Evidence, Type, Shoot, NextSack, ReadPhoto, awaiting, Committing, InFlight
  <2>2. photo' = photo \/ (Committing = {} /\ photo' # None)
    <3>1. ASSUME NEW s \in Sacks, NEW readable \in BOOLEAN, ReadPhoto(s, readable)
          PROVE  photo' = photo \/ (Committing = {} /\ photo' # None)
      BY <3>1, ScreenAssumption DEF ReadPhoto, Idle
    <3> QED
      BY <1>2, <3>1 DEF Evidence, Type, Shoot, NextSack, app
  <2> QED
    BY <2>1, <2>2 DEF PhotoOK, KeepsEvidence
<1>3. ASSUME NEW k \in 1..MaxTaps, Commit(k)
      PROVE  PhotoOK' /\ KeepsEvidence
  <2>1. PICK tap \in Tap :
          TapOK(tap) /\ taps' = [taps EXCEPT ![k] = tap] /\ tap.photo = photo
    BY <1>3, CommitTap
  <2>2. \A l \in 1..MaxTaps : taps'[l] = IF l = k THEN tap ELSE taps[l]
    BY <2>1, OneTapSet DEF ScreenInv
  <2>3. photo' = photo /\ \A l \in Committing' : l = k \/ l \in Committing
    BY <1>3, <2>2 DEF Commit, app, Committing, InFlight
  <2> QED
    BY <2>1, <2>2, <2>3 DEF PhotoOK, KeepsEvidence, Committing
<1>4. ASSUME NEW k \in 1..MaxTaps,
             (\E room \in BOOLEAN : Enqueue(k, room)) \/ Collect(k) \/ CollectFails(k)
      PROVE  PhotoOK' /\ KeepsEvidence
  <2>0. "failed" \in {"failed", "over"}
    OBVIOUS
  <2>1. PICK tap \in Tap :
          /\ TapOK(tap) /\ taps' = [taps EXCEPT ![k] = tap] /\ tap.photo = taps[k].photo
          /\ tap.at \in {"coding", "failed"}
          /\ tap.at = "coding" => taps[k].at \in {"storing", "collecting"}
    <3>1. ASSUME NEW room \in BOOLEAN, Enqueue(k, room)
          PROVE  taps[k].at = "storing"
      BY <3>1 DEF Enqueue
    <3> QED
      BY <1>4, <2>0, <3>1, EnqueueTap, CollectTap, EndedTap
  <2>2. \A l \in 1..MaxTaps : taps'[l] = IF l = k THEN tap ELSE taps[l]
    BY <2>1, OneTapSet DEF ScreenInv
  <2>3. Committing' \subseteq Committing
    BY <2>1, <2>2 DEF Committing, InFlight
  <2>4. photo' = photo
    BY <1>4 DEF Enqueue, Collect, CollectFails, PhotoAfterFailure, app
  <2> QED
    BY <2>1, <2>2, <2>3, <2>4 DEF PhotoOK, KeepsEvidence, Committing
<1>5. ASSUME NEW k \in 1..MaxTaps, FinishCommit(k)
      PROVE  PhotoOK' /\ KeepsEvidence
  <2>0. "over" \in {"failed", "over"}
    OBVIOUS
  <2>1. PICK tap \in Tap :
          /\ TapOK(tap) /\ taps' = [taps EXCEPT ![k] = tap]
          /\ tap.at = "over" /\ tap.photo = taps[k].photo
    BY <1>5, <2>0, EndedTap
  <2>2. \A l \in 1..MaxTaps : taps'[l] = IF l = k THEN tap ELSE taps[l]
    BY <2>1, OneTapSet DEF ScreenInv
  <2>3. photo' = None /\ k \in Committing
    BY <1>5 DEF FinishCommit, PhotoAfter, Committing, InFlight
  \* The photo that goes is the one this commit recorded.
  <2>4. photo # None => taps'[k].landed /\ taps'[k].photo = photo
    BY <2>1, <2>2, <2>3 DEF TapOK, PhotoOK
  <2> QED
    BY <2>3, <2>4 DEF PhotoOK, KeepsEvidence
<1> QED
  BY <1>1, <1>2, <1>3, <1>4, <1>5, NextIs DEF Committed

-----------------------------------------------------------------------------
(* The session                                                             *)

\* A phone that is signed out shows the sign-in page, and what can happen there changes
\* nothing of it until somebody signs in.
LEMMA SignedOutStep ==
    ASSUME ScreenInv, SessionOK, session = None, session' = None, Next
    PROVE  SessionOK'
<1>1. /\ page = "sign in" /\ ~ OnScreen /\ Committing = {} /\ readings = {} /\ polls = {}
      /\ shows = {} /\ \A i \in 1..MaxRenders : renders[i] = None
  BY ScreenAssumption
     DEF SessionOK, PageShowsSession, Awaiting, Rendering, OnScreen
<1>2. /\ ~ Refresh /\ ~ Type /\ ~ Shoot /\ ~ StartPoll /\ ~ DismissDoor /\ ~ DismissProof /\ ~ SignOut
      /\ \A j \in Jobs : ~ SelectJob(j)
      /\ \A i \in 1..MaxRenders : ~ FinishRender(i)
  BY <1>1 DEF Refresh, Type, Shoot, Shoots, StartPoll, DismissDoor, DismissProof, SignOut, SelectJob,
              FinishRender
<1>3. ASSUME NEW k \in 1..MaxTaps
      PROVE  /\ ~ Commit(k) /\ ~ CollectFails(k) /\ ~ FinishCommit(k) /\ ~ StartShow(k) /\ ~ FinishShow(k)
             /\ \A room \in BOOLEAN : ~ Enqueue(k, room)
  <2>1. ~ InFlight(k)
    BY <1>1 DEF Committing
  <2> QED
    BY <1>1, <2>1 DEF Commit, CollectFails, FinishCommit, StartShow, FinishShow, Enqueue, InFlight
<1>4. \A c \in Collectors : ~ SignIn(c)
  BY ScreenAssumption DEF SignIn
<1>5. \A s \in Sacks, readable \in BOOLEAN : ~ ReadPhoto(s, readable)
  BY <1>1 DEF ReadPhoto
<1>6. \/ \E s \in Sacks : NextSack(s)
      \/ \E k \in 1..MaxTaps : Collect(k)
      \/ \E j \in Jobs, c \in Collectors \cup {None} : Dispatch(j, c)
  BY <1>1, <1>2, <1>3, <1>4, <1>5 DEF Next
<1>7. UNCHANGED <<app, page, readings, renders, polls, shows>>
  BY <1>6 DEF NextSack, Collect, Dispatch, awaiting
<1>8. Committing' = {}
  <2>1. CASE \E k \in 1..MaxTaps : Collect(k)
    <3>1. PICK k \in 1..MaxTaps : Collect(k)
      BY <2>1
    <3>2. PICK tap \in Tap :
            /\ TapOK(tap) /\ taps' = [taps EXCEPT ![k] = tap]
            /\ tap.at = (IF taps[k].at = "collecting" THEN "coding" ELSE "failed")
      BY <3>1, CollectTap
    <3>3. \A l \in 1..MaxTaps : taps'[l] = IF l = k THEN tap ELSE taps[l]
      BY <3>2, OneTapSet DEF ScreenInv
    <3> QED
      BY <1>1, <3>2, <3>3 DEF Committing, InFlight
  <2>2. CASE taps' = taps
    BY <1>1, <2>2 DEF Committing, InFlight
  <2> QED
    BY <1>6, <2>1, <2>2 DEF NextSack, Dispatch, awaiting
<1> QED
  BY <1>1, <1>7, <1>8
     DEF app, SessionOK, PageShowsSession, NothingToInherit, Awaiting, Rendering

\* Signed in, the page changes only into one of the session.
LEMMA SignedInStep ==
    ASSUME ScreenInv, SessionOK, session # None, session' = session, Next
    PROVE  SessionOK'
<1>0. weight \in Sacks \cup {None}
  BY DEF ScreenInv, TypeOK
<1>1. \/ UNCHANGED <<page, renders>>
      \/ \E typed \in Sacks \cup {None} : Repaints(typed)
      \/ \E i \in 1..MaxRenders : FinishRender(i)
  <2>1. CASE Refresh
    BY <1>0, <2>1 DEF Refresh, Repaints
  <2>2. CASE Evidence
    BY <2>2 DEF Evidence, Type, Shoot, NextSack, ReadPhoto, awaiting
  <2>3. ASSUME NEW k \in 1..MaxTaps, Committed(k)
        PROVE  UNCHANGED <<page, renders>> \/ \E typed \in Sacks \cup {None} : Repaints(typed)
    <3>1. CASE FinishCommit(k)
      <4>1. weight' \in Sacks \cup {None}
        BY <1>0, <3>1 DEF FinishCommit, WeightAfter
      <4> QED
        BY <3>1, <4>1 DEF FinishCommit
    <3>2. CASE ~ FinishCommit(k)
      BY <1>0, <2>3, <3>2 DEF Committed, Commit, Enqueue, Collect, CollectFails
    <3> QED
      BY <3>1, <3>2
  <2>4. CASE Pickups
    BY <1>0, <2>4 DEF Pickups, SelectJob, Dispatch, StartPoll, FinishPoll, LosePoll, DismissDoor,
                DismissProof, awaiting
  <2>5. ASSUME NEW k \in 1..MaxTaps, StartShow(k) \/ FinishShow(k)
        PROVE  UNCHANGED <<page, renders>> \/ \E typed \in Sacks \cup {None} : Repaints(typed)
    BY <1>0, <2>5 DEF StartShow, FinishShow
  <2>6. ~ SignOut /\ \A c \in Collectors : ~ SignIn(c)
    BY DEF SignOut, SignIn
  <2> QED
    BY <2>1, <2>2, <2>3, <2>4, <2>5, <2>6, NextIs DEF Aside, Signing
<1>2. CASE UNCHANGED <<page, renders>>
  BY <1>2 DEF SessionOK, PageShowsSession, NothingToInherit
<1>3. ASSUME NEW typed \in Sacks \cup {None}, Repaints(typed)
      PROVE  SessionOK'
  <2>1. Rerenders(session, typed) /\ Rendering'
    BY <1>3, Repainted DEF ScreenInv
  <2> QED
    BY <2>1 DEF Rerenders, Rendering, SessionOK, PageShowsSession, NothingToInherit
<1>4. ASSUME NEW i \in 1..MaxRenders, FinishRender(i)
      PROVE  SessionOK'
  <2>1. page' = session
    BY <1>4 DEF FinishRender, SessionOK
  <2>2. \A j \in 1..MaxRenders : renders'[j] # None => renders'[j] = renders[j]
    BY <1>4 DEF FinishRender, ScreenInv, TypeOK
  <2> QED
    BY <2>1, <2>2 DEF SessionOK, PageShowsSession, NothingToInherit
<1> QED
  BY <1>1, <1>2, <1>3, <1>4

LEMMA SigningOutStep ==
    ASSUME ScreenInv, ~ Awaiting, SignOut
    PROVE  SessionOK'
<1>1. \A k \in 1..MaxTaps : Stays(k)
  BY DetachedStays DEF SignOut, ScreenInv
<1>2. Committing' = Committing
  BY <1>1 DEF Committing, InFlight, Stays
<1> QED
  BY <1>2 DEF SignOut, JobsAfterSignOut, SessionOK, PageShowsSession, NothingToInherit,
              Awaiting, Rendering

LEMMA SigningInStep ==
    ASSUME ScreenInv, SessionOK, ~ Awaiting, NEW c \in Collectors, SignIn(c)
    PROVE  SessionOK'
<1>1. Rerenders(c, None) /\ Rendering' /\ session' = c /\ c # None
  BY Started, ScreenAssumption DEF SignIn, ScreenInv
<1>2. \A i \in 1..MaxRenders : renders[i] = None
  BY DEF Awaiting, Rendering
<1> QED
  BY <1>1, <1>2 DEF Rerenders, Rendering, SessionOK, PageShowsSession, NothingToInherit

LEMMA SessionStep ==
    ASSUME ScreenInv, SessionOK, session' = session \/ ~ Awaiting, Next
    PROVE  SessionOK'
<1>1. CASE session' = session
  BY <1>1, SignedOutStep, SignedInStep
<1>2. CASE session' # session
  <2>1. Signing
    <3>1. CASE Pickups
      BY <1>2, <3>1 DEF Pickups, SelectJob, Dispatch, StartPoll, FinishPoll, LosePoll, DismissDoor,
                        DismissProof, app
    <3>2. CASE Evidence
      BY <1>2, <3>2 DEF Evidence, Type, Shoot, NextSack, ReadPhoto, app
    <3>3. ASSUME NEW k \in 1..MaxTaps, Committed(k) \/ StartShow(k) \/ FinishShow(k)
          PROVE  FALSE
      BY <1>2, <3>3 DEF Committed, Commit, Enqueue, Collect, CollectFails, FinishCommit, StartShow,
                        FinishShow, app
    <3>4. CASE Refresh \/ \E i \in 1..MaxRenders : FinishRender(i)
      BY <1>2, <3>4 DEF Refresh, FinishRender, app
    <3> QED
      BY <3>1, <3>2, <3>3, <3>4, NextIs DEF Aside
  <2> QED
    BY <1>2, <2>1, SigningOutStep, SigningInStep DEF Signing
<1> QED
  BY <1>1, <1>2

-----------------------------------------------------------------------------
(* The theorems                                                            *)

\* Before anything is tapped, nothing is under way.
LEMMA InitInv == MCInit => Inv
<1> SUFFICES ASSUME MCInit PROVE Inv
  OBVIOUS
<1>1. ScreenInv
  BY ScreenInit DEF MCInit
<1>2. /\ Committing = {} /\ \A k \in 1..MaxTaps : taps[k].at = "untapped" /\ ~ taps[k].landed
      /\ \A k \in 1..MaxTaps : taps[k].weight = taps[k].photo
  BY DEF MCInit, Init, Untapped, Committing, InFlight
<1>3. ~ Rendering /\ readings = {} /\ polls = {} /\ shows = {} /\ photo = None /\ weight = None
  BY DEF MCInit, Init, Rendering
<1>4. ~ Told
  BY <1>2 DEF Told, Recorded
<1>5. Meeting = {}
  <2>1. Cardinality(Committing) = 0
    BY <1>2, FS_EmptySet
  <2>2. ~ Cardinality(Committing) > 1
    BY <2>1
  <2> QED
    BY <1>2, <2>2 DEF Meeting
<1>6. EvidenceOK
  BY <1>2, <1>3, <1>4 DEF EvidenceOK, PhotoAtHand, WeightAtHand, Rendering, EvidenceIsOfOneSack
<1>7. SackOK /\ PhotoOK
  BY <1>2, <1>3, <1>4 DEF SackOK, PhotoAtHand, PhotoOK
<1>8. SessionOK
  BY <1>2, <1>3 DEF MCInit, Init, SessionOK, PageShowsSession, NothingToInherit, Awaiting, Rendering
<1> QED
  BY <1>1, <1>5, <1>6, <1>7, <1>8 DEF Inv, MetInv

LEMMA RememberedSolo ==
    ASSUME Remembered
    PROVE  /\ {"commit and render", "commit and photo"} \cap met = {} => Quiet
           /\ {"taps", "commit and photo", "lost answer"} \cap met = {} => Solo
           /\ "commit and photo" \notin met => Idle \/ readings = {}
BY DEF Remembered, Quiet, Solo

LEMMA MetStep ==
    ASSUME Inv, MCNext
    PROVE  /\ Inv'
           /\ "commit and photo" \notin met' => KeepsEvidence
<1>1. Next /\ met' = met \cup Meeting' \cup Crossing
  BY DEF MCNext
<1>2. ScreenInv /\ ScreenInv'
  BY <1>1, ScreenStep DEF Inv
<1>3. Remembered
  BY <1>2, MeetingsRemembered DEF Inv, MetInv, ScreenInv
<1>4. Remembered'
  <2>1. TypeOK' /\ (Meeting \subseteq met)'
    BY <1>1, <1>2 DEF ScreenInv
  <2>2. TypeOK /\ Meeting \subseteq met => Remembered
    BY MeetingsRemembered
  <2>3. (TypeOK /\ Meeting \subseteq met)' => Remembered'
    BY MeetingsRemembered, PTL
  <2> QED
    BY <2>1, <2>3
<1>5. {"commit and render", "commit and photo"} \cap met' = {} => Quiet'
  BY <1>4 DEF Remembered, Quiet
<1>6. {"taps", "commit and photo", "lost answer"} \cap met' = {} => Solo'
  BY <1>4 DEF Remembered, Solo
<1>7. {"commit and render", "commit and photo"} \cap met' = {} => EvidenceOK'
  <2>1. SUFFICES ASSUME {"commit and render", "commit and photo"} \cap met' = {}
                 PROVE  EvidenceOK'
    OBVIOUS
  <2>2. {"commit and render", "commit and photo"} \cap met = {}
    BY <1>1, <2>1
  <2>3. Quiet /\ Quiet' /\ EvidenceOK
    BY <1>3, <1>4, <1>5, <2>1, <2>2, RememberedSolo DEF Inv, MetInv
  <2> QED
    BY <1>1, <1>2, <2>3, EvidenceStep
<1>8. {"taps", "commit and photo", "lost answer"} \cap met' = {} => SackOK'
  <2>1. SUFFICES ASSUME {"taps", "commit and photo", "lost answer"} \cap met' = {}
                 PROVE  SackOK'
    OBVIOUS
  <2>2. {"taps", "commit and photo", "lost answer"} \cap met = {}
    BY <1>1, <2>1
  <2>3. Solo /\ Solo' /\ SackOK
    BY <1>3, <1>4, <1>6, <2>1, <2>2, RememberedSolo DEF Inv, MetInv
  <2> QED
    BY <1>1, <1>2, <2>3, SackStep
<1>9. "commit and photo" \notin met' => PhotoOK' /\ KeepsEvidence
  <2>1. SUFFICES ASSUME "commit and photo" \notin met'
                 PROVE  PhotoOK' /\ KeepsEvidence
    OBVIOUS
  <2>2. PhotoOK /\ (Idle \/ readings = {})
    BY <1>1, <1>3, <2>1, RememberedSolo DEF Inv, MetInv
  <2> QED
    BY <1>1, <1>2, <2>2, PhotoStep
<1>10. "session and handler" \notin met' => SessionOK'
  <2>1. SUFFICES ASSUME "session and handler" \notin met'
                 PROVE  SessionOK'
    OBVIOUS
  <2>2. SessionOK
    BY <1>1, <2>1 DEF Inv, MetInv
  <2>3. session' = session \/ ~ Awaiting
    BY <1>1, <2>1 DEF Crossing
  <2> QED
    BY <1>1, <1>2, <2>2, <2>3, SessionStep
<1> QED
  BY <1>1, <1>2, <1>7, <1>8, <1>9, <1>10 DEF Inv, MetInv

LEMMA StutterInv ==
    ASSUME Inv, UNCHANGED <<vars, met>>
    PROVE  Inv'
<1>1. UNCHANGED <<sack, session, photo, busy, jobs, activeJob, doorProof, lastProof>>
  BY DEF vars, app
<1>2. UNCHANGED <<page, weight, readings, taps, renders, polls, shows, signOuts, assigned>>
  BY DEF vars, awaiting
<1>3. ScreenInv'
  BY <1>1, <1>2 DEF Inv, ScreenInv, TypeOK, TapsOK, ActiveJobIsListed
<1>4. Told' = Told /\ Committing' = Committing
  BY <1>1, <1>2 DEF Told, Recorded, Committing, InFlight
<1>5. EvidenceOK' = EvidenceOK
  BY <1>1, <1>2, <1>4 DEF EvidenceOK, PhotoAtHand, WeightAtHand, EvidenceIsOfOneSack
<1>6. SackOK' = SackOK /\ PhotoOK' = PhotoOK
  BY <1>1, <1>2, <1>4 DEF SackOK, PhotoAtHand, PhotoOK
<1>7. SessionOK' = SessionOK
  BY <1>1, <1>2, <1>4 DEF SessionOK, PageShowsSession, NothingToInherit, Awaiting, Rendering
<1>8. Meeting' = Meeting
  BY <1>2, <1>4 DEF Meeting, Rendering
<1> QED
  BY <1>3, <1>5, <1>6, <1>7, <1>8 DEF Inv, MetInv

LEMMA InvHolds == MCSpec => []Inv
<1>1. Inv /\ [MCNext]_<<vars, met>> => Inv'
  BY MetStep, StutterInv
<1> QED
  BY <1>1, InitInv, PTL DEF MCSpec

\* The app, the page, the handlers and the server are always well typed.
THEOREM ScreenTypes == MCSpec => []TypeOK
<1>1. Inv => TypeOK
  BY DEF Inv, ScreenInv
<1> QED
  BY <1>1, InvHolds, PTL

\* For any number of taps, renders, sacks and collectors: a weigh-in whose weight is of
\* one sack and whose photo is of another takes a commit() that ran into a render or into
\* a photo being read; a second tap, a lost answer or a sign-out alone never makes one.
THEOREM EvidenceMatches == MCSpec => []EvidenceIsOfOneSackAlone
<1>1. Inv => EvidenceIsOfOneSackAlone
  BY DEF Inv, MetInv, EvidenceOK, EvidenceIsOfOneSackAlone
<1> QED
  BY <1>1, InvHolds, PTL

\* One sack is recorded twice only after two commits at once, a photo read during one, or
\* an answer of the server that was lost.
THEOREM SacksRecordedOnce == MCSpec => []SackRecordedOnceAlone
<1>1. Inv => SackRecordedOnceAlone
  <2>1. SUFFICES ASSUME Inv, met \cap {"taps", "commit and photo", "lost answer"} = {},
                        NEW s \in Sacks
                 PROVE  Cardinality(Recorded(s)) <= 1
    BY DEF SackRecordedOnceAlone, SackRecordedOnce
  <2>2. \A k, l \in Recorded(s) : k = l
    BY <2>1 DEF Inv, MetInv, SackOK, Recorded
  <2>3. CASE Recorded(s) = {}
    BY <2>3, FS_EmptySet
  <2>4. CASE Recorded(s) # {}
    <3>1. PICK k \in Recorded(s) : TRUE
      BY <2>4
    <3>2. Recorded(s) = {k}
      BY <2>2
    <3> QED
      BY <3>2, FS_Singleton
  <2> QED
    BY <2>3, <2>4
<1> QED
  BY <1>1, InvHolds, PTL

\* Evidence leaves the screen unrecorded only after a photo was read during a commit.
THEOREM EvidenceIsKept == MCSpec => EvidenceKeptAlone
<1>1. Inv /\ [MCNext]_<<vars, met>> => [met' \cap {"commit and photo"} = {} => KeepsEvidence]_vars
  <2>1. SUFFICES ASSUME Inv, [MCNext]_<<vars, met>>
                 PROVE  (met' \cap {"commit and photo"} = {} => KeepsEvidence) \/ UNCHANGED vars
    OBVIOUS
  <2>2. CASE MCNext
    BY <2>1, <2>2, MetStep
  <2> QED
    BY <2>1, <2>2
<1> QED
  BY <1>1, InvHolds, PTL DEF MCSpec, EvidenceKeptAlone

\* The page is of the collector who signs, and a signed-out phone keeps nothing of the one
\* before, unless a handler under way crossed the sign-in or the sign-out; and whatever
\* met, the pickup that is worked is one of those listed.
THEOREM SessionIsShown == MCSpec => []SessionShownAlone
<1>1. Inv => SessionShownAlone
  BY DEF Inv, MetInv, ScreenInv, SessionOK, SessionShownAlone
<1> QED
  BY <1>1, InvHolds, PTL

=============================================================================
