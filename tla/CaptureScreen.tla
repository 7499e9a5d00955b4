---------------------------- MODULE CaptureScreen ----------------------------
(***************************************************************************)
(* The one screen of the capture app: a collector types a weight, takes a   *)
(* photo and taps commit(), which signs the weigh-in and either stores it   *)
(* in the queue or, for a dispatched pickup, posts it to the server and     *)
(* waits for the customer's code.                                           *)
(*                                                                         *)
(* Every handler runs alone up to its next await; in between, other taps,   *)
(* timers and answers run.  Split at their awaits are commit(), the reading *)
(* of a photo, pollJobs(), showClaim() and render(), which remembers the    *)
(* session and the typed weight, waits for the queue, and then replaces the *)
(* whole page.  The scale and the keyboard fill the field with the weight   *)
(* of the sack at hand, and the collector turns to the next sack only when  *)
(* the app has said that this one is recorded.                              *)
(*                                                                         *)
(* Hubs, materials and the pairing itself are left to other modules.        *)
(***************************************************************************)
EXTENDS Naturals, FiniteSets

CONSTANTS
    Sacks, Jobs, Collectors,
    MaxTaps,       \* bound: taps on commit that pass its checks
    MaxRenders,    \* bound: renders under way at once
    MaxSignOuts,   \* bound: how often somebody signs out
    None

ASSUME ScreenAssumption ==
    /\ None \notin Sacks \cup Jobs \cup Collectors
    /\ "sign in" \notin Collectors /\ "dead" \notin Collectors
    /\ MaxTaps \in Nat /\ MaxRenders \in Nat /\ MaxSignOuts \in Nat

VARIABLES
    sack,          \* the sack at the scale
    \* the module-level state of the app
    session,       \* provisioning: the collector signed in, or None
    photo,         \* photo and photoHash: the sack on the photo, or None
    busy,          \* photoSlot.busy
    jobs, activeJob, doorProof, lastProof,
    \* the page
    page,          \* "sign in", the collector of a capture screen, or "dead": one with nothing wired
    weight,        \* the sack whose weight is in the field, or None
    \* handlers between two of their awaits
    readings, taps, renders, polls, shows,
    signOuts,
    \* the server: whose job it is; None once it is collected or cancelled
    assigned

app == <<session, photo, busy, jobs, activeJob, doorProof, lastProof>>
awaiting == <<readings, taps, renders, polls, shows>>
vars == <<sack, app, page, weight, awaiting, signOuts, assigned>>

-----------------------------------------------------------------------------
Tap ==
    [at: {"untapped", "storing", "coding", "collecting", "failed", "over"},
     weight: Sacks \cup {None}, photo: Sacks \cup {None}, by: Collectors \cup {None},
     job: Jobs \cup {None},
     attached: BOOLEAN,   \* the field it was tapped beside is still the one on the page
     landed: BOOLEAN]     \* stored in the queue, or recorded by the server

Untapped ==
    [at |-> "untapped", weight |-> None, photo |-> None, by |-> None, job |-> None,
     attached |-> FALSE, landed |-> FALSE]

Render == [by: Collectors, weight: Sacks \cup {None}]

ASSUME NoRenderAssumption == None \notin Render

\* An answer to GET /requests/assigned on its way.
Poll == SUBSET Jobs

TypeOK ==
    /\ sack \in Sacks
    /\ session \in Collectors \cup {None}
    /\ photo \in Sacks \cup {None} /\ busy \in BOOLEAN
    /\ jobs \subseteq Jobs /\ activeJob \in Jobs \cup {None} /\ doorProof \in Jobs \cup {None}
    /\ lastProof \in 1..MaxTaps \cup {None}
    /\ page \in Collectors \cup {"sign in", "dead"}
    /\ weight \in Sacks \cup {None}
    /\ readings \subseteq Sacks
    /\ taps \in [1..MaxTaps -> Tap]
    /\ renders \in [1..MaxRenders -> Render \cup {None}]
    /\ polls \subseteq Poll
    /\ shows \subseteq 1..MaxTaps
    /\ signOuts \in 0..MaxSignOuts
    /\ assigned \in [Jobs -> Collectors \cup {None}]

\* The app starts: a phone that is signed out, or still paired.
Init ==
    /\ sack \in Sacks
    /\ session \in Collectors \cup {None}
    /\ photo = None /\ busy = FALSE
    /\ jobs = {} /\ activeJob = None /\ doorProof = None /\ lastProof = None
    /\ page = IF session = None THEN "sign in" ELSE session
    /\ weight = None
    /\ readings = {}
    /\ taps = [k \in 1..MaxTaps |-> Untapped]
    /\ renders = [i \in 1..MaxRenders |-> None]
    /\ polls = {} /\ shows = {}
    /\ signOuts = 0
    /\ assigned \in [Jobs -> Collectors \cup {None}]

\* Capturing is possible: the page is a capture screen whose buttons do something.
OnScreen == page \in Collectors

InFlight(k) == taps[k].at \in {"storing", "coding", "collecting"}

Recorded(s) == {k \in 1..MaxTaps : taps[k].landed /\ taps[k].photo = s}

\* The app has said that the sack at the scale is recorded.
Told == \E k \in Recorded(sack) : taps[k].at = "over"

-----------------------------------------------------------------------------
(* Rendering                                                               *)

Free == {i \in 1..MaxRenders : renders[i] = None}

\* render() up to its await, where it begins in a session: what it has read of the page.
StartsRender(typed) ==
    /\ Free # {}
    /\ renders' = [renders EXCEPT ![CHOOSE i \in Free : TRUE] = [by |-> session, weight |-> typed]]

\* A page is replaced, and with it the field every handler under way has hold of.
Detached == [k \in 1..MaxTaps |-> [taps[k] EXCEPT !.attached = FALSE]]

\* void render() of the session as it is: the sign-in page is there at once.
Repaints(typed) ==
    IF session # None
      THEN StartsRender(typed) /\ UNCHANGED page
      ELSE page' = "sign in" /\ UNCHANGED renders

\* The timer, "online", "offline", a changed list of hubs or materials, the end of a sync.
Refresh ==
    /\ session # None
    /\ StartsRender(weight)
    /\ UNCHANGED <<sack, app, page, weight, readings, taps, polls, shows, signOuts, assigned>>

\* What was in the field when the render began is put into the new one.
Carried(r) == r.weight

\* render() once the queue has answered: the page of the session it began in, wired for
\* the session there is now; wiring the sign-in page finds none of its controls.
FinishRender(i) ==
    /\ renders[i] # None
    /\ page' = IF session # None THEN renders[i].by ELSE "dead"
    /\ weight' = IF session # None THEN Carried(renders[i]) ELSE None
    /\ taps' = Detached
    /\ renders' = [renders EXCEPT ![i] = None]
    /\ UNCHANGED <<sack, app, readings, polls, shows, signOuts, assigned>>

-----------------------------------------------------------------------------
(* Evidence                                                                *)

\* The scale's reading, or the keyboard.
Type ==
    /\ OnScreen /\ ~ Told
    /\ weight # sack
    /\ weight' = sack
    /\ UNCHANGED <<sack, app, page, awaiting, signOuts, assigned>>

Shoots == OnScreen /\ ~ busy

\* The camera's change event, up to the hash.
Shoot ==
    /\ Shoots /\ ~ Told
    /\ readings' = readings \cup {sack}
    /\ busy' = TRUE
    /\ UNCHANGED <<sack, session, photo, jobs, activeJob, doorProof, lastProof, page, weight,
                   taps, renders, polls, shows, signOuts, assigned>>

\* "Hash first, adopt second"; a photo that cannot be read leaves the one before.
ReadPhoto(s, readable) ==
    /\ s \in readings
    /\ readings' = readings \ {s}
    /\ photo' = IF readable THEN s ELSE photo
    /\ busy' = FALSE
    /\ UNCHANGED <<sack, session, jobs, activeJob, doorProof, lastProof, page, weight,
                   taps, renders, polls, shows, signOuts, assigned>>

\* The collector reaches for another sack once this one is said to be recorded.
NextSack(s) ==
    /\ Told
    /\ s # sack /\ Recorded(s) = {}
    /\ sack' = s
    /\ UNCHANGED <<app, page, weight, awaiting, signOuts, assigned>>

-----------------------------------------------------------------------------
(* commit()                                                                *)

Complete == weight # None /\ photo # None

\* Up to its first await.  Nothing keeps the button from a second tap.
Commit(k) ==
    /\ OnScreen
    /\ taps[k].at = "untapped" /\ \A l \in 1..(k - 1) : taps[l].at # "untapped"
    /\ Complete
    /\ taps' = [taps EXCEPT ![k] =
          [at |-> IF activeJob = None THEN "storing" ELSE "collecting",
           weight |-> weight, photo |-> photo, by |-> session, job |-> activeJob,
           attached |-> TRUE, landed |-> FALSE]]
    /\ UNCHANGED <<sack, app, page, weight, readings, renders, polls, shows, signOuts, assigned>>

\* enqueue() ends: the record is in IndexedDB, or there is no room and the handler throws.
Enqueue(k, room) ==
    /\ taps[k].at = "storing"
    /\ taps' = [taps EXCEPT ![k].at = IF room THEN "coding" ELSE "failed", ![k].landed = room]
    /\ UNCHANGED <<sack, app, page, weight, readings, renders, polls, shows, signOuts, assigned>>

\* POST /requests/:id/collect reaches a server where the job is still this collector's.
Collect(k) ==
    /\ taps[k].at \in {"collecting", "failed"}
    /\ taps[k].job # None /\ assigned[taps[k].job] = taps[k].by
    /\ assigned' = [assigned EXCEPT ![taps[k].job] = None]
    /\ taps' = [taps EXCEPT ![k].at = IF @ = "collecting" THEN "coding" ELSE @, ![k].landed = TRUE]
    /\ UNCHANGED <<sack, app, page, weight, readings, renders, polls, shows, signOuts>>

\* Slip: a pickup that fails clears the evidence like one that succeeds.
PhotoAfterFailureCleared == None

PhotoAfterFailure == photo

\* Offline, refused, or no answer: the failure is on screen and the evidence kept.  What
\* the phone has given up on may still be served.
CollectFails(k) ==
    /\ \/ taps[k].at = "collecting"
       \/ taps[k].at = "coding" /\ taps[k].job # None
    /\ taps' = [taps EXCEPT ![k].at = "failed"]
    /\ photo' = PhotoAfterFailure
    /\ Repaints(weight)
    /\ UNCHANGED <<sack, session, busy, jobs, activeJob, doorProof, lastProof, weight, readings, polls, shows, signOuts, assigned>>

\* Slip: the weight stays for the next sack.
WeightAfterKept(k) == weight

\* The field it was tapped beside is blanked; another one keeps what it shows.
WeightAfter(k) == IF taps[k].attached THEN None ELSE weight

\* Slip: the photo stays beside the next sack.
PhotoAfterKept == photo

PhotoAfter == None

\* The code is drawn: proof on screen, the pickup off the list, the evidence cleared.
FinishCommit(k) ==
    /\ taps[k].at = "coding"
    /\ IF taps[k].job = None
         THEN /\ lastProof' = k
              /\ UNCHANGED <<jobs, activeJob, doorProof>>
         ELSE /\ doorProof' = taps[k].job
              /\ activeJob' = None
              /\ jobs' = jobs \ {taps[k].job}
              /\ UNCHANGED lastProof
    /\ photo' = PhotoAfter
    /\ busy' = FALSE
    /\ weight' = WeightAfter(k)
    /\ taps' = [taps EXCEPT ![k].at = "over"]
    /\ Repaints(weight')
    /\ UNCHANGED <<sack, session, readings, polls, shows, signOuts, assigned>>

-----------------------------------------------------------------------------
(* Pickups                                                                 *)

\* The operator dispatches, reassigns or cancels.
Dispatch(j, c) ==
    /\ \A k \in 1..MaxTaps : ~ (taps[k].job = j /\ taps[k].landed)
    /\ assigned[j] # c
    /\ assigned' = [assigned EXCEPT ![j] = c]
    /\ UNCHANGED <<sack, app, page, weight, awaiting, signOuts>>

\* pollJobs() up to its await; the server answers for the device of the session that asks.
StartPoll ==
    /\ session # None
    /\ polls = {}
    /\ polls' = {{j \in Jobs : assigned[j] = session}}
    /\ UNCHANGED <<sack, app, page, weight, readings, taps, renders, shows, signOuts, assigned>>

\* "Drop it if the operator reassigned or cancelled it".
KeptActive(list) == IF activeJob \in list THEN activeJob ELSE None

\* pollJobs() with an answer; without one the list stays, with a note beside it.
FinishPoll(p) ==
    /\ jobs' = p
    /\ activeJob' = KeptActive(p)
    /\ polls' = polls \ {p}
    /\ Repaints(weight)
    /\ UNCHANGED <<sack, session, photo, busy, doorProof, lastProof, weight, readings, taps, shows,
                   signOuts, assigned>>

LosePoll(p) ==
    /\ polls' = polls \ {p}
    /\ Repaints(weight)
    /\ UNCHANGED <<sack, app, weight, readings, taps, shows, signOuts, assigned>>

\* A second tap on the pickup being worked clears it.
SelectJob(j) ==
    /\ OnScreen
    /\ j \in jobs
    /\ activeJob' = IF activeJob = j THEN None ELSE j
    /\ Repaints(weight)
    /\ UNCHANGED <<sack, session, photo, busy, jobs, doorProof, lastProof, weight, readings, taps,
                   polls, shows, signOuts, assigned>>

DismissDoor ==
    /\ OnScreen
    /\ doorProof # None
    /\ doorProof' = None
    /\ Repaints(weight)
    /\ UNCHANGED <<sack, session, photo, busy, jobs, activeJob, lastProof, weight, readings, taps,
                   polls, shows, signOuts, assigned>>

DismissProof ==
    /\ OnScreen
    /\ lastProof # None
    /\ lastProof' = None
    /\ Repaints(weight)
    /\ UNCHANGED <<sack, session, photo, busy, jobs, activeJob, doorProof, weight, readings, taps,
                   polls, shows, signOuts, assigned>>

\* showClaim() of a queued weigh-in, up to its last await; and after it.
StartShow(k) ==
    /\ OnScreen
    /\ shows = {}
    /\ taps[k].landed /\ taps[k].job = None
    /\ shows' = {k}
    /\ UNCHANGED <<sack, app, page, weight, readings, taps, renders, polls, signOuts, assigned>>

FinishShow(k) ==
    /\ k \in shows
    /\ lastProof' = k
    /\ shows' = shows \ {k}
    /\ Repaints(weight)
    /\ UNCHANGED <<sack, session, photo, busy, jobs, activeJob, doorProof, weight, readings, taps,
                   polls, signOuts, assigned>>

-----------------------------------------------------------------------------
(* Signing out and in                                                      *)

\* Slip: the pickups stay.
JobsAfterSignOutKept == jobs

JobsAfterSignOut == {}

\* "Everything tied to the collector who was signed in"; the photo is not among it.
SignOut ==
    /\ OnScreen /\ session # None
    /\ signOuts < MaxSignOuts
    /\ signOuts' = signOuts + 1
    /\ session' = None
    /\ jobs' = JobsAfterSignOut /\ activeJob' = None /\ doorProof' = None /\ lastProof' = None
    /\ page' = "sign in"
    /\ weight' = None
    /\ taps' = Detached
    /\ UNCHANGED <<sack, photo, busy, readings, renders, polls, shows, assigned>>

SignIn(c) ==
    /\ page = "sign in"
    /\ session = None
    /\ session' = c
    /\ Free # {}
    /\ renders' = [renders EXCEPT ![CHOOSE i \in Free : TRUE] = [by |-> c, weight |-> None]]
    /\ UNCHANGED <<sack, photo, busy, jobs, activeJob, doorProof, lastProof, page, weight, readings,
                   taps, polls, shows, signOuts, assigned>>

-----------------------------------------------------------------------------
Next ==
    \/ Refresh \/ \E i \in 1..MaxRenders : FinishRender(i)
    \/ Type \/ Shoot \/ \E s \in Sacks : NextSack(s) \/ \E readable \in BOOLEAN : ReadPhoto(s, readable)
    \/ \E k \in 1..MaxTaps :
         \/ Commit(k) \/ (\E room \in BOOLEAN : Enqueue(k, room))
         \/ Collect(k) \/ CollectFails(k) \/ FinishCommit(k)
         \/ StartShow(k) \/ FinishShow(k)
    \/ \E j \in Jobs : SelectJob(j) \/ \E c \in Collectors \cup {None} : Dispatch(j, c)
    \/ StartPoll \/ \E p \in polls : FinishPoll(p) \/ LosePoll(p)
    \/ DismissDoor \/ DismissProof
    \/ SignOut \/ \E c \in Collectors : SignIn(c)

Spec == Init /\ [][Next]_vars

-----------------------------------------------------------------------------
\* The photo proves the weight beside it: no weigh-in is signed with the weight of one
\* sack and the photo of another.
EvidenceIsOfOneSack == \A k \in 1..MaxTaps : taps[k].weight = taps[k].photo

\* One sack, one weigh-in.
SackRecordedOnce == \A s \in Sacks : Cardinality(Recorded(s)) <= 1

\* "The failure is already on screen; keep the evidence": a photo leaves the screen
\* without another in its place only when the weigh-in it proves is recorded.
KeepsEvidence ==
    photo # None /\ photo' = None =>
        \E k \in 1..MaxTaps : taps'[k].landed /\ taps'[k].photo = photo

\* With no render under way, the name on the page is the one that signs.
PageShowsSession ==
    (\A i \in 1..MaxRenders : renders[i] = None) =>
        page = IF session = None THEN "sign in" ELSE session

\* The pickup that decides where the next weigh-in goes is one the collector sees listed.
ActiveJobIsListed == activeJob # None => activeJob \in jobs

\* "Whoever signs in next does not inherit their pickups or a door code".
NothingToInherit == session = None => jobs = {} /\ doorProof = None /\ lastProof = None

=============================================================================
