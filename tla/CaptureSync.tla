---------------------------- MODULE CaptureSync ----------------------------
(***************************************************************************)
(* The capture app's offline queue: weigh-ins are signed and stored on the  *)
(* phone, and synced to the server whenever a connection allows, first the  *)
(* record with its claim code, then its photo.                             *)
(*                                                                         *)
(* A sync pass (syncPending) works through the records it found pending and *)
(* then through the photos left over; syncInFlight admits one pass at a     *)
(* time.  The app may be closed at any point; it may be reopened.  A POST    *)
(* the phone has given up on, or whose phone is gone, may still be served.  *)
(* The server's ingest() is split where it has looked the weigh-in up and   *)
(* where it has saved it and not yet its claim ticket.                     *)
(*                                                                         *)
(* One browser tab.  Every weigh-in is one the server accepts, cleanly or    *)
(* into quarantine: payloads it refuses as malformed are left out.          *)
(***************************************************************************)
EXTENDS Naturals, FiniteSets

CONSTANTS
    Records,
    MaxCloses,     \* bound: how often the app is closed
    MaxLate,       \* bound: POSTs still under way that nobody waits for; more are lost
    None

ASSUME SyncAssumption ==
    /\ None \notin Records
    /\ MaxCloses \in Nat /\ MaxLate \in Nat

VARIABLES
    \* the phone
    store,         \* the IndexedDB rows, None where there is none
    taken,         \* weigh-ins ever captured
    old,           \* those past the retention window
    closes,        \* how often the app was closed; it is open iff pass is not "closed"
    pass,          \* the sync pass
    \* between phone and server
    posts,
    \* the server
    events,        \* collection_events: "absent", "clean" or "quarantined"
    tickets,       \* weigh-ins with a claim ticket
    photos         \* weigh-ins whose photo is on file

vars == <<store, taken, old, closes, pass, posts, events, tickets, photos>>
phone == <<store, taken, old, closes, pass>>
server == <<events, tickets, photos>>

-----------------------------------------------------------------------------
Verdict == {"clean", "quarantined"}

Row == [status: {"queued", "syncing", "synced", "rejected"}, eventId: BOOLEAN, uploaded: BOOLEAN]

ASSUME NoRowAssumption == None \notin Row

\* What the pass still has to do, and the record it is at.
Pass ==
    [at: {"closed", "idle", "records", "posting", "failed", "photo", "photos", "upload"},
     todo: SUBSET Records, r: Records \cup {None}]

Resting == [at |-> "idle", todo |-> {}, r |-> None]
Closed == [Resting EXCEPT !.at = "closed"]

\* A POST /events; "live" while the phone waits for its answer.
Post ==
    [r: Records, live: BOOLEAN, at: {"sent", "saving", "ticketing", "answered"},
     answer: [quarantined: BOOLEAN, duplicate: BOOLEAN]]

TypeOK ==
    /\ store \in [Records -> Row \cup {None}]
    /\ taken \subseteq Records
    /\ old \subseteq taken
    /\ closes \in 0..MaxCloses
    /\ pass \in Pass
    /\ posts \subseteq Post
    /\ events \in [Records -> Verdict \cup {"absent"}]
    /\ tickets \subseteq Records
    /\ photos \subseteq Records

Init ==
    /\ store = [r \in Records |-> None]
    /\ taken = {} /\ old = {} /\ closes = 0
    /\ pass = Resting
    /\ posts = {}
    /\ events = [r \in Records |-> "absent"]
    /\ tickets = {} /\ photos = {}

Status(r) == IF store[r] = None THEN "none" ELSE store[r].status

\* Slip: what was being sent when the app closed is not pending.
PendingQueued == {r \in Records : Status(r) = "queued"}

\* pending(): "syncing" too, for a record stuck there when the app closed.
Pending == {r \in Records : Status(r) \in {"queued", "syncing"}}

PendingPhotos == {r \in Records : Status(r) = "synced" /\ store[r].eventId /\ ~ store[r].uploaded}

Live == {m \in posts : m.live}

\* The messages once the phone has stopped waiting.
Abandoned ==
    LET late == {[m EXCEPT !.live = FALSE] : m \in posts}
    IN  IF Cardinality(late) <= MaxLate THEN late ELSE posts \ Live

\* The message as the server has moved it on.
Moves(m, to) == posts' = (posts \ {m}) \cup {to}

-----------------------------------------------------------------------------
(* Capture and the queue                                                   *)

\* commit(): signed, then stored; the sync it starts is the next pass.
Capture(r) ==
    /\ pass.at # "closed"
    /\ r \notin taken
    /\ taken' = taken \cup {r}
    /\ store' = [store EXCEPT ![r] = [status |-> "queued", eventId |-> FALSE, uploaded |-> FALSE]]
    /\ UNCHANGED <<old, closes, pass, posts, server>>

Discardable(r) == Status(r) = "rejected"

Discard(r) ==
    /\ pass.at # "closed"
    /\ Discardable(r)
    /\ store' = [store EXCEPT ![r] = None]
    /\ UNCHANGED <<taken, old, closes, pass, posts, server>>

Age(r) ==
    /\ r \in taken \ old
    /\ old' = old \cup {r}
    /\ UNCHANGED <<store, taken, closes, pass, posts, server>>

\* Slip: a record is pruned with its photo still on the phone only.
FinishedUnsent(r) == Status(r) = "synced"

Finished(r) == Status(r) = "synced" /\ store[r].uploaded

\* The app starts, and prunes.
Open ==
    /\ pass.at = "closed"
    /\ pass' = Resting
    /\ store' = [r \in Records |-> IF r \in old /\ Finished(r) THEN None ELSE store[r]]
    /\ UNCHANGED <<taken, old, closes, posts, server>>

\* Whatever was running stops; what was sent is under way.
Close ==
    /\ pass.at # "closed"
    /\ closes < MaxCloses
    /\ closes' = closes + 1
    /\ pass' = Closed
    /\ posts' = Abandoned
    /\ UNCHANGED <<store, taken, old, server>>

-----------------------------------------------------------------------------
(* A sync pass                                                             *)

\* The button, the timer, "online" and a fresh capture: one pass at a time.
Start ==
    /\ pass.at = "idle"
    /\ Pending \cup PendingPhotos # {}
    /\ pass' = [Resting EXCEPT !.at = "records", !.todo = Pending]
    /\ UNCHANGED <<store, taken, old, closes, posts, server>>

NextRecord ==
    /\ pass.at = "records"
    /\ \E r \in pass.todo :
         /\ store' = [store EXCEPT ![r].status = "syncing"]
         /\ pass' = [pass EXCEPT !.at = "posting", !.todo = @ \ {r}, !.r = r]
         /\ posts' = posts \cup {[r |-> r, live |-> TRUE, at |-> "sent",
                                  answer |-> [quarantined |-> FALSE, duplicate |-> FALSE]]}
    /\ UNCHANGED <<taken, old, closes, server>>

\* No connection, an error, or the timeout: the phone stops waiting.
GiveUp ==
    /\ pass.at = "posting"
    /\ pass' = [pass EXCEPT !.at = "failed"]
    /\ posts' = Abandoned
    /\ UNCHANGED <<store, taken, old, closes, server>>

StatusAfterFailure == "queued"

\* catch: back into the queue.
Requeue ==
    /\ pass.at = "failed"
    /\ store' = [store EXCEPT ![pass.r].status = StatusAfterFailure]
    /\ pass' = [pass EXCEPT !.at = "records"]
    /\ UNCHANGED <<taken, old, closes, posts, server>>

\* The server says quarantined of every duplicate too.
Refused(answer) == answer.quarantined /\ ~ answer.duplicate

Answer ==
    /\ pass.at = "posting"
    /\ \E m \in Live :
         /\ m.at = "answered"
         /\ posts' = posts \ {m}
         /\ IF Refused(m.answer)
              THEN /\ store' = [store EXCEPT ![pass.r].status = "rejected", ![pass.r].eventId = TRUE]
                   /\ pass' = [pass EXCEPT !.at = "records"]
              ELSE /\ pass' = [pass EXCEPT !.at = "photo"]
                   /\ UNCHANGED store
    /\ UNCHANGED <<taken, old, closes, server>>

\* tryUploadPhoto(): stored and acknowledged, or not acknowledged and perhaps stored.
Uploads(r, acknowledged) ==
    /\ events[r] # "absent"
    /\ \/ photos' = photos \cup {r}
       \/ ~ acknowledged /\ photos' = photos

\* Slip: an upload that failed counts as one.
UploadedAnyhow(acknowledged) == TRUE

Uploaded(acknowledged) == acknowledged

SyncPhoto(acknowledged) ==
    /\ pass.at = "photo"
    /\ Uploads(pass.r, acknowledged)
    /\ store' = [store EXCEPT ![pass.r] =
          [status |-> "synced", eventId |-> TRUE, uploaded |-> Uploaded(acknowledged)]]
    /\ pass' = [pass EXCEPT !.at = "records"]
    /\ UNCHANGED <<taken, old, closes, posts, events, tickets>>

\* The second pass.
StartPhotos ==
    /\ pass.at = "records"
    /\ pass.todo = {}
    /\ pass' = [Resting EXCEPT !.at = "photos", !.todo = PendingPhotos]
    /\ UNCHANGED <<store, taken, old, closes, posts, server>>

NextPhoto(acknowledged) ==
    /\ pass.at = "photos"
    /\ \E r \in pass.todo :
         /\ Uploads(r, acknowledged)
         /\ store' = IF acknowledged THEN [store EXCEPT ![r].uploaded = TRUE] ELSE store
         /\ pass' = [pass EXCEPT !.todo = @ \ {r}]
    /\ UNCHANGED <<taken, old, closes, posts, events, tickets>>

Finish ==
    /\ pass.at = "photos"
    /\ pass.todo = {}
    /\ pass' = Resting
    /\ UNCHANGED <<store, taken, old, closes, posts, server>>

-----------------------------------------------------------------------------
(* The server                                                              *)

\* What ingest() answers of a weigh-in it has.
Duplicate == [quarantined |-> TRUE, duplicate |-> TRUE]

IngestRead(m) ==
    /\ m.at = "sent"
    /\ IF events[m.r] = "absent"
         THEN Moves(m, [m EXCEPT !.at = "saving"])
         ELSE Moves(m, [m EXCEPT !.at = "ticketing", !.answer = Duplicate])
    /\ UNCHANGED <<phone, server>>

\* The row is inserted, or the unique index says another call was first.
IngestSave(m, verdict) ==
    /\ m.at = "saving"
    /\ IF events[m.r] = "absent"
         THEN /\ events' = [events EXCEPT ![m.r] = verdict]
              /\ Moves(m, [m EXCEPT !.at = "ticketing",
                                    !.answer = [quarantined |-> verdict = "quarantined", duplicate |-> FALSE]])
         ELSE /\ Moves(m, [m EXCEPT !.at = "answered", !.answer = Duplicate])
              /\ UNCHANGED events
    /\ UNCHANGED <<phone, tickets, photos>>

RecordClaim(m) ==
    /\ m.at = "ticketing"
    /\ tickets' = tickets \cup {m.r}
    /\ Moves(m, [m EXCEPT !.at = "answered"])
    /\ UNCHANGED <<phone, events, photos>>

\* Lost on the way, or with the server process; of a live one the phone gives up first.
Lose(m) ==
    /\ ~ m.live
    /\ posts' = posts \ {m}
    /\ UNCHANGED <<phone, server>>

-----------------------------------------------------------------------------
Serve(m) == IngestRead(m) \/ (\E verdict \in Verdict : IngestSave(m, verdict)) \/ RecordClaim(m)

Next ==
    \/ \E r \in Records : Capture(r) \/ Discard(r) \/ Age(r)
    \/ Open \/ Close
    \/ Start \/ NextRecord \/ GiveUp \/ Requeue \/ Answer \/ StartPhotos \/ Finish
    \/ \E acknowledged \in BOOLEAN : SyncPhoto(acknowledged) \/ NextPhoto(acknowledged)
    \/ \E m \in posts : Serve(m) \/ Lose(m)

Spec == Init /\ [][Next]_vars

\* The app is opened again, its timer keeps starting passes and a pass keeps going;
\* and connectivity is bad, not absent: what is sent again and again is at last
\* served, and answered, while the phone waits, and so is a photo.
Fairness ==
    /\ WF_vars(Open) /\ WF_vars(Start)
    /\ WF_vars(NextRecord) /\ WF_vars(Requeue) /\ WF_vars(StartPhotos) /\ WF_vars(Finish)
    /\ WF_vars(\E acknowledged \in BOOLEAN : SyncPhoto(acknowledged) \/ NextPhoto(acknowledged))
    /\ \A r \in Records :
         /\ SF_vars(\E m \in Live : m.r = r /\ IngestRead(m))
         /\ SF_vars(\E m \in Live, verdict \in Verdict : m.r = r /\ IngestSave(m, verdict))
         /\ SF_vars(\E m \in Live : m.r = r /\ RecordClaim(m))
         /\ SF_vars(pass.r = r /\ Answer)
         /\ SF_vars(r \in pass.todo /\ store[r].uploaded = FALSE /\ NextPhoto(TRUE) /\ store'[r].uploaded)

FairSpec == Spec /\ Fairness

-----------------------------------------------------------------------------
\* "Records are only ever removed after the server acknowledges them": a weigh-in that
\* has left the phone is on the server, and one that counts has its photo there.
NothingLost ==
    \A r \in taken : store[r] = None =>
        /\ events[r] # "absent"
        /\ events[r] = "clean" => r \in photos

\* What the phone believes is true of the server, whatever answers were lost: synced
\* is recorded, uploaded is on file, and only a quarantined weigh-in is rejected.
PhoneKnowsServer ==
    \A r \in taken : store[r] # None =>
        /\ Status(r) = "synced" => events[r] # "absent"
        /\ store[r].uploaded => r \in photos
        /\ Status(r) = "rejected" => events[r] = "quarantined"

\* A record the server has answered for is not sent again, and its answer stands.
AnswersStand ==
    [][\A r \in Records : Status(r) \in {"synced", "rejected"} => Status(r)' \in {Status(r), "none"}]_vars

\* "A dropped weigh-in is a tonne nobody gets paid for": every weigh-in is in the end
\* rejected, or recorded with its photo, however often the app closes half-way.
Settled(r) == Status(r) \in {"none", "rejected"} \/ (Status(r) = "synced" /\ store[r].uploaded)

EveryWeighInSettles == \A r \in Records : r \in taken ~> Settled(r)

-----------------------------------------------------------------------------
(* What the documentation says                                             *)

\* "A rejected weigh-in is unpaid work they can still fix if they learn about it
\* now": a quarantined weigh-in is never shown to the collector as synced.
QuarantineIsShown == \A r \in taken : Status(r) = "synced" => events[r] = "clean"

\* A retry records the claim ticket the first attempt may not have: once the phone is
\* told that the weigh-in is recorded, so is, or soon will be, its customer's ticket.
SyncedHasTicket ==
    \A r \in taken :
        Status(r) \in {"synced", "rejected"} => r \in tickets \/ \E m \in posts : m.r = r

=============================================================================
