---------------------------- MODULE MobileQueue ----------------------------
(***************************************************************************)
(* The mobile app's offline queue.  The whole queue is one value under one   *)
(* key, so every change reads all of it and, a few awaits later, writes all  *)
(* of it back.  A weigh-in being saved and a sync pass do so independently.  *)
(*                                                                         *)
(* Sync passes belong to a mounted queue screen (useAutoSync), which runs     *)
(* one at a time; the pass of a screen that was left goes on.  The app may    *)
(* be killed at any point, and prunes when it starts, before any screen.     *)
(*                                                                         *)
(* One weigh-in is saved at a time.  The delivery of photos is left out, and  *)
(* ingest() is one step here: CaptureSync has both.                          *)
(***************************************************************************)
EXTENDS Naturals, FiniteSets

CONSTANTS
    Records,
    Screens,       \* bound: queue screens that are up, or whose pass is still running
    MaxHeld,       \* bound: copies of the queue held at once to be written back
    MaxKills,      \* bound: how often the app is killed
    None

ASSUME MobileAssumption ==
    /\ None \notin Records \cup Screens
    /\ IsFiniteSet(Screens)
    /\ MaxHeld \in Nat /\ MaxKills \in Nat

VARIABLES
    queue,         \* the status of each record under QUEUE_KEY, "none" if it has none
    taken,         \* weigh-ins the collector was told are saved
    saving,        \* the weigh-in enqueue() is saving, with its copy of the queue
    mounted,       \* the queue screen that is up, None while capture is
    passes,        \* the sync pass of each screen
    kills,
    events         \* collection_events on the server

vars == <<queue, taken, saving, mounted, passes, kills, events>>

-----------------------------------------------------------------------------
Verdict == {"clean", "quarantined"}
QueueStatus == {"queued", "syncing", "synced", "rejected"}
Queue == [Records -> QueueStatus \cup {"none"}]

\* A record and, while it is being changed, the copy of the queue update() has read.
Pass ==
    [at: {"idle", "records", "marking", "posting", "answered", "settling"},
     todo: SUBSET Records, r: Records \cup {None},
     status: QueueStatus \cup {"none"}, copy: Queue]

NoCopy == [r \in Records |-> "none"]
Idle == [at |-> "idle", todo |-> {}, r |-> None, status |-> "none", copy |-> NoCopy]
NotSaving == [r |-> None, copy |-> NoCopy]

TypeOK ==
    /\ queue \in Queue
    /\ taken \subseteq Records
    /\ saving \in [r: Records \cup {None}, copy: Queue]
    /\ mounted \in Screens \cup {None}
    /\ passes \in [Screens -> Pass]
    /\ kills \in 0..MaxKills
    /\ events \in [Records -> Verdict \cup {"absent"}]

Init ==
    /\ queue = NoCopy
    /\ taken = {}
    /\ saving = NotSaving
    /\ mounted = None
    /\ passes = [h \in Screens |-> Idle]
    /\ kills = 0
    /\ events = [r \in Records |-> "absent"]

Pending == {r \in Records : queue[r] \in {"queued", "syncing"}}

Holding ==
    Cardinality({h \in Screens : passes[h].at \in {"marking", "settling"}})
      + (IF saving.r = None THEN 0 ELSE 1)

MayRead == Holding < MaxHeld

\* update() of a copy: nothing for a record the copy does not have.
Updated(copy, r, status) == IF copy[r] = "none" THEN copy ELSE [copy EXCEPT ![r] = status]

-----------------------------------------------------------------------------
(* Screens and capture                                                     *)

\* The tab of the queue mounts a screen of its own.
Mount(h) == mounted = None /\ passes[h] = Idle /\ mounted' = h

ShowQueue ==
    /\ \E h \in Screens : Mount(h)
    /\ UNCHANGED <<queue, taken, saving, passes, kills, events>>

ShowCapture ==
    /\ mounted # None
    /\ mounted' = None
    /\ UNCHANGED <<queue, taken, saving, passes, kills, events>>

\* Slip: the queue is saved without what was in it.
AppendedAlone(copy, r) == [NoCopy EXCEPT ![r] = "queued"]

Appended(copy, r) == [copy EXCEPT ![r] = "queued"]

EnqueueRead(r) ==
    /\ mounted = None
    /\ saving.r = None
    /\ r \notin taken
    /\ MayRead
    /\ saving' = [r |-> r, copy |-> queue]
    /\ UNCHANGED <<queue, taken, mounted, passes, kills, events>>

\* onCaptured() then shows the queue, if no screen is up and one can be.
EnqueueWrite ==
    /\ saving.r # None
    /\ queue' = Appended(saving.copy, saving.r)
    /\ taken' = taken \cup {saving.r}
    /\ saving' = NotSaving
    /\ IF \E h \in Screens : mounted = None /\ passes[h] = Idle
         THEN \E h \in Screens : Mount(h)
         ELSE UNCHANGED mounted
    /\ UNCHANGED <<passes, kills, events>>

-----------------------------------------------------------------------------
(* A sync pass                                                             *)

\* On mount, on a timer, on return to the foreground, or by hand.
Begin(h) ==
    /\ mounted = h
    /\ passes[h].at = "idle"
    /\ Pending # {}
    /\ passes' = [passes EXCEPT ![h] = [Idle EXCEPT !.at = "records", !.todo = Pending]]
    /\ UNCHANGED <<queue, taken, saving, mounted, kills, events>>

\* update(): the queue is read ...
MarkRead(h) ==
    /\ passes[h].at = "records"
    /\ MayRead
    /\ \E r \in passes[h].todo :
         passes' = [passes EXCEPT ![h].at = "marking", ![h].todo = @ \ {r}, ![h].r = r,
                                  ![h].status = "syncing", ![h].copy = queue]
    /\ UNCHANGED <<queue, taken, saving, mounted, kills, events>>

\* ... and all of it is written.
Writes(h) == queue' = Updated(passes[h].copy, passes[h].r, passes[h].status)

MarkWrite(h) ==
    /\ passes[h].at = "marking"
    /\ Writes(h)
    /\ passes' = [passes EXCEPT ![h].at = "posting", ![h].copy = NoCopy]
    /\ UNCHANGED <<taken, saving, mounted, kills, events>>

\* Slip: whatever the request came to, the record is done with.
StatusAfterFailureDone == "synced"

StatusAfterFailure == "queued"

\* The server says quarantined of every duplicate; only the first is a rejection.
StatusAfterAnswer(duplicate, verdict) ==
    IF ~ duplicate /\ verdict = "quarantined" THEN "rejected" ELSE "synced"

\* The POST: served or not, and if served, answered in time or not.
Deliver(h, served, answered) ==
    LET r == passes[h].r
        duplicate == events[r] # "absent"
    IN  /\ passes[h].at = "posting"
        /\ \E verdict \in Verdict :
             /\ events' = IF served /\ ~ duplicate THEN [events EXCEPT ![r] = verdict] ELSE events
             /\ passes' = [passes EXCEPT ![h].at = "answered",
                   ![h].status = IF served /\ answered
                                   THEN StatusAfterAnswer(duplicate, verdict)
                                   ELSE StatusAfterFailure]
        /\ UNCHANGED <<queue, taken, saving, mounted, kills>>

SettleRead(h) ==
    /\ passes[h].at = "answered"
    /\ MayRead
    /\ passes' = [passes EXCEPT ![h].at = "settling", ![h].copy = queue]
    /\ UNCHANGED <<queue, taken, saving, mounted, kills, events>>

SettleWrite(h) ==
    /\ passes[h].at = "settling"
    /\ Writes(h)
    /\ passes' = [passes EXCEPT ![h] = [Idle EXCEPT !.at = "records", !.todo = passes[h].todo]]
    /\ UNCHANGED <<taken, saving, mounted, kills, events>>

Finish(h) ==
    /\ passes[h].at = "records"
    /\ passes[h].todo = {}
    /\ passes' = [passes EXCEPT ![h] = Idle]
    /\ UNCHANGED <<queue, taken, saving, mounted, kills, events>>

-----------------------------------------------------------------------------

\* Those of them past the retention window go.
Prunable == {r \in Records : queue[r] = "synced"}

\* Killed, started again and pruned.
Restart ==
    /\ kills < MaxKills
    /\ kills' = kills + 1
    /\ \E aged \in SUBSET Prunable :
         queue' = [r \in Records |-> IF r \in aged THEN "none" ELSE queue[r]]
    /\ saving' = NotSaving
    /\ mounted' = None
    /\ passes' = [h \in Screens |-> Idle]
    /\ UNCHANGED <<taken, events>>

Next ==
    \/ ShowQueue \/ ShowCapture
    \/ \E r \in Records : EnqueueRead(r)
    \/ EnqueueWrite
    \/ \E h \in Screens :
         \/ Begin(h) \/ MarkRead(h) \/ MarkWrite(h) \/ SettleRead(h) \/ SettleWrite(h) \/ Finish(h)
         \/ \E served, answered \in BOOLEAN : Deliver(h, served, answered)
    \/ Restart

Spec == Init /\ [][Next]_vars

-----------------------------------------------------------------------------
\* What the phone believes is true of the server, through lost answers, overlapping
\* passes and copies of the queue that are out of date.
PhoneKnowsServer ==
    \A r \in Records :
        /\ queue[r] = "synced" => events[r] # "absent"
        /\ queue[r] = "rejected" => events[r] = "quarantined"

\* "Records leave the queue only once the server has acknowledged them": a weigh-in the
\* collector was told is saved is in the queue until the server has it.
NothingLost == \A r \in taken : queue[r] = "none" => events[r] # "absent"

\* "Rejected records are kept: they are the collector's evidence of work that was
\* refused": a record once rejected stays there as rejected.
RejectionStands ==
    [][\A r \in Records : queue[r] = "rejected" => queue'[r] = "rejected"]_vars

=============================================================================
