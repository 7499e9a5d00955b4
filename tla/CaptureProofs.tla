--------------------------- MODULE CaptureProofs ---------------------------
(***************************************************************************)
(* What the capture app promises about its queue, proved for any number of *)
(* weigh-ins, of POSTs that nobody waits for any more and of times the app  *)
(* is closed: no weigh-in is lost, what the phone believes of the server is *)
(* true, and an answer stands.                                             *)
(***************************************************************************)
EXTENDS CaptureSync, TLAPS

-----------------------------------------------------------------------------
(* The inductive invariant                                                 *)

\* What a row of the phone says of its weigh-in.
RowKnows(row, r) ==
    /\ row.status = "synced" => events[r] # "absent"
    /\ row.uploaded => r \in photos
    /\ row.status = "rejected" => events[r] = "quarantined"

Knows == \A r \in Records : store[r] # None => RowKnows(store[r], r)

\* What has to be on the server before a row may go.
Kept(r) == events[r] # "absent" /\ (events[r] = "clean" => r \in photos)

Lost ==
    /\ \A r \in taken : store[r] = None => Kept(r)
    /\ \A r \in Records : store[r] # None => r \in taken

\* The record a pass is at is one it is sending; those it has still to send are pending, and
\* those whose photos it has still to send are synced.
Sending == {"posting", "failed", "photo"}

PassOK ==
    /\ pass.at \in Sending => pass.r \in Records /\ Status(pass.r) = "syncing" /\ pass.r \notin pass.todo
    /\ pass.at \in Sending \cup {"records"} => pass.todo \subseteq Pending
    /\ pass.at = "photos" => \A r \in pass.todo : Status(r) = "synced"

\* The phone waits for one answer, about the record it is at; and no answer calls a weigh-in
\* quarantined that is not.
PostsOK ==
    /\ \A m \in Live : pass.at = "posting" /\ m.r = pass.r
    /\ \A m, n \in Live : m = n
    /\ \A m \in posts : Refused(m.answer) => events[m.r] = "quarantined"

Inv == TypeOK /\ Knows /\ Lost /\ PassOK /\ PostsOK

-----------------------------------------------------------------------------
LEMMA InvInit == Init => Inv
<1> SUFFICES ASSUME Init PROVE Inv OBVIOUS
<1>1. TypeOK BY SyncAssumption DEF Init, TypeOK, Pass, Resting
<1>2. Knows /\ Lost BY DEF Init, Knows, Lost
<1>3. PassOK /\ PostsOK BY DEF Init, PassOK, PostsOK, Resting, Sending, Live
<1> QED BY <1>1, <1>2, <1>3 DEF Inv

LEMMA Facts ==
    ASSUME Inv
    PROVE  /\ store \in [Records -> Row \cup {None}] /\ taken \subseteq Records /\ old \subseteq taken
           /\ closes \in 0..MaxCloses /\ pass \in Pass /\ posts \subseteq Post
           /\ events \in [Records -> Verdict \cup {"absent"}]
           /\ tickets \subseteq Records /\ photos \subseteq Records
           /\ \A r \in Records : Status(r) # "none" => store[r] \in Row /\ Status(r) = store[r].status
           /\ \A r \in Records : store[r] = None => Status(r) = "none"
<1>1. TypeOK BY DEF Inv
<1>2. \A r \in Records : Status(r) # "none" => store[r] \in Row /\ Status(r) = store[r].status
  BY <1>1 DEF Status, TypeOK
<1> QED BY <1>1, <1>2 DEF TypeOK, Status

\* The phone writes one row, or deletes one; new weigh-ins have a row.
LEMMA RowWritten ==
    ASSUME Inv, NEW r \in Records, NEW row \in Row \cup {None}, store' = [store EXCEPT ![r] = row],
           events' = events, photos \subseteq photos',
           row # None => RowKnows(row, r)',
           row = None => Kept(r)',
           taken' = taken \/ taken' = taken \cup {r},
           row # None => r \in taken'
    PROVE  /\ store' \in [Records -> Row \cup {None}]
           /\ Knows' /\ Lost'
           /\ \A x \in Records \ {r} : store'[x] = store[x] /\ Status(x)' = Status(x)
           /\ store'[r] = row
           /\ row # None => Status(r)' = row.status
<1>1. /\ store \in [Records -> Row \cup {None}] /\ taken \subseteq Records
  BY Facts
<1>2. /\ store' \in [Records -> Row \cup {None}] /\ store'[r] = row
      /\ \A x \in Records \ {r} : store'[x] = store[x]
  BY <1>1
<1>3. Knows'
  <2> SUFFICES ASSUME NEW x \in Records, NEW y, y = store'[x], y # None PROVE RowKnows(y, x)'
    BY DEF Knows, RowKnows
  <2>1. CASE x = r
    <3>1. y = row BY <1>2, <2>1
    <3> QED BY <2>1, <3>1
  <2>2. CASE x # r
    <3>1. y = store[x] BY <1>2, <2>2
    <3>2. RowKnows(y, x) BY <3>1 DEF Inv, Knows
    <3> QED BY <3>2 DEF RowKnows
  <2> QED BY <2>1, <2>2
<1>4. Lost'
  <2> SUFFICES ASSUME NEW x \in Records
               PROVE  /\ x \in taken' /\ store'[x] = None => Kept(x)'
                      /\ store'[x] # None => x \in taken'
    BY <1>1 DEF Lost
  <2>1. CASE x = r BY <1>2, <2>1
  <2>2. CASE x # r
    <3>1. x \in taken' => x \in taken BY <2>2
    <3>2. x \in taken /\ store[x] = None => Kept(x) BY DEF Inv, Lost
    <3>3. Kept(x) => Kept(x)' BY DEF Kept
    <3>4. store[x] # None => x \in taken BY DEF Inv, Lost
    <3> QED BY <1>2, <2>2, <3>1, <3>2, <3>3, <3>4
  <2> QED BY <2>1, <2>2
<1> QED BY <1>2, <1>3, <1>4 DEF Status

LEMMA RowUpdated ==
    ASSUME Inv, NEW r \in Records, NEW row \in Row, store' = [store EXCEPT ![r] = row],
           events' = events, photos \subseteq photos',
           RowKnows(row, r)',
           taken' = taken \/ taken' = taken \cup {r}, r \in taken'
    PROVE  /\ store' \in [Records -> Row \cup {None}]
           /\ Knows' /\ Lost'
           /\ \A x \in Records \ {r} : store'[x] = store[x] /\ Status(x)' = Status(x)
           /\ Status(r)' = row.status
<1>1. row \in Row \cup {None} /\ row # None BY NoRowAssumption
<1>2. row = None => Kept(r)' BY <1>1
<1> QED BY <1>1, <1>2, RowWritten

\* A pass that is at one record is not disturbed by what becomes of another.
LEMMA PassStands ==
    ASSUME Inv, pass' = pass,
           \A x \in Records : Status(x)' = Status(x) \/ Status(x) \notin {"queued", "syncing", "synced"}
    PROVE  PassOK'
<1>1. \A x \in pass.todo : x \in Records BY Facts DEF Pass
<1>2. pass.at \in Sending => pass.r \in Records /\ Status(pass.r) = "syncing" /\ pass.r \notin pass.todo
  BY DEF Inv, PassOK
<1>3. pass.at \in Sending \cup {"records"} => \A x \in pass.todo : Status(x) \in {"queued", "syncing"}
  BY DEF Inv, PassOK, Pending
<1>4. pass.at = "photos" => \A x \in pass.todo : Status(x) = "synced" BY DEF Inv, PassOK
<1>5. pass.at \in Sending => Status(pass.r)' = "syncing" BY <1>2
<1>6. pass.at \in Sending \cup {"records"} => \A x \in pass.todo : Status(x)' \in {"queued", "syncing"}
  BY <1>1, <1>3
<1>7. pass.at = "photos" => \A x \in pass.todo : Status(x)' = "synced" BY <1>1, <1>4
<1> QED BY <1>1, <1>2, <1>5, <1>6, <1>7 DEF PassOK, Pending

\* The phone stands still while the server learns.
LEMMA ServerLearns ==
    ASSUME Inv, UNCHANGED phone,
           \A r \in Records : events[r] # "absent" => events'[r] = events[r],
           photos \subseteq photos'
    PROVE  Knows' /\ Lost' /\ PassOK'
<1>1. UNCHANGED <<store, taken, pass>> BY DEF phone
<1>2. taken \subseteq Records BY Facts
<1>3. Knows' BY <1>1 DEF Inv, Knows, RowKnows
<1>4. Lost' BY <1>1, <1>2 DEF Inv, Lost, Kept
<1>5. PassOK' BY <1>1 DEF Inv, PassOK, Pending, Status
<1> QED BY <1>3, <1>4, <1>5

\* Messages of before, or none that is waited for, once the phone has stopped waiting.
LEMMA NobodyWaits ==
    ASSUME Inv, posts' = Abandoned, events' = events
    PROVE  posts' \subseteq Post /\ PostsOK'
<1>1. posts \subseteq Post BY Facts
<1>2. PICK late : late = {[m EXCEPT !.live = FALSE] : m \in posts} OBVIOUS
<1>3. posts' = late \/ posts' = posts \ Live BY <1>2 DEF Abandoned
<1>4. CASE posts' = posts \ Live
  <2>1. Live' = {} BY <1>4 DEF Live
  <2> QED BY <1>1, <1>4, <2>1 DEF Inv, PostsOK
<1>5. CASE posts' = late
  <2>1. \A m \in late : m \in Post /\ ~ m.live /\ \E n \in posts : m.r = n.r /\ m.answer = n.answer
    BY <1>1, <1>2 DEF Post
  <2>2. Live' = {} BY <1>5, <2>1 DEF Live
  <2>3. \A m \in posts' : Refused(m.answer) => events[m.r] = "quarantined"
    BY <1>5, <2>1 DEF Inv, PostsOK
  <2> QED BY <1>5, <2>1, <2>2, <2>3 DEF PostsOK
<1> QED BY <1>3, <1>4, <1>5

\* No answer is waited for while the pass does something else.
LEMMA NothingLive ==
    ASSUME Inv, pass.at # "posting" PROVE Live = {}
BY DEF Inv, PostsOK

\* The messages stand while nothing is waited for.
LEMMA PostsStand ==
    ASSUME Inv, Live = {}, UNCHANGED <<posts, events>> PROVE posts' \subseteq Post /\ PostsOK'
BY Facts DEF Inv, PostsOK, Live

-----------------------------------------------------------------------------
(* Capture and the queue                                                   *)

\* What AnswersStand asks of a step.
Stand == \A r \in Records : Status(r) \in {"synced", "rejected"} => Status(r)' \in {Status(r), "none"}

LEMMA CaptureKeeps == ASSUME Inv, NEW r \in Records, Capture(r) PROVE Inv' /\ Stand
<1>1. PICK row : row = [status |-> "queued", eventId |-> FALSE, uploaded |-> FALSE] OBVIOUS
<1>2. /\ r \notin taken /\ taken' = taken \cup {r}
      /\ store' = [store EXCEPT ![r] = row]
      /\ UNCHANGED <<old, closes, pass, posts, events, tickets, photos>>
  BY <1>1 DEF Capture, server
<1>3. row \in Row /\ row.status = "queued" /\ ~ row.uploaded BY <1>1 DEF Row
<1>9. RowKnows(row, r)' BY <1>3 DEF RowKnows
<1>4. store[r] = None /\ Status(r) = "none" BY <1>2, Facts DEF Inv, Lost
<1>5. /\ store' \in [Records -> Row \cup {None}] /\ Knows' /\ Lost'
      /\ \A x \in Records \ {r} : Status(x)' = Status(x)
  BY <1>2, <1>3, <1>9, RowUpdated
<1>6. TypeOK' BY <1>2, <1>5, Facts DEF TypeOK
<1>7. PassOK' BY <1>2, <1>4, <1>5, PassStands
<1>8. PostsOK' BY <1>2 DEF Inv, PostsOK, Live
<1> QED BY <1>4, <1>5, <1>6, <1>7, <1>8 DEF Inv, Stand

LEMMA DiscardKeeps == ASSUME Inv, NEW r \in Records, Discard(r) PROVE Inv' /\ Stand
<1>1. /\ Status(r) = "rejected" /\ store' = [store EXCEPT ![r] = None]
      /\ UNCHANGED <<taken, old, closes, pass, posts, events, tickets, photos>>
  BY DEF Discard, Discardable, server
<1>2. Kept(r)'
  <2>1. store[r] \in Row /\ store[r].status = "rejected" BY <1>1, Facts
  <2>2. RowKnows(store[r], r) BY <2>1, NoRowAssumption DEF Inv, Knows
  <2>3. events[r] = "quarantined" BY <2>1, <2>2 DEF RowKnows
  <2> QED BY <1>1, <2>3 DEF Kept
<1>3. /\ store' \in [Records -> Row \cup {None}] /\ Knows' /\ Lost' /\ store'[r] = None
      /\ \A x \in Records \ {r} : Status(x)' = Status(x)
  BY <1>1, <1>2, RowWritten
<1>4. Status(r)' = "none" BY <1>3 DEF Status
<1>5. TypeOK' BY <1>1, <1>3, Facts DEF TypeOK
<1>6. PassOK' BY <1>1, <1>3, PassStands
<1>7. PostsOK' BY <1>1 DEF Inv, PostsOK, Live
<1> QED BY <1>3, <1>4, <1>5, <1>6, <1>7 DEF Inv, Stand

LEMMA AgeKeeps == ASSUME Inv, NEW r \in Records, Age(r) PROVE Inv' /\ Stand
<1>1. old' = old \cup {r} /\ r \in taken /\ UNCHANGED <<store, taken, closes, pass, posts, events, tickets, photos>>
  BY DEF Age, server
<1>2. TypeOK' BY <1>1, Facts DEF TypeOK
<1>3. Knows' /\ Lost' BY <1>1 DEF Inv, Knows, RowKnows, Lost, Kept
<1>4. PassOK' /\ PostsOK' BY <1>1 DEF Inv, PassOK, PostsOK, Live, Pending, Status
<1> QED BY <1>1, <1>2, <1>3, <1>4 DEF Inv, Stand, Status

\* pruneSynced() deletes what is finished only.
LEMMA OpenKeeps == ASSUME Inv, Open PROVE Inv' /\ Stand
<1>1. /\ pass.at = "closed" /\ pass' = Resting
      /\ store' = [r \in Records |-> IF r \in old /\ Finished(r) THEN None ELSE store[r]]
      /\ UNCHANGED <<taken, old, closes, posts, events, tickets, photos>>
  BY DEF Open, server
<1>2. \A r \in Records : store'[r] = store[r] \/ (store'[r] = None /\ Finished(r)) BY <1>1
<1>3. \A r \in Records : Finished(r) => Kept(r)
  <2> SUFFICES ASSUME NEW r \in Records, Finished(r) PROVE Kept(r) OBVIOUS
  <2>1. Status(r) = "synced" /\ store[r].uploaded BY DEF Finished
  <2>2. store[r] \in Row /\ store[r].status = "synced" BY <2>1, Facts
  <2>3. RowKnows(store[r], r) BY <2>2, NoRowAssumption DEF Inv, Knows
  <2> QED BY <2>1, <2>2, <2>3 DEF RowKnows, Kept
<1>4. Knows' BY <1>1, <1>2 DEF Inv, Knows, RowKnows
<1>5. Lost'
  <2>1. taken \subseteq Records BY Facts
  <2> QED BY <1>1, <1>2, <1>3, <2>1 DEF Inv, Lost, Kept
<1>6. TypeOK'
  <2>1. Resting \in Pass BY DEF Pass, Resting
  <2>2. \A r \in Records : store'[r] \in Row \cup {None} BY <1>2, Facts
  <2>3. store' \in [Records -> Row \cup {None}] BY <1>1, <2>2
  <2> QED BY <1>1, <2>1, <2>3, Facts DEF TypeOK
<1>7. PassOK' BY <1>1 DEF PassOK, Resting, Sending
<1>8. PostsOK'
  <2>1. Live = {} BY <1>1, NothingLive
  <2> QED BY <1>1, <2>1, PostsStand
<1>9. Stand
  <2>1. \A r \in Records : Status(r)' = Status(r) \/ Status(r)' = "none" BY <1>2 DEF Status
  <2> QED BY <2>1 DEF Stand
<1> QED BY <1>4, <1>5, <1>6, <1>7, <1>8, <1>9 DEF Inv

\* The queue stands while the pass moves.
LEMMA QueueStands ==
    ASSUME Inv, UNCHANGED <<store, taken, old, events, tickets, photos>>, closes' \in 0..MaxCloses,
           pass' \in Pass, PassOK', posts' \subseteq Post, PostsOK'
    PROVE  Inv' /\ Stand
<1>1. TypeOK' BY Facts DEF TypeOK
<1>2. Knows' /\ Lost' BY DEF Inv, Knows, RowKnows, Lost, Kept
<1> QED BY <1>1, <1>2 DEF Inv, Stand, Status

LEMMA CloseKeeps == ASSUME Inv, Close PROVE Inv' /\ Stand
<1>1. /\ pass' = Closed /\ posts' = Abandoned /\ closes < MaxCloses /\ closes' = closes + 1
      /\ UNCHANGED <<store, taken, old, events, tickets, photos>>
  BY DEF Close, server
<1>2. closes' \in 0..MaxCloses BY <1>1, SyncAssumption, Facts
<1>3. Closed \in Pass /\ Closed.at = "closed" BY DEF Closed, Resting, Pass
<1>4. PassOK' BY <1>1, <1>3 DEF PassOK, Sending
<1> QED BY <1>1, <1>2, <1>3, <1>4, NobodyWaits, QueueStands

-----------------------------------------------------------------------------
(* A sync pass                                                             *)

LEMMA StartKeeps == ASSUME Inv, Start PROVE Inv' /\ Stand
<1>1. /\ pass.at = "idle" /\ pass' = [Resting EXCEPT !.at = "records", !.todo = Pending]
      /\ UNCHANGED <<store, taken, old, closes, posts, events, tickets, photos>>
  BY DEF Start, server
<1>2. pass' \in Pass /\ pass'.at = "records" /\ pass'.todo = Pending
  BY <1>1 DEF Pass, Resting, Pending
<1>3. PassOK' BY <1>1, <1>2 DEF PassOK, Sending, Pending, Status
<1>4. Live = {} BY <1>1, NothingLive
<1> QED BY <1>1, <1>2, <1>3, <1>4, PostsStand, QueueStands, Facts

LEMMA GiveUpKeeps == ASSUME Inv, GiveUp PROVE Inv' /\ Stand
<1>1. /\ pass.at = "posting" /\ pass' = [pass EXCEPT !.at = "failed"] /\ posts' = Abandoned
      /\ UNCHANGED <<store, taken, old, closes, events, tickets, photos>>
  BY DEF GiveUp, server
<1>2. pass \in Pass BY Facts
<1>3. pass' \in Pass /\ pass'.at = "failed" /\ pass'.r = pass.r /\ pass'.todo = pass.todo
  BY <1>1, <1>2 DEF Pass
<1>4. PassOK' BY <1>1, <1>3 DEF Inv, PassOK, Sending, Pending, Status
<1> QED BY <1>1, <1>3, <1>4, NobodyWaits, QueueStands, Facts

LEMMA StartPhotosKeeps == ASSUME Inv, StartPhotos PROVE Inv' /\ Stand
<1>1. /\ pass.at = "records" /\ pass' = [Resting EXCEPT !.at = "photos", !.todo = PendingPhotos]
      /\ UNCHANGED <<store, taken, old, closes, posts, events, tickets, photos>>
  BY DEF StartPhotos, server
<1>2. pass' \in Pass /\ pass'.at = "photos" /\ pass'.todo = PendingPhotos
  BY <1>1 DEF Pass, Resting, PendingPhotos
<1>3. PassOK' BY <1>1, <1>2 DEF PassOK, Sending, PendingPhotos, Status
<1>4. Live = {} BY <1>1, NothingLive
<1> QED BY <1>1, <1>2, <1>3, <1>4, PostsStand, QueueStands, Facts

LEMMA FinishKeeps == ASSUME Inv, Finish PROVE Inv' /\ Stand
<1>1. /\ pass.at = "photos" /\ pass' = Resting
      /\ UNCHANGED <<store, taken, old, closes, posts, events, tickets, photos>>
  BY DEF Finish, server
<1>2. pass' \in Pass /\ pass'.at = "idle" BY <1>1 DEF Pass, Resting
<1>3. PassOK' BY <1>2 DEF PassOK, Sending
<1>4. Live = {} BY <1>1, NothingLive
<1> QED BY <1>1, <1>2, <1>3, <1>4, PostsStand, QueueStands, Facts

\* A row the pass is at, or takes up, gets another status; what it says of its photo stands.
LEMMA NextRecordKeeps == ASSUME Inv, NextRecord PROVE Inv' /\ Stand
<1>1. PICK r \in pass.todo :
         /\ store' = [store EXCEPT ![r].status = "syncing"]
         /\ pass' = [pass EXCEPT !.at = "posting", !.todo = @ \ {r}, !.r = r]
         /\ posts' = posts \cup {[r |-> r, live |-> TRUE, at |-> "sent",
                                  answer |-> [quarantined |-> FALSE, duplicate |-> FALSE]]}
  BY DEF NextRecord
<1>2. pass.at = "records" /\ UNCHANGED <<taken, old, closes, events, tickets, photos>>
  BY DEF NextRecord, server
<1>3. pass \in Pass /\ pass.todo \subseteq Pending BY <1>2, Facts DEF Inv, PassOK
<1>4. r \in Records /\ Status(r) \in {"queued", "syncing"} BY <1>3 DEF Pending
<1>5. store[r] \in Row BY <1>4, Facts
<1>6. PICK row : row = [store[r] EXCEPT !.status = "syncing"] OBVIOUS
<1>7. row \in Row /\ row.status = "syncing" /\ row.uploaded = store[r].uploaded /\ row # None
  BY <1>5, <1>6, NoRowAssumption DEF Row
<1>8. RowKnows(row, r)'
  <2>1. RowKnows(store[r], r) BY <1>4, <1>5, NoRowAssumption DEF Inv, Knows
  <2> QED BY <1>2, <1>7, <2>1 DEF RowKnows
<1>9. r \in taken BY <1>4, <1>5, NoRowAssumption DEF Inv, Lost
<1>10. store' = [store EXCEPT ![r] = row] BY <1>1, <1>6
<1>11. /\ store' \in [Records -> Row \cup {None}] /\ Knows' /\ Lost'
       /\ \A x \in Records \ {r} : Status(x)' = Status(x)
       /\ Status(r)' = "syncing"
  BY <1>2, <1>4, <1>7, <1>8, <1>9, <1>10, RowUpdated
<1>12. /\ pass' \in Pass /\ pass'.at = "posting" /\ pass'.r = r /\ pass'.todo = pass.todo \ {r}
  BY <1>1, <1>3, <1>4 DEF Pass
<1>13. PassOK' BY <1>3, <1>4, <1>11, <1>12 DEF PassOK, Sending, Pending
<1>14. PICK m : m = [r |-> r, live |-> TRUE, at |-> "sent",
                     answer |-> [quarantined |-> FALSE, duplicate |-> FALSE]]
  OBVIOUS
<1>15. m \in Post /\ m.r = r /\ ~ Refused(m.answer) BY <1>4, <1>14 DEF Post, Refused
<1>16. posts' \subseteq Post BY <1>1, <1>14, <1>15, Facts
<1>17. PostsOK'
  <2>1. Live = {} BY <1>2, NothingLive
  <2>2. \A n \in Live' : n = m BY <1>1, <1>14, <2>1 DEF Live
  <2> QED BY <1>1, <1>2, <1>12, <1>14, <1>15, <2>2 DEF Inv, PostsOK
<1>18. TypeOK' BY <1>2, <1>11, <1>12, <1>16, Facts DEF TypeOK
<1> QED BY <1>4, <1>11, <1>13, <1>17, <1>18 DEF Inv, Stand

LEMMA RequeueKeeps == ASSUME Inv, Requeue PROVE Inv' /\ Stand
<1>1. PICK r : r = pass.r OBVIOUS
<1>2. /\ pass.at = "failed" /\ store' = [store EXCEPT ![r].status = "queued"]
      /\ pass' = [pass EXCEPT !.at = "records"]
      /\ UNCHANGED <<taken, old, closes, posts, events, tickets, photos>>
  BY <1>1 DEF Requeue, StatusAfterFailure, server
<1>3. pass \in Pass BY Facts
<1>4. r \in Records /\ Status(r) = "syncing" /\ r \notin pass.todo /\ pass.todo \subseteq Pending
  BY <1>1, <1>2 DEF Inv, PassOK, Sending
<1>5. store[r] \in Row BY <1>4, Facts
<1>6. PICK row : row = [store[r] EXCEPT !.status = "queued"] OBVIOUS
<1>7. row \in Row /\ row.status = "queued" /\ row.uploaded = store[r].uploaded /\ row # None
  BY <1>5, <1>6, NoRowAssumption DEF Row
<1>8. RowKnows(row, r)'
  <2>1. RowKnows(store[r], r) BY <1>4, <1>5, NoRowAssumption DEF Inv, Knows
  <2> QED BY <1>2, <1>7, <2>1 DEF RowKnows
<1>9. r \in taken BY <1>4, <1>5, NoRowAssumption DEF Inv, Lost
<1>10. store' = [store EXCEPT ![r] = row] BY <1>2, <1>6
<1>11. /\ store' \in [Records -> Row \cup {None}] /\ Knows' /\ Lost'
       /\ \A x \in Records \ {r} : Status(x)' = Status(x)
  BY <1>2, <1>4, <1>7, <1>8, <1>9, <1>10, RowUpdated
<1>12. pass' \in Pass /\ pass'.at = "records" /\ pass'.todo = pass.todo BY <1>2, <1>3 DEF Pass
<1>13. PassOK' BY <1>4, <1>11, <1>12 DEF PassOK, Sending, Pending
<1>14. posts' \subseteq Post /\ PostsOK'
  <2>1. Live = {} BY <1>2, NothingLive
  <2> QED BY <1>2, <2>1, PostsStand
<1>15. TypeOK' BY <1>2, <1>11, <1>12, <1>14, Facts DEF TypeOK
<1> QED BY <1>4, <1>11, <1>13, <1>14, <1>15 DEF Inv, Stand

\* Once the answer is in, nothing is waited for.
LEMMA AnswerTaken ==
    ASSUME Inv, NEW m \in Live, posts' = posts \ {m}, events' = events
    PROVE  posts' \subseteq Post /\ PostsOK'
<1>1. Live' = {} BY DEF Inv, PostsOK, Live
<1> QED BY <1>1, Facts DEF Inv, PostsOK

LEMMA AnswerKeeps == ASSUME Inv, Answer PROVE Inv' /\ Stand
<1>1. PICK m \in Live :
         /\ posts' = posts \ {m}
         /\ IF Refused(m.answer)
              THEN /\ store' = [store EXCEPT ![pass.r].status = "rejected", ![pass.r].eventId = TRUE]
                   /\ pass' = [pass EXCEPT !.at = "records"]
              ELSE /\ pass' = [pass EXCEPT !.at = "photo"]
                   /\ UNCHANGED store
  BY DEF Answer
<1>2. pass.at = "posting" /\ UNCHANGED <<taken, old, closes, events, tickets, photos>>
  BY DEF Answer, server
<1>3. posts' \subseteq Post /\ PostsOK' BY <1>1, <1>2, AnswerTaken
<1>4. pass \in Pass BY Facts
<1>5. CASE ~ Refused(m.answer)
  <2>1. pass' = [pass EXCEPT !.at = "photo"] /\ store' = store BY <1>1, <1>5
  <2>2. pass' \in Pass /\ pass'.at = "photo" /\ pass'.r = pass.r /\ pass'.todo = pass.todo
    BY <1>4, <2>1 DEF Pass
  <2>3. PassOK' BY <1>2, <2>1, <2>2 DEF Inv, PassOK, Sending, Pending, Status
  <2> QED BY <1>2, <1>3, <2>1, <2>2, <2>3, QueueStands, Facts
<1>6. CASE Refused(m.answer)
  <2>1. PICK r : r = pass.r OBVIOUS
  <2>2. /\ store' = [store EXCEPT ![r].status = "rejected", ![r].eventId = TRUE]
        /\ pass' = [pass EXCEPT !.at = "records"]
    BY <1>1, <1>6, <2>1
  <2>3. r \in Records /\ Status(r) = "syncing" /\ r \notin pass.todo /\ pass.todo \subseteq Pending
    BY <1>2, <2>1 DEF Inv, PassOK, Sending
  <2>4. store[r] \in Row BY <2>3, Facts
  <2>5. PICK row : row = [store[r] EXCEPT !.status = "rejected", !.eventId = TRUE] OBVIOUS
  <2>6. row \in Row /\ row.status = "rejected" /\ row.uploaded = store[r].uploaded /\ row # None
    BY <2>4, <2>5, NoRowAssumption DEF Row
  <2>7. m.r = r /\ m \in posts BY <2>1 DEF Inv, PostsOK, Live
  <2>8. events[r] = "quarantined" BY <1>6, <2>7 DEF Inv, PostsOK
  <2>9. RowKnows(row, r)'
    <3>1. RowKnows(store[r], r) BY <2>3, <2>4, NoRowAssumption DEF Inv, Knows
    <3> QED BY <1>2, <2>6, <2>8, <3>1 DEF RowKnows
  <2>10. r \in taken BY <2>3, <2>4, NoRowAssumption DEF Inv, Lost
  <2>11. store' = [store EXCEPT ![r] = row]
    <3>1. store \in [Records -> Row \cup {None}] BY Facts
    <3> QED BY <2>2, <2>3, <2>4, <2>5, <3>1 DEF Row
  <2>12. /\ store' \in [Records -> Row \cup {None}] /\ Knows' /\ Lost'
         /\ \A x \in Records \ {r} : Status(x)' = Status(x)
    BY <1>2, <2>3, <2>6, <2>9, <2>10, <2>11, RowUpdated
  <2>13. pass' \in Pass /\ pass'.at = "records" /\ pass'.todo = pass.todo BY <1>4, <2>2 DEF Pass
  <2>14. PassOK' BY <2>3, <2>12, <2>13 DEF PassOK, Sending, Pending
  <2>15. TypeOK' BY <1>2, <1>3, <2>12, <2>13, Facts DEF TypeOK
  <2> QED BY <1>3, <2>3, <2>12, <2>14, <2>15 DEF Inv, Stand
<1> QED BY <1>5, <1>6

LEMMA SyncPhotoKeeps ==
    ASSUME Inv, NEW acknowledged \in BOOLEAN, SyncPhoto(acknowledged) PROVE Inv' /\ Stand
<1>1. PICK r : r = pass.r OBVIOUS
<1>2. PICK row : row = [status |-> "synced", eventId |-> TRUE, uploaded |-> acknowledged] OBVIOUS
<1>3. /\ pass.at = "photo" /\ Uploads(r, acknowledged)
      /\ store' = [store EXCEPT ![r] = row]
      /\ pass' = [pass EXCEPT !.at = "records"]
      /\ UNCHANGED <<taken, old, closes, posts, events, tickets>>
  BY <1>1, <1>2 DEF SyncPhoto, Uploaded
<1>4. r \in Records /\ Status(r) = "syncing" /\ r \notin pass.todo /\ pass.todo \subseteq Pending
  BY <1>1, <1>3 DEF Inv, PassOK, Sending
<1>5. /\ events[r] # "absent" /\ photos \subseteq photos' /\ photos' \subseteq Records
      /\ acknowledged => r \in photos'
  BY <1>3, <1>4, Facts DEF Uploads
<1>6. row \in Row /\ RowKnows(row, r)'
  <2>1. row \in Row /\ row.status = "synced" /\ row.uploaded = acknowledged BY <1>2 DEF Row
  <2>2. events' = events BY <1>3
  <2> QED BY <1>5, <2>1, <2>2 DEF RowKnows
<1>7. r \in taken
  <2>1. store[r] # None BY <1>4, Facts
  <2> QED BY <1>4, <2>1 DEF Inv, Lost
<1>8. /\ store' \in [Records -> Row \cup {None}] /\ Knows' /\ Lost'
      /\ \A x \in Records \ {r} : Status(x)' = Status(x)
  BY <1>3, <1>4, <1>5, <1>6, <1>7, RowUpdated
<1>9. pass \in Pass BY Facts
<1>10. pass' \in Pass /\ pass'.at = "records" /\ pass'.todo = pass.todo BY <1>3, <1>9 DEF Pass
<1>11. PassOK' BY <1>4, <1>8, <1>10 DEF PassOK, Sending, Pending
<1>12. posts' \subseteq Post /\ PostsOK'
  <2>1. Live = {} BY <1>3, NothingLive
  <2> QED BY <1>3, <2>1, PostsStand
<1>13. TypeOK' BY <1>3, <1>5, <1>8, <1>10, <1>12, Facts DEF TypeOK
<1> QED BY <1>4, <1>8, <1>11, <1>12, <1>13 DEF Inv, Stand

LEMMA NextPhotoKeeps ==
    ASSUME Inv, NEW acknowledged \in BOOLEAN, NextPhoto(acknowledged) PROVE Inv' /\ Stand
<1>1. PICK r \in pass.todo :
         /\ Uploads(r, acknowledged)
         /\ store' = IF acknowledged THEN [store EXCEPT ![r].uploaded = TRUE] ELSE store
         /\ pass' = [pass EXCEPT !.todo = @ \ {r}]
  BY DEF NextPhoto
<1>2. pass.at = "photos" /\ UNCHANGED <<taken, old, closes, posts, events, tickets>> BY DEF NextPhoto
<1>3. pass \in Pass BY Facts
<1>4. r \in Records /\ Status(r) = "synced" BY <1>2, <1>3 DEF Pass, Inv, PassOK
<1>5. /\ events[r] # "absent" /\ photos \subseteq photos' /\ photos' \subseteq Records
      /\ acknowledged => r \in photos'
  BY <1>1, <1>4, Facts DEF Uploads
<1>6. store[r] \in Row /\ store[r].status = "synced" /\ store[r] # None BY <1>4, NoRowAssumption, Facts
<1>7. PICK row : row = IF acknowledged THEN [store[r] EXCEPT !.uploaded = TRUE] ELSE store[r] OBVIOUS
<1>8. RowKnows(store[r], r) BY <1>4, <1>6 DEF Inv, Knows
<1>9. row \in Row /\ row # None /\ row.status = "synced" /\ RowKnows(row, r)'
  <2>1. CASE acknowledged
    BY <1>2, <1>5, <1>6, <1>7, <2>1, NoRowAssumption DEF Row, RowKnows
  <2>2. CASE ~ acknowledged BY <1>2, <1>5, <1>6, <1>7, <1>8, <2>2 DEF RowKnows
  <2> QED BY <2>1, <2>2
<1>10. r \in taken BY <1>4, <1>6 DEF Inv, Lost
<1>11. store' = [store EXCEPT ![r] = row]
  <2>1. store \in [Records -> Row \cup {None}] BY Facts
  <2> QED BY <1>1, <1>4, <1>7, <2>1
<1>12. /\ store' \in [Records -> Row \cup {None}] /\ Knows' /\ Lost'
       /\ \A x \in Records \ {r} : Status(x)' = Status(x)
       /\ Status(r)' = "synced"
  BY <1>2, <1>4, <1>5, <1>9, <1>10, <1>11, RowUpdated
<1>13. pass' \in Pass /\ pass'.at = "photos" /\ pass'.todo = pass.todo \ {r} BY <1>1, <1>2, <1>3 DEF Pass
<1>14. \A x \in pass.todo : x \in Records /\ Status(x) = "synced" BY <1>2, <1>3 DEF Pass, Inv, PassOK
<1>15. PassOK' BY <1>12, <1>13, <1>14 DEF PassOK, Sending
<1>16. posts' \subseteq Post /\ PostsOK'
  <2>1. Live = {} BY <1>2, NothingLive
  <2> QED BY <1>2, <2>1, PostsStand
<1>17. TypeOK' BY <1>2, <1>5, <1>12, <1>13, <1>16, Facts DEF TypeOK
<1> QED BY <1>4, <1>12, <1>15, <1>16, <1>17 DEF Inv, Stand

-----------------------------------------------------------------------------
(* The server                                                              *)

\* A message the server has moved on is waited for iff it was before.
LEMMA MessageMoves ==
    ASSUME Inv, NEW m \in posts, NEW n \in Post, n.r = m.r, n.live = m.live, Moves(m, n), pass' = pass,
           \A r \in Records : events[r] # "absent" => events'[r] = events[r],
           Refused(n.answer) => events'[n.r] = "quarantined"
    PROVE  posts' \subseteq Post /\ PostsOK'
<1>1. posts' = (posts \ {m}) \cup {n} /\ posts \subseteq Post BY Facts DEF Moves
<1>2. \A x \in posts : x.r \in Records BY <1>1 DEF Post
<1>3. \A x \in posts' : Refused(x.answer) => events'[x.r] = "quarantined"
  BY <1>1, <1>2 DEF Inv, PostsOK
<1>4. \A x \in Live' : x \in Live \ {m} \/ (x = n /\ m \in Live) BY <1>1 DEF Live
<1>5. \A x \in Live' : pass.at = "posting" /\ x.r = pass.r BY <1>4 DEF Inv, PostsOK
<1>6. \A x, y \in Live' : x = y BY <1>4 DEF Inv, PostsOK
<1> QED BY <1>1, <1>3, <1>5, <1>6 DEF PostsOK

LEMMA ServerKeeps ==
    ASSUME Inv, UNCHANGED phone, events' \in [Records -> Verdict \cup {"absent"}],
           \A r \in Records : events[r] # "absent" => events'[r] = events[r],
           photos' = photos, tickets' \subseteq Records, posts' \subseteq Post, PostsOK'
    PROVE  Inv' /\ Stand
<1>1. Knows' /\ Lost' /\ PassOK' BY ServerLearns
<1>2. UNCHANGED <<store, taken, old, closes, pass>> BY DEF phone
<1>3. TypeOK' BY <1>2, Facts DEF TypeOK
<1>4. Stand BY <1>2 DEF Stand, Status
<1> QED BY <1>1, <1>3, <1>4 DEF Inv

LEMMA IngestReadKeeps == ASSUME Inv, NEW m \in posts, IngestRead(m) PROVE Inv' /\ Stand
<1>1. PICK n : n = IF events[m.r] = "absent" THEN [m EXCEPT !.at = "saving"]
                   ELSE [m EXCEPT !.at = "ticketing", !.answer = Duplicate]
  OBVIOUS
<1>2. Moves(m, n) /\ UNCHANGED phone /\ UNCHANGED <<events, tickets, photos>>
  BY <1>1 DEF IngestRead, server
<1>3. m \in Post /\ pass' = pass BY <1>2, Facts DEF phone
<1>4. n \in Post /\ n.r = m.r /\ n.live = m.live /\ (n.answer = m.answer \/ n.answer = Duplicate)
  BY <1>1, <1>3 DEF Post, Duplicate
<1>5. Refused(n.answer) => events'[n.r] = "quarantined"
  BY <1>2, <1>4 DEF Refused, Duplicate, Inv, PostsOK
<1>6. posts' \subseteq Post /\ PostsOK' BY <1>2, <1>3, <1>4, <1>5, MessageMoves
<1> QED BY <1>2, <1>6, ServerKeeps, Facts

LEMMA IngestSaveKeeps ==
    ASSUME Inv, NEW m \in posts, NEW verdict \in Verdict, IngestSave(m, verdict) PROVE Inv' /\ Stand
<1>1. UNCHANGED phone /\ UNCHANGED <<tickets, photos>> BY DEF IngestSave
<1>2. m \in Post /\ pass' = pass /\ m.r \in Records /\ events \in [Records -> Verdict \cup {"absent"}]
  BY <1>1, Facts DEF phone, Post
<1>3. CASE events[m.r] # "absent"
  <2>1. PICK n : n = [m EXCEPT !.at = "answered", !.answer = Duplicate] OBVIOUS
  <2>2. Moves(m, n) /\ events' = events BY <1>3, <2>1 DEF IngestSave
  <2>3. n \in Post /\ n.r = m.r /\ n.live = m.live /\ n.answer = Duplicate
    BY <1>2, <2>1 DEF Post, Duplicate
  <2>4. ~ Refused(n.answer) BY <2>3 DEF Refused, Duplicate
  <2>5. posts' \subseteq Post /\ PostsOK' BY <1>2, <2>2, <2>3, <2>4, MessageMoves
  <2> QED BY <1>1, <2>2, <2>5, ServerKeeps, Facts
<1>4. CASE events[m.r] = "absent"
  <2>1. PICK n : n = [m EXCEPT !.at = "ticketing",
                               !.answer = [quarantined |-> verdict = "quarantined", duplicate |-> FALSE]]
    OBVIOUS
  <2>2. Moves(m, n) /\ events' = [events EXCEPT ![m.r] = verdict] BY <1>4, <2>1 DEF IngestSave
  <2>3. /\ n \in Post /\ n.r = m.r /\ n.live = m.live
        /\ n.answer = [quarantined |-> verdict = "quarantined", duplicate |-> FALSE]
    BY <1>2, <2>1 DEF Post
  <2>4. /\ events' \in [Records -> Verdict \cup {"absent"}]
        /\ \A r \in Records : events[r] # "absent" => events'[r] = events[r]
        /\ events'[m.r] = verdict
    BY <1>2, <1>4, <2>2
  <2>5. Refused(n.answer) => events'[n.r] = "quarantined"
    <3>1. n.answer.quarantined = (verdict = "quarantined") BY <2>3
    <3> QED BY <2>3, <2>4, <3>1 DEF Refused
  <2>6. posts' \subseteq Post /\ PostsOK' BY <1>2, <2>2, <2>3, <2>4, <2>5, MessageMoves
  <2> QED BY <1>1, <2>4, <2>6, ServerKeeps, Facts
<1> QED BY <1>3, <1>4

LEMMA RecordClaimKeeps == ASSUME Inv, NEW m \in posts, RecordClaim(m) PROVE Inv' /\ Stand
<1>1. PICK n : n = [m EXCEPT !.at = "answered"] OBVIOUS
<1>2. Moves(m, n) /\ tickets' = tickets \cup {m.r} /\ UNCHANGED phone /\ UNCHANGED <<events, photos>>
  BY <1>1 DEF RecordClaim
<1>3. m \in Post /\ m.r \in Records /\ pass' = pass BY <1>2, Facts DEF phone, Post
<1>4. n \in Post /\ n.r = m.r /\ n.live = m.live /\ n.answer = m.answer BY <1>1, <1>3 DEF Post
<1>5. Refused(n.answer) => events'[n.r] = "quarantined" BY <1>2, <1>4 DEF Inv, PostsOK
<1>6. posts' \subseteq Post /\ PostsOK' BY <1>2, <1>3, <1>4, <1>5, MessageMoves
<1> QED BY <1>2, <1>3, <1>6, ServerKeeps, Facts

LEMMA LoseKeeps == ASSUME Inv, NEW m \in posts, Lose(m) PROVE Inv' /\ Stand
<1>1. posts' = posts \ {m} /\ UNCHANGED phone /\ UNCHANGED <<events, tickets, photos>>
  BY DEF Lose, server
<1>2. pass' = pass BY <1>1 DEF phone
<1>3. posts' \subseteq Post /\ PostsOK' BY <1>1, <1>2, Facts DEF Inv, PostsOK, Live
<1> QED BY <1>1, <1>3, ServerKeeps, Facts

-----------------------------------------------------------------------------
(* Every step                                                              *)

LEMMA StepKeeps == ASSUME Inv, [Next]_vars PROVE Inv' /\ Stand
<1>1. CASE UNCHANGED vars
  <2>1. UNCHANGED <<store, taken, old, closes, pass, posts, events, tickets, photos>> BY <1>1 DEF vars
  <2>2. PassOK' /\ PostsOK' BY <2>1 DEF Inv, PassOK, PostsOK, Live, Pending, Status
  <2> QED BY <2>1, <2>2, QueueStands, Facts
<1>2. ASSUME NEW r \in Records, Capture(r) \/ Discard(r) \/ Age(r) PROVE Inv' /\ Stand
  BY <1>2, CaptureKeeps, DiscardKeeps, AgeKeeps
<1>3. CASE Open \/ Close BY <1>3, OpenKeeps, CloseKeeps
<1>4. CASE Start \/ NextRecord \/ GiveUp \/ Requeue \/ Answer \/ StartPhotos \/ Finish
  BY <1>4, StartKeeps, NextRecordKeeps, GiveUpKeeps, RequeueKeeps, AnswerKeeps, StartPhotosKeeps,
     FinishKeeps
<1>5. ASSUME NEW acknowledged \in BOOLEAN, SyncPhoto(acknowledged) \/ NextPhoto(acknowledged)
      PROVE  Inv' /\ Stand
  BY <1>5, SyncPhotoKeeps, NextPhotoKeeps
<1>6. ASSUME NEW m \in posts, Serve(m) \/ Lose(m) PROVE Inv' /\ Stand
  BY <1>6, IngestReadKeeps, IngestSaveKeeps, RecordClaimKeeps, LoseKeeps DEF Serve
<1> QED BY <1>1, <1>2, <1>3, <1>4, <1>5, <1>6 DEF Next

\* The inductive invariant holds in every reachable state.
THEOREM InvAlways == Spec => []Inv
<1>1. Inv /\ [Next]_vars => Inv' BY StepKeeps
<1> QED BY <1>1, InvInit, PTL DEF Spec

-----------------------------------------------------------------------------
(* What follows                                                            *)

\* For any number of weigh-ins, late POSTs and restarts the phone and the server stay well typed.
THEOREM CaptureTypes == Spec => []TypeOK
BY InvAlways, PTL DEF Inv

\* A weigh-in that has left the phone, because somebody discarded it or pruneSynced() did, is on
\* the server; and one that counts has its photo there.
THEOREM NothingIsLost == Spec => []NothingLost
<1>1. Inv => NothingLost BY DEF Inv, Lost, Kept, NothingLost
<1> QED BY <1>1, InvAlways, PTL

\* Whatever answers were lost, duplicated or late, what the phone marks synced is recorded, what
\* it marks uploaded is on file, and only what it marks rejected for good is quarantined.
THEOREM BeliefsAreTrue == Spec => []PhoneKnowsServer
<1>1. Inv => PhoneKnowsServer
  <2> SUFFICES ASSUME Inv, NEW r \in taken, store[r] # None
               PROVE  /\ Status(r) = "synced" => events[r] # "absent"
                      /\ store[r].uploaded => r \in photos
                      /\ Status(r) = "rejected" => events[r] = "quarantined"
    BY DEF PhoneKnowsServer
  <2>1. r \in Records BY Facts
  <2>2. RowKnows(store[r], r) BY <2>1 DEF Inv, Knows
  <2> QED BY <2>2 DEF RowKnows, Status
<1> QED BY <1>1, InvAlways, PTL

\* A pass never takes up a weigh-in again that the server has answered for.
THEOREM AnswersAreFinal == Spec => AnswersStand
<1>1. Inv /\ [Next]_vars => [\A r \in Records : Status(r) \in {"synced", "rejected"}
                                => Status(r)' \in {Status(r), "none"}]_vars
  BY StepKeeps DEF Stand
<1> QED BY <1>1, InvAlways, PTL DEF Spec, AnswersStand

=============================================================================
