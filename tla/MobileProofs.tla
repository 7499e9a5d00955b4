---------------------------- MODULE MobileProofs ----------------------------
(***************************************************************************)
(* What the phone believes is true of the server: for any number of records *)
(* and queue screens, and however many copies of the queue are held at once. *)
(* And, as long as one change of the queue and one pass are under way at a   *)
(* time, it loses nothing and lets go of no rejection.                      *)
(***************************************************************************)
EXTENDS MCMobileQueue, TLAPS, FiniteSetTheorems

-----------------------------------------------------------------------------
(* The inductive invariant                                                 *)

\* The status is one the server has given cause for.
Told(r, status) ==
    /\ status = "synced" => r \in Records /\ events[r] # "absent"
    /\ status = "rejected" => r \in Records /\ events[r] = "quarantined"

ToldAll(copy) == \A r \in Records : Told(r, copy[r])

\* What is stored, and also every copy still to be written back, however stale, and
\* every status still to be put into one.
PassTold(row) ==
    /\ ToldAll(row.copy)
    /\ Told(row.r, row.status)
    /\ row.at \notin {"idle", "records"} => row.r \in Records

CopiesTold ==
    /\ ToldAll(queue)
    /\ ToldAll(saving.copy)
    /\ \A h \in Screens : PassTold(passes[h])

Inv == TypeOK /\ CopiesTold

-----------------------------------------------------------------------------
(* Rows of passes                                                          *)

LEMMA NoCopyTold == NoCopy \in Queue /\ ToldAll(NoCopy)
BY DEF NoCopy, Queue, ToldAll, Told

LEMMA IdlePass == Idle \in Pass /\ PassTold(Idle)
BY NoCopyTold DEF Idle, Pass, PassTold, Told

\* What an action that sets one pass has to show of it.
LEMMA OnePassSet ==
    ASSUME Inv, NEW h \in Screens, NEW row \in Pass,
           passes' = [passes EXCEPT ![h] = row],
           events' = events, PassTold(row)
    PROVE  /\ passes' \in [Screens -> Pass]
           /\ \A g \in Screens : PassTold(passes[g])'
<1>1. passes \in [Screens -> Pass]
  BY DEF Inv, TypeOK
<1>2. passes' \in [Screens -> Pass]
  BY <1>1
<1>3. ASSUME NEW g \in Screens
      PROVE  PassTold(passes[g])'
  <2>1. CASE g = h
    <3>1. passes'[g] = row
      BY <1>1, <2>1
    <3> QED
      BY <3>1 DEF PassTold, ToldAll, Told
  <2>2. CASE g # h
    <3>1. passes'[g] = passes[g]
      BY <1>1, <2>2
    <3> QED
      BY <3>1 DEF Inv, CopiesTold, PassTold, ToldAll, Told
  <2> QED
    BY <2>1, <2>2
<1> QED
  BY <1>2, <1>3

\* update() of a copy keeps it a queue, and one the server has given cause for.
LEMMA UpdateTold ==
    ASSUME NEW copy \in Queue, NEW r, NEW status \in QueueStatus \cup {"none"},
           ToldAll(copy), Told(r, status)
    PROVE  Updated(copy, r, status) \in Queue /\ ToldAll(Updated(copy, r, status))
BY DEF Updated, Queue, ToldAll, Told

LEMMA InitInv == Init => Inv
<1> SUFFICES ASSUME Init PROVE Inv
  OBVIOUS
<1>1. saving \in [r : Records \cup {None}, copy : Queue] /\ saving.copy = NoCopy
  BY NoCopyTold DEF Init, NotSaving
<1>2. \A h \in Screens : passes[h] = Idle
  BY DEF Init
<1>3. TypeOK
  BY <1>1, NoCopyTold, IdlePass, MobileAssumption DEF Init, TypeOK
<1>4. CopiesTold
  BY <1>1, <1>2, NoCopyTold, IdlePass DEF Init, CopiesTold
<1> QED
  BY <1>3, <1>4 DEF Inv

-----------------------------------------------------------------------------
(* The actions                                                             *)

LEMMA MountStep ==
    ASSUME Inv, ShowQueue \/ ShowCapture
    PROVE  Inv'
BY DEF Inv, TypeOK, CopiesTold, PassTold, ToldAll, Told, ShowQueue, ShowCapture, Mount

LEMMA EnqueueReadStep ==
    ASSUME Inv, NEW r \in Records, EnqueueRead(r)
    PROVE  Inv'
<1>1. saving' \in [r : Records \cup {None}, copy : Queue] /\ saving'.copy = queue
  BY DEF EnqueueRead, Inv, TypeOK
<1>2. TypeOK'
  BY <1>1 DEF EnqueueRead, Inv, TypeOK
<1>3. CopiesTold'
  BY <1>1 DEF EnqueueRead, Inv, CopiesTold, PassTold, ToldAll, Told
<1> QED
  BY <1>2, <1>3 DEF Inv

LEMMA EnqueueWriteStep ==
    ASSUME Inv, EnqueueWrite
    PROVE  Inv'
<1>1. saving.r \in Records /\ saving.copy \in Queue /\ ToldAll(saving.copy)
  BY DEF EnqueueWrite, Inv, TypeOK, CopiesTold
<1>2. queue' \in Queue /\ ToldAll(queue')
  BY <1>1 DEF EnqueueWrite, Appended, Queue, QueueStatus, ToldAll, Told
<1>3. saving' \in [r : Records \cup {None}, copy : Queue] /\ saving'.copy = NoCopy
  BY NoCopyTold DEF EnqueueWrite, NotSaving
<1>4. mounted' \in Screens \cup {None}
  BY DEF EnqueueWrite, Mount, Inv, TypeOK
<1>5. TypeOK'
  BY <1>1, <1>2, <1>3, <1>4 DEF EnqueueWrite, Inv, TypeOK
<1>6. CopiesTold'
  BY <1>2, <1>3, NoCopyTold DEF EnqueueWrite, Inv, CopiesTold, PassTold, ToldAll, Told
<1> QED
  BY <1>5, <1>6 DEF Inv

\* Every step of a pass that leaves the queue and the server alone.
LEMMA PassOnlyStep ==
    ASSUME Inv, NEW h \in Screens, NEW row \in Pass,
           passes' = [passes EXCEPT ![h] = row],
           PassTold(row),
           UNCHANGED <<queue, taken, saving, mounted, kills, events>>
    PROVE  Inv'
<1>1. TypeOK'
  BY OnePassSet DEF Inv, TypeOK
<1>2. CopiesTold'
  BY OnePassSet DEF Inv, CopiesTold, PassTold, ToldAll, Told
<1> QED
  BY <1>1, <1>2 DEF Inv

\* A pass in a type it can be taken apart by.
LEMMA PassFields ==
    ASSUME Inv, NEW h \in Screens
    PROVE  /\ passes[h] \in Pass
           /\ passes[h].todo \subseteq Records
           /\ passes[h].r \in Records \cup {None}
           /\ passes[h].status \in QueueStatus \cup {"none"}
           /\ passes[h].copy \in Queue
           /\ PassTold(passes[h])
<1>1. passes[h] \in Pass
  BY DEF Inv, TypeOK
<1> QED
  BY <1>1 DEF Inv, CopiesTold, Pass

LEMMA BeginStep ==
    ASSUME Inv, NEW h \in Screens, Begin(h) \/ Finish(h)
    PROVE  Inv'
<1>1. CASE Begin(h)
  <2> DEFINE row == [Idle EXCEPT !.at = "records", !.todo = Pending]
  <2>1. row \in Pass /\ PassTold(row)
    BY NoCopyTold, IdlePass DEF Idle, Pass, Pending, PassTold
  <2>2. passes' = [passes EXCEPT ![h] = row]
    BY <1>1 DEF Begin
  <2>3. UNCHANGED <<queue, taken, saving, mounted, kills, events>>
    BY <1>1 DEF Begin
  <2> HIDE DEF row
  <2> QED
    BY <2>1, <2>2, <2>3, IdlePass, PassOnlyStep
<1>2. CASE Finish(h)
  BY <1>2, IdlePass, PassOnlyStep DEF Finish
<1> QED
  BY <1>1, <1>2

LEMMA MarkReadStep ==
    ASSUME Inv, NEW h \in Screens, MarkRead(h)
    PROVE  Inv'
<1>1. PICK r \in passes[h].todo :
        passes' = [passes EXCEPT ![h].at = "marking", ![h].todo = @ \ {r}, ![h].r = r,
                                 ![h].status = "syncing", ![h].copy = queue]
  BY DEF MarkRead
<1> DEFINE row == [at |-> "marking", todo |-> passes[h].todo \ {r}, r |-> r,
                   status |-> "syncing", copy |-> queue]
<1>2. r \in Records
  BY PassFields
<1>3. row \in Pass /\ PassTold(row)
  BY <1>2, PassFields DEF Pass, QueueStatus, Inv, TypeOK, CopiesTold, PassTold, Told
<1>4. passes' = [passes EXCEPT ![h] = row]
  BY <1>1, PassFields DEF Pass, Inv, TypeOK
<1>5. UNCHANGED <<queue, taken, saving, mounted, kills, events>>
  BY DEF MarkRead
<1> HIDE DEF row
<1> QED
  BY <1>3, <1>4, <1>5, PassOnlyStep

LEMMA SettleReadStep ==
    ASSUME Inv, NEW h \in Screens, SettleRead(h)
    PROVE  Inv'
<1> DEFINE row == [passes[h] EXCEPT !.at = "settling", !.copy = queue]
<1>1. row \in Pass /\ PassTold(row)
  BY PassFields DEF SettleRead, Pass, Inv, TypeOK, CopiesTold, PassTold
<1>2. passes' = [passes EXCEPT ![h] = row]
  BY DEF SettleRead, Inv, TypeOK
<1>3. UNCHANGED <<queue, taken, saving, mounted, kills, events>>
  BY DEF SettleRead
<1> HIDE DEF row
<1> QED
  BY <1>1, <1>2, <1>3, PassOnlyStep

\* A pass writes its copy back.
LEMMA WriteStep ==
    ASSUME Inv, NEW h \in Screens, NEW row \in Pass, Writes(h),
           passes' = [passes EXCEPT ![h] = row],
           PassTold(row),
           UNCHANGED <<taken, saving, mounted, kills, events>>
    PROVE  Inv'
<1>1. queue' \in Queue /\ ToldAll(queue')
  BY PassFields, UpdateTold DEF Writes, Inv, CopiesTold, PassTold, ToldAll, Told
<1>2. TypeOK'
  BY <1>1, OnePassSet DEF Inv, TypeOK
<1>3. CopiesTold'
  BY <1>1, OnePassSet DEF Inv, CopiesTold, ToldAll, Told
<1> QED
  BY <1>2, <1>3 DEF Inv

LEMMA MarkWriteStep ==
    ASSUME Inv, NEW h \in Screens, MarkWrite(h)
    PROVE  Inv'
<1> DEFINE row == [passes[h] EXCEPT !.at = "posting", !.copy = NoCopy]
<1>1. row \in Pass /\ PassTold(row)
  BY PassFields, NoCopyTold DEF MarkWrite, Pass, PassTold
<1>2. passes' = [passes EXCEPT ![h] = row]
  BY DEF MarkWrite, Inv, TypeOK
<1>3. Writes(h) /\ UNCHANGED <<taken, saving, mounted, kills, events>>
  BY DEF MarkWrite
<1> HIDE DEF row
<1> QED
  BY <1>1, <1>2, <1>3, WriteStep

LEMMA SettleWriteStep ==
    ASSUME Inv, NEW h \in Screens, SettleWrite(h)
    PROVE  Inv'
<1> DEFINE row == [Idle EXCEPT !.at = "records", !.todo = passes[h].todo]
<1>1. row \in Pass /\ PassTold(row)
  BY PassFields, NoCopyTold, IdlePass DEF Idle, Pass, PassTold
<1>2. passes' = [passes EXCEPT ![h] = row]
  BY DEF SettleWrite
<1>3. Writes(h) /\ UNCHANGED <<taken, saving, mounted, kills, events>>
  BY DEF SettleWrite
<1> HIDE DEF row
<1> QED
  BY <1>1, <1>2, <1>3, WriteStep

\* The server never takes a weigh-in back, so what it has told stays true.
LEMMA ToldStays ==
    ASSUME Inv, NEW r, NEW verdict \in Verdict,
           \/ events' = events
           \/ (events[r] = "absent" /\ events' = [events EXCEPT ![r] = verdict]),
           NEW q, NEW status, Told(q, status)
    PROVE  Told(q, status)'
BY DEF Inv, TypeOK, Told, Verdict

LEMMA DeliverStep ==
    ASSUME Inv, NEW h \in Screens, NEW served \in BOOLEAN, NEW answered \in BOOLEAN,
           Deliver(h, served, answered)
    PROVE  Inv'
<1>0. PICK r, copy : r = passes[h].r /\ copy = passes[h].copy
  OBVIOUS
<1>1. r \in Records /\ ToldAll(copy) /\ copy \in Queue /\ passes[h] \in Pass
  BY <1>0, PassFields DEF Deliver, PassTold
<1>2. PICK verdict \in Verdict :
        /\ events' = IF served /\ ~ (events[r] # "absent")
                       THEN [events EXCEPT ![r] = verdict] ELSE events
        /\ passes' = [passes EXCEPT ![h].at = "answered",
              ![h].status = IF served /\ answered
                              THEN StatusAfterAnswer(events[r] # "absent", verdict)
                              ELSE StatusAfterFailure]
  BY <1>0 DEF Deliver
<1>3. PICK status :
        status = IF served /\ answered THEN StatusAfterAnswer(events[r] # "absent", verdict)
                                       ELSE StatusAfterFailure
  OBVIOUS
<1>4. status \in QueueStatus
  BY <1>3 DEF StatusAfterAnswer, StatusAfterFailure, QueueStatus
<1>5. PICK row : row = [passes[h] EXCEPT !.at = "answered", !.status = status]
  OBVIOUS
<1>6. row \in Pass /\ row.copy = copy /\ row.r = r /\ row.status = status
  BY <1>0, <1>1, <1>4, <1>5 DEF Pass
<1>7. passes' = [passes EXCEPT ![h] = row]
  BY <1>2, <1>3, <1>5 DEF Inv, TypeOK
<1>8. events' \in [Records -> Verdict \cup {"absent"}]
  BY <1>2 DEF Inv, TypeOK
<1>9. TypeOK'
  BY <1>6, <1>7, <1>8 DEF Deliver, Inv, TypeOK
<1>10. \A q, s : Told(q, s) => Told(q, s)'
  <2>1. CASE events' = events
    BY <2>1 DEF Told
  <2>2. CASE events[r] = "absent" /\ events' = [events EXCEPT ![r] = verdict]
    BY <2>2, ToldStays
  <2> QED
    BY <1>2, <2>1, <2>2
\* What was served is on the server when its answer is read.
<1>11. Told(r, status)'
  BY <1>1, <1>2, <1>3 DEF Told, StatusAfterAnswer, StatusAfterFailure, Verdict, Inv, TypeOK
<1>12. \A g \in Screens : PassTold(passes[g])'
  <2>1. ASSUME NEW g \in Screens, g = h
        PROVE  PassTold(passes[g])'
    <3>1. passes'[g] = row
      BY <1>7, <2>1 DEF Inv, TypeOK
    <3>2. \A q \in Records : Told(q, copy[q])'
      BY <1>1, <1>10 DEF ToldAll
    <3> QED
      BY <1>1, <1>6, <1>11, <3>1, <3>2 DEF PassTold, ToldAll, Told
  <2>2. ASSUME NEW g \in Screens, g # h
        PROVE  PassTold(passes[g])'
    <3>1. PICK other : other = passes[g]
      OBVIOUS
    <3>2. passes'[g] = other
      BY <1>7, <2>2, <3>1 DEF Inv, TypeOK
    <3>3. PassTold(other)
      BY <3>1 DEF Inv, CopiesTold
    <3> QED
      BY <1>10, <3>2, <3>3 DEF PassTold, ToldAll, Told
  <2> QED
    BY <2>1, <2>2
<1>13. ToldAll(queue)' /\ ToldAll(saving.copy)'
  BY <1>10 DEF Deliver, Inv, CopiesTold, ToldAll, Told
<1> QED
  BY <1>9, <1>12, <1>13 DEF Inv, CopiesTold

LEMMA RestartStep ==
    ASSUME Inv, Restart
    PROVE  Inv'
<1>1. queue' \in Queue /\ ToldAll(queue')
  BY DEF Restart, Inv, TypeOK, CopiesTold, Queue, ToldAll, Told
<1>2. saving' \in [r : Records \cup {None}, copy : Queue] /\ saving'.copy = NoCopy
  BY NoCopyTold DEF Restart, NotSaving
<1>3. passes' \in [Screens -> Pass] /\ \A h \in Screens : passes'[h] = Idle
  BY IdlePass DEF Restart
<1>4. kills' \in 0..MaxKills
  BY MobileAssumption DEF Restart, Inv, TypeOK
<1>5. TypeOK'
  BY <1>1, <1>2, <1>3, <1>4 DEF Restart, Inv, TypeOK
<1>6. CopiesTold'
  BY <1>1, <1>2, <1>3, NoCopyTold, IdlePass
     DEF Restart, Inv, CopiesTold, PassTold, ToldAll, Told
<1> QED
  BY <1>5, <1>6 DEF Inv

-----------------------------------------------------------------------------
LEMMA StepInv == Inv /\ [Next]_vars => Inv'
<1> SUFFICES ASSUME Inv, [Next]_vars PROVE Inv'
  OBVIOUS
<1>1. CASE UNCHANGED vars
  BY <1>1 DEF vars, Inv, TypeOK, CopiesTold, PassTold, ToldAll, Told
<1>2. CASE ShowQueue \/ ShowCapture
  BY <1>2, MountStep
<1>3. CASE \E r \in Records : EnqueueRead(r)
  BY <1>3, EnqueueReadStep
<1>4. CASE EnqueueWrite
  BY <1>4, EnqueueWriteStep
<1>5. ASSUME NEW h \in Screens,
             Begin(h) \/ MarkRead(h) \/ MarkWrite(h) \/ SettleRead(h) \/ SettleWrite(h) \/ Finish(h)
      PROVE  Inv'
  BY <1>5, BeginStep, MarkReadStep, MarkWriteStep, SettleReadStep, SettleWriteStep
<1>6. ASSUME NEW h \in Screens, NEW served \in BOOLEAN, NEW answered \in BOOLEAN,
             Deliver(h, served, answered)
      PROVE  Inv'
  BY <1>6, DeliverStep
<1>7. CASE Restart
  BY <1>7, RestartStep
<1> QED
  BY <1>1, <1>2, <1>3, <1>4, <1>5, <1>6, <1>7 DEF Next

LEMMA InvHolds == Spec => []Inv
BY InitInv, StepInv, PTL DEF Spec

\* The queue, the copies of it and the passes are always well typed.
THEOREM MobileTypes == Spec => []TypeOK
<1>1. Inv => TypeOK
  BY DEF Inv
<1> QED
  BY <1>1, InvHolds, PTL

\* However many passes overlap, however stale the copies of the queue they write back,
\* and whatever answers are lost: what update() put down as synced is recorded, and what
\* it put down as rejected is quarantined.
THEOREM BeliefsAreTrue == Spec => []PhoneKnowsServer
<1>1. Inv => PhoneKnowsServer
  BY DEF Inv, CopiesTold, ToldAll, Told, PhoneKnowsServer
<1> QED
  BY <1>1, InvHolds, PTL

-----------------------------------------------------------------------------
(* One change of the queue at a time                                       *)

Writing(h) == passes[h].at \in {"marking", "settling"}
Handling(h) == passes[h].at \in {"marking", "posting", "answered", "settling"}

OneAtATime ==
    /\ saving.r # None => \A h \in Screens : ~ Writing(h)
    /\ \A g, h \in Screens : passes[g].at # "idle" /\ passes[h].at # "idle" => g = h

\* What is about to be written back is the queue as it is, but for one record: one that
\* is new, or one a pass has in hand and nobody has settled.
CopiesFresh ==
    /\ saving.r # None => saving.copy = queue /\ saving.r \notin taken
    /\ \A h \in Screens : Writing(h) => passes[h].copy = queue

PassesOnPending ==
    \A h \in Screens :
        /\ passes[h].todo \subseteq Pending
        /\ passes[h].at = "idle" => passes[h].todo = {}
        /\ Handling(h) => passes[h].r \in Pending \ passes[h].todo
        /\ passes[h].at = "marking" => passes[h].status = "syncing"
        /\ passes[h].at \in {"answered", "settling"} => passes[h].status # "none"

QueueIsTaken == \A r \in Records : queue[r] # "none" => r \in taken

Fresh == CopiesFresh /\ PassesOnPending /\ QueueIsTaken /\ NothingLost

AloneInv == ~ overlapped => OneAtATime /\ Fresh

\* What every step keeps.
Rejections == \A r \in Records : queue[r] = "rejected" => queue'[r] = "rejected"

\* Two writers, or two passes, are an overlap.
LEMMA ApartUnlessOverlap ==
    ASSUME Inv, ~ Overlap
    PROVE  OneAtATime
<1> DEFINE W == {h \in Screens : Writing(h)}
           B == {h \in Screens : passes[h].at # "idle"}
<1>1. IsFiniteSet(W) /\ IsFiniteSet(B)
  BY FS_Subset, MobileAssumption
<1>2. Cardinality(W) \in Nat /\ Cardinality(B) \in Nat
  BY <1>1, FS_CardinalityType
<1>3. Holding = Cardinality(W) + (IF saving.r = None THEN 0 ELSE 1)
  BY DEF Holding, Writing
<1>4. ~ Holding > 1 /\ ~ Cardinality(B) > 1
  BY DEF Overlap
<1>5. ASSUME saving.r # None, NEW h \in Screens
      PROVE  ~ Writing(h)
  <2>1. Cardinality(W) = 0
    BY <1>2, <1>3, <1>4, <1>5
  <2>2. W = {}
    BY <1>1, <2>1, FS_EmptySet
  <2> QED
    BY <2>2
<1>6. ASSUME NEW g \in B, NEW h \in B, g # h
      PROVE  FALSE
  <2>1. {g, h} \subseteq B
    OBVIOUS
  <2>2. IsFiniteSet({g, h}) /\ Cardinality({g, h}) = 2
    <3>1. IsFiniteSet({g}) /\ Cardinality({g}) = 1
      BY FS_Singleton
    <3>2. IsFiniteSet({g} \cup {h}) /\ Cardinality({g} \cup {h}) = Cardinality({g}) + 1
      BY <1>6, <3>1, FS_AddElement
    <3>3. {g} \cup {h} = {g, h}
      OBVIOUS
    <3> QED
      BY <3>1, <3>2, <3>3
  <2>3. Cardinality({g, h}) =< Cardinality(B)
    BY <1>1, <2>1, FS_Subset
  <2> QED
    BY <1>2, <1>4, <2>2, <2>3
<1>7. \A g, h \in Screens : passes[g].at # "idle" /\ passes[h].at # "idle" => g = h
  BY <1>6
<1> QED
  BY <1>5, <1>7 DEF OneAtATime

LEMMA AloneInit == MCInit => AloneInv
BY DEF MCInit, Init, AloneInv, Fresh, OneAtATime, CopiesFresh, PassesOnPending, QueueIsTaken,
       NothingLost, Writing, Handling, Idle, NoCopy, NotSaving

\* A step of one pass that leaves the queue and the saving alone.
LEMMA AlonePass ==
    ASSUME Inv, Fresh, NEW h \in Screens, NEW row \in Pass,
           passes' = [passes EXCEPT ![h] = row],
           UNCHANGED <<queue, taken, saving>>,
           row.at \in {"marking", "settling"} => row.copy = queue,
           row.todo \subseteq Pending,
           row.at = "idle" => row.todo = {},
           row.at \in {"marking", "posting", "answered", "settling"} => row.r \in Pending \ row.todo,
           row.at = "marking" => row.status = "syncing",
           row.at \in {"answered", "settling"} => row.status # "none",
           \A r \in Records : events[r] # "absent" => events'[r] # "absent"
    PROVE  Fresh' /\ Rejections
<1>1. \A g \in Screens : passes'[g] = IF g = h THEN row ELSE passes[g]
  BY DEF Inv, TypeOK
<1>2. CopiesFresh'
  BY <1>1 DEF Fresh, CopiesFresh, Writing
<1>3. PassesOnPending'
  BY <1>1 DEF Fresh, PassesOnPending, Handling, Pending
<1>4. (QueueIsTaken /\ NothingLost)'
  BY DEF Fresh, QueueIsTaken, NothingLost, Inv, TypeOK
<1> QED
  BY <1>2, <1>3, <1>4 DEF Fresh, Rejections

LEMMA AloneScreens ==
    ASSUME Inv, Fresh, ShowQueue \/ ShowCapture
    PROVE  Fresh' /\ Rejections
BY DEF ShowQueue, ShowCapture, Fresh, CopiesFresh, PassesOnPending, QueueIsTaken, NothingLost,
       Writing, Handling, Pending, Rejections

LEMMA AloneEnqueueRead ==
    ASSUME Inv, Fresh, NEW r \in Records, EnqueueRead(r)
    PROVE  Fresh' /\ Rejections
BY DEF EnqueueRead, Fresh, CopiesFresh, PassesOnPending, QueueIsTaken, NothingLost,
       Writing, Handling, Pending, Rejections

\* The new record goes in beside everything that was there.
LEMMA AloneEnqueueWrite ==
    ASSUME Inv, OneAtATime, Fresh, EnqueueWrite
    PROVE  Fresh' /\ Rejections
<1>0. PICK r : r = saving.r
  OBVIOUS
<1>1. r \in Records /\ r \notin taken /\ queue[r] = "none" /\ taken' = taken \cup {r}
  BY <1>0 DEF EnqueueWrite, Fresh, CopiesFresh, QueueIsTaken, Inv, TypeOK
<1>2. queue' = [queue EXCEPT ![r] = "queued"]
  BY <1>0 DEF EnqueueWrite, Appended, Fresh, CopiesFresh
<1>3. /\ queue'[r] = "queued"
      /\ \A s \in Records : s # r => queue'[s] = queue[s]
  BY <1>1, <1>2 DEF Inv, TypeOK, Queue
<1>4. CopiesFresh'
  BY DEF EnqueueWrite, NotSaving, OneAtATime, CopiesFresh, Writing
<1>5. Pending \subseteq Pending' /\ r \notin Pending
  BY <1>1, <1>3 DEF Pending
<1>6. PassesOnPending'
  BY <1>5 DEF EnqueueWrite, Fresh, PassesOnPending, Handling
<1>7. (QueueIsTaken /\ NothingLost)'
  BY <1>1, <1>3 DEF EnqueueWrite, Fresh, QueueIsTaken, NothingLost, Inv, TypeOK
<1>8. Rejections
  BY <1>1, <1>3 DEF Rejections
<1> QED
  BY <1>4, <1>6, <1>7, <1>8 DEF Fresh

LEMMA AloneBegin ==
    ASSUME Inv, Fresh, NEW h \in Screens, Begin(h) \/ Finish(h)
    PROVE  Fresh' /\ Rejections
<1>1. CASE Begin(h)
  <2> DEFINE row == [Idle EXCEPT !.at = "records", !.todo = Pending]
  <2>1. row \in Pass /\ row.at = "records" /\ row.todo = Pending
    BY IdlePass DEF Idle, Pass, Pending
  <2>2. passes' = [passes EXCEPT ![h] = row] /\ UNCHANGED <<queue, taken, saving, events>>
    BY <1>1 DEF Begin
  <2> HIDE DEF row
  <2> QED
    BY <2>1, <2>2, AlonePass
<1>2. CASE Finish(h)
  <2>1. Idle \in Pass /\ Idle.at = "idle" /\ Idle.todo = {}
    BY IdlePass DEF Idle
  <2>2. passes' = [passes EXCEPT ![h] = Idle] /\ UNCHANGED <<queue, taken, saving, events>>
    BY <1>2 DEF Finish
  <2> QED
    BY <2>1, <2>2, AlonePass
<1> QED
  BY <1>1, <1>2

LEMMA AloneMarkRead ==
    ASSUME Inv, Fresh, NEW h \in Screens, MarkRead(h)
    PROVE  Fresh' /\ Rejections
<1>1. PICK r \in passes[h].todo :
        passes' = [passes EXCEPT ![h].at = "marking", ![h].todo = @ \ {r}, ![h].r = r,
                                 ![h].status = "syncing", ![h].copy = queue]
  BY DEF MarkRead
<1> DEFINE row == [at |-> "marking", todo |-> passes[h].todo \ {r}, r |-> r,
                   status |-> "syncing", copy |-> queue]
<1>2. passes[h].todo \subseteq Pending /\ r \in Pending
  BY DEF Fresh, PassesOnPending
<1>3. row \in Pass
  BY <1>2, PassFields DEF Pass, QueueStatus, Inv, TypeOK, Pending
<1>4. passes' = [passes EXCEPT ![h] = row]
  BY <1>1, PassFields DEF Pass, Inv, TypeOK
<1>5. UNCHANGED <<queue, taken, saving, events>>
  BY DEF MarkRead
<1>6. /\ row.copy = queue /\ row.todo = passes[h].todo \ {r} /\ row.r = r
      /\ row.at = "marking" /\ row.status = "syncing"
  OBVIOUS
<1> HIDE DEF row
<1> QED
  BY <1>2, <1>3, <1>4, <1>5, <1>6, AlonePass

LEMMA AloneSettleRead ==
    ASSUME Inv, Fresh, NEW h \in Screens, SettleRead(h)
    PROVE  Fresh' /\ Rejections
<1> DEFINE row == [passes[h] EXCEPT !.at = "settling", !.copy = queue]
<1>1. /\ row \in Pass /\ row.at = "settling" /\ row.copy = queue
      /\ row.todo = passes[h].todo /\ row.r = passes[h].r /\ row.status = passes[h].status
  BY PassFields DEF Pass, Inv, TypeOK
<1>2. /\ passes[h].todo \subseteq Pending /\ passes[h].r \in Pending \ passes[h].todo
      /\ passes[h].status # "none"
  BY DEF SettleRead, Fresh, PassesOnPending, Handling
<1>3. passes' = [passes EXCEPT ![h] = row] /\ UNCHANGED <<queue, taken, saving, events>>
  BY DEF SettleRead, Inv, TypeOK
<1> HIDE DEF row
<1> QED
  BY <1>1, <1>2, <1>3, AlonePass

LEMMA AloneDeliver ==
    ASSUME Inv, Fresh, NEW h \in Screens, NEW served \in BOOLEAN, NEW answered \in BOOLEAN,
           Deliver(h, served, answered)
    PROVE  Fresh' /\ Rejections
<1>0. PICK r : r = passes[h].r
  OBVIOUS
<1>1. PICK verdict \in Verdict :
        /\ events' = IF served /\ ~ (events[r] # "absent")
                       THEN [events EXCEPT ![r] = verdict] ELSE events
        /\ passes' = [passes EXCEPT ![h].at = "answered",
              ![h].status = IF served /\ answered
                              THEN StatusAfterAnswer(events[r] # "absent", verdict)
                              ELSE StatusAfterFailure]
  BY <1>0 DEF Deliver
<1>2. PICK status :
        status = IF served /\ answered THEN StatusAfterAnswer(events[r] # "absent", verdict)
                                       ELSE StatusAfterFailure
  OBVIOUS
<1>3. status \in QueueStatus /\ status # "none"
  BY <1>2 DEF StatusAfterAnswer, StatusAfterFailure, QueueStatus
<1>4. PICK row : row = [passes[h] EXCEPT !.at = "answered", !.status = status]
  OBVIOUS
<1>5. /\ row \in Pass /\ row.at = "answered" /\ row.todo = passes[h].todo /\ row.r = r
      /\ row.status = status
  BY <1>0, <1>3, <1>4, PassFields DEF Pass
<1>6. passes[h].todo \subseteq Pending /\ r \in Pending \ passes[h].todo
  BY <1>0 DEF Deliver, Fresh, PassesOnPending, Handling
<1>7. passes' = [passes EXCEPT ![h] = row] /\ UNCHANGED <<queue, taken, saving>>
  BY <1>1, <1>2, <1>4 DEF Deliver, Inv, TypeOK
<1>8. \A q \in Records : events[q] # "absent" => events'[q] # "absent"
  BY <1>1 DEF Verdict, Inv, TypeOK
<1> QED
  BY <1>3, <1>5, <1>6, <1>7, <1>8, AlonePass

\* update() writes the queue back as it is, but for the record in hand.
LEMMA AloneWrites ==
    ASSUME Inv, OneAtATime, Fresh, NEW h \in Screens, Writing(h), Writes(h),
           NEW row \in Pass, passes' = [passes EXCEPT ![h] = row],
           UNCHANGED <<taken, saving, events>>,
           \/ /\ row.at = "posting" /\ row.r = passes[h].r /\ row.todo = passes[h].todo
              /\ passes[h].status = "syncing"
           \/ /\ row.at = "records" /\ row.todo = passes[h].todo
              /\ passes[h].status # "none"
    PROVE  Fresh' /\ Rejections
<1>0. PICK r, status : r = passes[h].r /\ status = passes[h].status
  OBVIOUS
<1>1. /\ r \in Records /\ r \in Pending \ passes[h].todo /\ passes[h].todo \subseteq Pending
      /\ status # "none"
  BY <1>0 DEF Writing, Handling, Fresh, PassesOnPending, Pending
<1>2. queue' = [queue EXCEPT ![r] = status]
  BY <1>0, <1>1 DEF Writes, Updated, Fresh, CopiesFresh, Pending
<1>3. /\ queue'[r] = status
      /\ \A s \in Records : s # r => queue'[s] = queue[s]
  BY <1>1, <1>2 DEF Inv, TypeOK, Queue
<1>4. \A g \in Screens : passes'[g] = IF g = h THEN row ELSE passes[g]
  BY DEF Inv, TypeOK
<1>5. \A g \in Screens : g # h => passes[g].at = "idle" /\ passes[g].todo = {}
  BY DEF OneAtATime, Writing, Fresh, PassesOnPending
<1>6. saving.r = None
  BY DEF OneAtATime
<1>7. CopiesFresh'
  BY <1>4, <1>5, <1>6 DEF CopiesFresh, Writing
<1>8. passes[h].todo \subseteq Pending'
  BY <1>1, <1>3 DEF Pending
<1>9. row.at = "posting" => row.r \in Pending' \ row.todo
  BY <1>0, <1>1, <1>3 DEF Pending
<1>10. PassesOnPending'
  BY <1>4, <1>5, <1>8, <1>9 DEF PassesOnPending, Handling
<1>11. (QueueIsTaken /\ NothingLost)'
  BY <1>1, <1>3 DEF Fresh, QueueIsTaken, NothingLost, Pending, Inv, TypeOK
<1>12. Rejections
  BY <1>1, <1>3 DEF Rejections, Pending
<1> QED
  BY <1>7, <1>10, <1>11, <1>12 DEF Fresh

LEMMA AloneMarkWrite ==
    ASSUME Inv, OneAtATime, Fresh, NEW h \in Screens, MarkWrite(h)
    PROVE  Fresh' /\ Rejections
<1> DEFINE row == [passes[h] EXCEPT !.at = "posting", !.copy = NoCopy]
<1>1. /\ row \in Pass /\ row.at = "posting" /\ row.r = passes[h].r
      /\ row.todo = passes[h].todo
  BY PassFields, NoCopyTold DEF Pass
<1>2. Writing(h) /\ passes[h].status = "syncing"
  BY DEF MarkWrite, Writing, Fresh, PassesOnPending
<1>3. passes' = [passes EXCEPT ![h] = row]
  BY DEF MarkWrite, Inv, TypeOK
<1>4. Writes(h) /\ UNCHANGED <<taken, saving, events>>
  BY DEF MarkWrite
<1> HIDE DEF row
<1> QED
  BY <1>1, <1>2, <1>3, <1>4, AloneWrites

LEMMA AloneSettleWrite ==
    ASSUME Inv, OneAtATime, Fresh, NEW h \in Screens, SettleWrite(h)
    PROVE  Fresh' /\ Rejections
<1> DEFINE row == [Idle EXCEPT !.at = "records", !.todo = passes[h].todo]
<1>1. row \in Pass /\ row.at = "records" /\ row.todo = passes[h].todo
  BY PassFields, IdlePass DEF Idle, Pass
<1>2. Writing(h) /\ passes[h].status # "none"
  BY DEF SettleWrite, Writing, Fresh, PassesOnPending
<1>3. passes' = [passes EXCEPT ![h] = row]
  BY DEF SettleWrite
<1>4. Writes(h) /\ UNCHANGED <<taken, saving, events>>
  BY DEF SettleWrite
<1> HIDE DEF row
<1> QED
  BY <1>1, <1>2, <1>3, <1>4, AloneWrites

\* Only what is synced, and so on the server, is pruned.
LEMMA AloneRestart ==
    ASSUME Inv, Fresh, Restart
    PROVE  Fresh' /\ Rejections
<1>1. \A r \in Records : queue'[r] # queue[r] => queue[r] = "synced" /\ queue'[r] = "none"
  BY DEF Restart, Prunable, Inv, TypeOK, Queue
<1>2. \A h \in Screens : passes'[h] = Idle
  BY DEF Restart
<1>3. CopiesFresh' /\ PassesOnPending'
  BY <1>2 DEF Restart, NotSaving, Idle, CopiesFresh, PassesOnPending, Writing, Handling
<1>4. QueueIsTaken'
  BY <1>1 DEF Restart, Fresh, QueueIsTaken, Inv, TypeOK
<1>5. NothingLost'
  BY <1>1 DEF Restart, Fresh, NothingLost, Inv, TypeOK, CopiesTold, ToldAll, Told
<1> QED
  BY <1>1, <1>3, <1>4, <1>5 DEF Fresh, Rejections

LEMMA AloneNext ==
    ASSUME Inv, OneAtATime, Fresh, Next
    PROVE  Fresh' /\ Rejections
<1>1. ASSUME NEW h \in Screens,
             Begin(h) \/ MarkRead(h) \/ MarkWrite(h) \/ SettleRead(h) \/ SettleWrite(h) \/ Finish(h)
      PROVE  Fresh' /\ Rejections
  BY <1>1, AloneBegin, AloneMarkRead, AloneMarkWrite, AloneSettleRead, AloneSettleWrite
<1>2. ASSUME NEW h \in Screens, NEW served \in BOOLEAN, NEW answered \in BOOLEAN,
             Deliver(h, served, answered)
      PROVE  Fresh' /\ Rejections
  BY <1>2, AloneDeliver
<1> QED
  BY <1>1, <1>2, AloneScreens, AloneEnqueueRead, AloneEnqueueWrite, AloneRestart DEF Next

-----------------------------------------------------------------------------
LEMMA AloneStep ==
    ASSUME Inv, Inv', AloneInv, [MCNext]_<<vars, overlapped>>
    PROVE  AloneInv' /\ (~ overlapped' => Rejections)
<1>1. CASE UNCHANGED <<vars, overlapped>>
  BY <1>1 DEF vars, AloneInv, Fresh, OneAtATime, CopiesFresh, PassesOnPending, QueueIsTaken,
              NothingLost, Writing, Handling, Pending, Rejections
<1>2. CASE MCNext /\ ~ overlapped'
  <2>1. ~ overlapped /\ ~ Overlap' /\ Next
    BY <1>2 DEF MCNext
  <2>2. OneAtATime'
    <3>1. Inv' /\ ~ Overlap' => OneAtATime'
      BY ApartUnlessOverlap, PTL
    <3> QED
      BY <2>1, <3>1
  <2> QED
    BY <2>1, <2>2, AloneNext DEF AloneInv
<1>3. CASE overlapped'
  BY <1>3 DEF AloneInv
<1> QED
  BY <1>1, <1>2, <1>3

LEMMA AloneHolds == MCSpec => [](Inv /\ AloneInv)
<1>1. MCInit => Inv /\ AloneInv
  BY InitInv, AloneInit DEF MCInit
<1>2. Inv /\ AloneInv /\ [MCNext]_<<vars, overlapped>> => (Inv /\ AloneInv)'
  <2>1. ASSUME Inv, AloneInv, [MCNext]_<<vars, overlapped>>
        PROVE  (Inv /\ AloneInv)'
    <3>1. [Next]_vars
      BY <2>1 DEF MCNext
    <3>2. Inv'
      BY <2>1, <3>1, StepInv
    <3> QED
      BY <2>1, <3>2, AloneStep
  <2> QED
    BY <2>1
<1> QED
  BY <1>1, <1>2, PTL DEF MCSpec

\* As long as no two changes of the queue, and no two passes, were ever under way at
\* once: through kills, restarts, refusals and lost answers, what the collector was told
\* is saved is in the queue until the server has it.
THEOREM NothingIsLostAlone == MCSpec => []NothingLostAlone
<1>1. AloneInv => NothingLostAlone
  BY DEF AloneInv, Fresh, NothingLostAlone
<1> QED
  BY <1>1, AloneHolds, PTL

\* And a record once rejected stays in the queue as rejected.
THEOREM RejectionsStandAlone == MCSpec => RejectionStandsAlone
<1>1. Inv /\ Inv' /\ AloneInv /\ [MCNext]_<<vars, overlapped>>
        => [~ overlapped' => \A r \in Records : queue[r] = "rejected" => queue'[r] = "rejected"]_vars
  <2>1. ASSUME Inv, Inv', AloneInv, [MCNext]_<<vars, overlapped>>
        PROVE  ~ overlapped' => \A r \in Records : queue[r] = "rejected" => queue'[r] = "rejected"
    BY <2>1, AloneStep DEF Rejections
  <2> QED
    BY <2>1
<1> QED
  BY <1>1, AloneHolds, PTL DEF MCSpec, RejectionStandsAlone

=============================================================================
