-------------------------- MODULE SettlementProofs --------------------------
(***************************************************************************)
(* Theorems about the three services that turn weigh-ins into money, for    *)
(* any number of batches, weigh-ins, requesters, items, withdrawals,        *)
(* redemptions, re-weighs, collectors, hubs, rates and calls in flight:     *)
(* BatchLifecycle, WalletSpend and Payouts by themselves, then what          *)
(* MCSettlement says of each as long as its calls do not overlap.           *)
(***************************************************************************)
EXTENDS MCSettlement, TLAPS, FiniteSetTheorems, SumTheorems

-----------------------------------------------------------------------------
(***************************************************************************)
(* Batches                                                                 *)
(***************************************************************************)
(* The inductive invariant                                                 *)

\* A weigh-in the batch may hold.
Fits(e, b) ==
    /\ events[e] = "clean"
    /\ HubOf[e] = batches[b].hub
    /\ MaterialOf[e] = batches[b].material

\* addEvents() holds a row that stays open while it does, and what it found eligible
\* still fits; advanceStatus() carries a status for a batch that has its root.
AddStands(c) ==
    c.at = "adding" =>
        /\ c.b \in Batches
        /\ Made(c.b)
        /\ Stage(c.b) = "open"
        /\ \A e \in c.es : Fits(e, c.b)

AdvanceStands(c) ==
    c.at = "advancing" =>
        /\ c.b \in Batches
        /\ Made(c.b)
        /\ batches[c.b].root # NoRoot
        /\ c.to \in {"processed", "sold"}

CallsStand == \A p \in Procs : AddStands(call[p]) /\ AdvanceStands(call[p])

\* The row lock is exclusive.
OneAdder ==
    \A p, q \in Procs :
        call[p].at = "adding" /\ call[q].at = "adding" /\ call[p].b = call[q].b => p = q

\* The foreign key: a weigh-in is in a batch that exists.
MembersKnown == \A e \in Events : batchOf[e] # None => Made(batchOf[e])

BatchInv ==
    /\ TypeOK
    /\ CallsStand
    /\ OneAdder
    /\ MembersKnown
    /\ SealedTotalsAreTheRoots
    /\ BatchIsPure

LEMMA IdleCall == Idle \in Call /\ Idle.at = "idle"
BY DEF Idle, Call, Status

LEMMA BatchInit == Init => BatchInv
<1> SUFFICES ASSUME Init PROVE BatchInv
  OBVIOUS
<1>1. TypeOK
  BY IdleCall DEF Init, TypeOK
<1>2. CallsStand
  BY IdleCall DEF Init, CallsStand, AddStands, AdvanceStands
<1>3. OneAdder
  BY IdleCall DEF Init, OneAdder
<1>4. SealedTotalsAreTheRoots /\ BatchIsPure /\ MembersKnown
  BY DEF Init, SealedTotalsAreTheRoots, BatchIsPure, MembersKnown, Made
<1> QED
  BY <1>1, <1>2, <1>3, <1>4 DEF BatchInv

-----------------------------------------------------------------------------
(* One lemma per operation                                                 *)

LEMMA IngestInv ==
    ASSUME BatchInv, NEW e \in Events, NEW verdict \in {"clean", "quarantined"}, Ingest(e, verdict)
    PROVE  BatchInv'
<1> USE DEF BatchInv, Ingest
<1>1. TypeOK'
  BY DEF TypeOK
<1>2. \A d \in Events : events[d] = "clean" => events'[d] = "clean"
  BY DEF TypeOK
<1>3. CallsStand'
  BY <1>2 DEF CallsStand, AddStands, AdvanceStands, Fits, Made, Stage, TypeOK, Call
<1>4. OneAdder'
  BY DEF OneAdder
<1>5. SealedTotalsAreTheRoots' /\ MembersKnown'
  BY DEF SealedTotalsAreTheRoots, MembersKnown, Sealed, Made, Stage
<1>6. BatchIsPure'
  BY <1>2 DEF BatchIsPure, Members, Made, TypeOK, Batch
<1> QED
  BY <1>1, <1>3, <1>4, <1>5, <1>6

LEMMA CreateInv ==
    ASSUME BatchInv, NEW b \in Batches, NEW h \in Hubs, NEW m \in Materials, Create(b, h, m)
    PROVE  BatchInv'
<1> USE DEF BatchInv, Create
<1> DEFINE row == [hub |-> h, material |-> m, status |-> "open", root |-> NoRoot, totals |-> {}]
<1>1. row \in Batch
  BY DEF Batch, Status, NoRoot
<1>2. TypeOK'
  BY <1>1 DEF TypeOK
<1>3. batches'[b] = row /\ \A c \in Batches \ {b} : batches'[c] = batches[c]
  BY DEF TypeOK
<1>4. CallsStand'
  BY <1>3 DEF CallsStand, AddStands, AdvanceStands, Fits, Made, Stage
<1>5. OneAdder'
  BY DEF OneAdder
<1>6. SealedTotalsAreTheRoots' /\ MembersKnown'
  BY <1>3, NoBatchAssumption, <1>1 DEF SealedTotalsAreTheRoots, MembersKnown, Sealed, Made, Stage, TypeOK
<1>7. BatchIsPure'
  <2> SUFFICES ASSUME NEW c \in Batches, Made(c)',
                      NEW e \in Members(c)' \cup batches'[c].root
               PROVE  /\ events[e] = "clean"
                      /\ HubOf[e] = batches'[c].hub
                      /\ MaterialOf[e] = batches'[c].material
    BY DEF BatchIsPure
  <2>1. CASE c = b
    BY <1>3, <2>1, BatchAssumption DEF Members, MembersKnown, NoRoot, Made, TypeOK
  <2>2. CASE c # b
    BY <1>3, <2>2 DEF BatchIsPure, Members, Made
  <2> QED BY <2>1, <2>2
<1> QED
  BY <1>2, <1>4, <1>5, <1>6, <1>7

LEMMA AddReadInv ==
    ASSUME BatchInv, NEW p \in Procs, NEW b \in Batches, NEW es \in SUBSET Events, AddRead(p, b, es)
    PROVE  BatchInv'
<1> USE DEF BatchInv, AddRead
<1> DEFINE c == [Idle EXCEPT !.at = "adding", !.b = b, !.es = es]
<1>1. c \in Call /\ c.at = "adding" /\ c.b = b /\ c.es = es
  BY DEF Idle, Call, Status
<1>2. call' = [call EXCEPT ![p] = c]
  OBVIOUS
<1> HIDE DEF c
<1>3. TypeOK'
  BY <1>1, <1>2 DEF TypeOK
<1>4. CallsStand'
  BY <1>1, <1>2 DEF CallsStand, AddStands, AdvanceStands, Fits, Made, Stage, LockedAndOpen, Eligible, TypeOK
<1>5. OneAdder'
  BY <1>1, <1>2 DEF OneAdder, LockedAndOpen, Locked, TypeOK
<1>6. SealedTotalsAreTheRoots' /\ BatchIsPure' /\ MembersKnown'
  BY DEF SealedTotalsAreTheRoots, BatchIsPure, MembersKnown, Sealed, Made, Stage, Members
<1> QED
  BY <1>3, <1>4, <1>5, <1>6

LEMMA AddCommitInv ==
    ASSUME BatchInv, NEW p \in Procs, AddCommit(p)
    PROVE  BatchInv'
<1> USE DEF BatchInv
<1> DEFINE b == call[p].b
           es == call[p].es
           row == [batches[b] EXCEPT !.totals = Members(b) \cup es]
<1>1. b \in Batches /\ es \in SUBSET Events /\ Made(b) /\ Stage(b) = "open"
      /\ (\A e \in es : Fits(e, b)) /\ call[p].at = "adding"
  BY DEF AddCommit, CallsStand, AddStands, TypeOK, Call
<1>2. batches[b] \in Batch
  BY <1>1 DEF TypeOK, Made
<1>3. row \in Batch /\ row.status = batches[b].status /\ row.root = batches[b].root
      /\ row.hub = batches[b].hub /\ row.material = batches[b].material
  BY <1>1, <1>2 DEF Batch, Members
<1>4. /\ batches' = [batches EXCEPT ![b] = row]
      /\ batchOf' = [e \in Events |-> IF e \in es THEN b ELSE batchOf[e]]
      /\ call' = [call EXCEPT ![p] = Idle]
      /\ events' = events
  BY DEF AddCommit
<1> HIDE DEF b, es, row
<1>5. TypeOK'
  BY <1>1, <1>3, <1>4, IdleCall DEF TypeOK
<1>6. \A c \in Batches : /\ Made(c)' <=> Made(c)
                         /\ Made(c) => /\ Stage(c)' = Stage(c)
                                       /\ batches'[c].root = batches[c].root
                                       /\ batches'[c].hub = batches[c].hub
                                       /\ batches'[c].material = batches[c].material
  BY <1>1, <1>3, <1>4, NoBatchAssumption DEF Made, Stage, TypeOK
<1>7. CallsStand'
  BY <1>4, <1>6, IdleCall DEF CallsStand, AddStands, AdvanceStands, Fits, TypeOK
<1>8. OneAdder'
  BY <1>4, IdleCall DEF OneAdder, TypeOK
<1>9. MembersKnown'
  BY <1>1, <1>4, <1>6 DEF MembersKnown, TypeOK
<1>10. SealedTotalsAreTheRoots'
  <2> SUFFICES ASSUME NEW c \in Batches, Made(c)'
               PROVE  /\ Sealed(c)' <=> batches'[c].root # NoRoot
                      /\ Sealed(c)' => batches'[c].totals = batches'[c].root
    BY DEF SealedTotalsAreTheRoots
  <2>1. CASE c = b
    BY <1>1, <1>6, <2>1 DEF SealedTotalsAreTheRoots, Sealed
  <2>2. CASE c # b
    BY <1>4, <1>6, <2>2 DEF SealedTotalsAreTheRoots, Sealed, TypeOK
  <2> QED BY <2>1, <2>2
<1>11. BatchIsPure'
  <2> SUFFICES ASSUME NEW c \in Batches, Made(c)',
                      NEW e \in Members(c)' \cup batches'[c].root
               PROVE  Fits(e, c)'
    BY DEF BatchIsPure, Fits
  <2>1. Fits(e, c)
    BY <1>1, <1>4, <1>6 DEF BatchIsPure, Members, Fits
  <2> QED
    BY <1>4, <1>6, <2>1 DEF Fits
<1> QED
  BY <1>5, <1>7, <1>8, <1>9, <1>10, <1>11

LEMMA RemoveInv ==
    ASSUME BatchInv, NEW b \in Batches, NEW e \in Events, Remove(b, e)
    PROVE  BatchInv'
<1> USE DEF BatchInv
<1> DEFINE row == [batches[b] EXCEPT !.totals = Members(b) \ {e}]
<1>1. Made(b) /\ Stage(b) = "open" /\ batches[b] \in Batch
  BY DEF Remove, RemoveFrom, LockedAndOpen, TypeOK, Made
<1>2. row \in Batch /\ row.status = batches[b].status /\ row.root = batches[b].root
      /\ row.hub = batches[b].hub /\ row.material = batches[b].material
  BY <1>1 DEF Batch, Members
<1>3. /\ batches' = [batches EXCEPT ![b] = row]
      /\ batchOf' = [batchOf EXCEPT ![e] = None]
      /\ UNCHANGED <<events, call>>
  BY DEF Remove
<1> HIDE DEF row
<1>4. TypeOK'
  BY <1>2, <1>3 DEF TypeOK
<1>5. \A c \in Batches : /\ Made(c)' <=> Made(c)
                         /\ Made(c) => /\ Stage(c)' = Stage(c)
                                       /\ batches'[c].root = batches[c].root
                                       /\ batches'[c].hub = batches[c].hub
                                       /\ batches'[c].material = batches[c].material
  BY <1>1, <1>2, <1>3, NoBatchAssumption DEF Made, Stage, TypeOK
<1>6. CallsStand' /\ OneAdder'
  BY <1>3, <1>5 DEF CallsStand, AddStands, AdvanceStands, Fits, OneAdder
<1>7. MembersKnown'
  BY <1>3, <1>5 DEF MembersKnown, TypeOK
<1>8. SealedTotalsAreTheRoots'
  <2> SUFFICES ASSUME NEW c \in Batches, Made(c)'
               PROVE  /\ Sealed(c)' <=> batches'[c].root # NoRoot
                      /\ Sealed(c)' => batches'[c].totals = batches'[c].root
    BY DEF SealedTotalsAreTheRoots
  <2>1. CASE c = b
    BY <1>1, <1>5, <2>1 DEF SealedTotalsAreTheRoots, Sealed
  <2>2. CASE c # b
    BY <1>3, <1>5, <2>2 DEF SealedTotalsAreTheRoots, Sealed, TypeOK
  <2> QED BY <2>1, <2>2
<1>9. BatchIsPure'
  <2> SUFFICES ASSUME NEW c \in Batches, Made(c)',
                      NEW d \in Members(c)' \cup batches'[c].root
               PROVE  Fits(d, c)'
    BY DEF BatchIsPure, Fits
  <2>1. Fits(d, c)
    BY <1>3, <1>5, BatchAssumption DEF BatchIsPure, Members, Fits, TypeOK
  <2> QED
    BY <1>3, <1>5, <2>1 DEF Fits
<1> QED
  BY <1>4, <1>6, <1>7, <1>8, <1>9

LEMMA SealInv ==
    ASSUME BatchInv, NEW b \in Batches, Seal(b)
    PROVE  BatchInv'
<1> USE DEF BatchInv
<1> DEFINE row == [batches[b] EXCEPT !.status = SealedStatus, !.root = Members(b), !.totals = Members(b)]
<1>1. Made(b) /\ Stage(b) = "open" /\ batches[b] \in Batch /\ ~ Locked(b) /\ Members(b) # {}
  BY DEF Seal, SealNow, LockedAndOpen, TypeOK, Made
<1>2. row \in Batch /\ row.status = "sealed" /\ row.root = Members(b) /\ row.totals = Members(b)
      /\ row.hub = batches[b].hub /\ row.material = batches[b].material
  BY <1>1 DEF Batch, Members, SealedStatus, Status
<1>3. batches' = [batches EXCEPT ![b] = row] /\ UNCHANGED <<events, batchOf, call>>
  BY DEF Seal
<1> HIDE DEF row
<1>4. TypeOK'
  BY <1>2, <1>3 DEF TypeOK
<1>5. \A c \in Batches : /\ Made(c)' <=> Made(c)
                         /\ Made(c) => /\ batches'[c].hub = batches[c].hub
                                       /\ batches'[c].material = batches[c].material
                         /\ c # b => batches'[c] = batches[c]
  BY <1>1, <1>2, <1>3, NoBatchAssumption DEF Made, TypeOK
<1>6. batches'[b] = row
  BY <1>3 DEF TypeOK
<1>7. CallsStand'
  <2> SUFFICES ASSUME NEW p \in Procs PROVE AddStands(call[p])' /\ AdvanceStands(call[p])'
    BY DEF CallsStand
  <2>1. AddStands(call[p])'
    BY <1>1, <1>3, <1>5 DEF CallsStand, AddStands, Locked, Fits, Stage
  <2>2. AdvanceStands(call[p])'
    BY <1>1, <1>2, <1>3, <1>5, <1>6 DEF CallsStand, AdvanceStands, NoRoot
  <2> QED BY <2>1, <2>2
<1>8. OneAdder' /\ MembersKnown'
  BY <1>3, <1>5 DEF OneAdder, MembersKnown, TypeOK
<1>9. SealedTotalsAreTheRoots'
  BY <1>1, <1>2, <1>3, <1>5, <1>6 DEF SealedTotalsAreTheRoots, Sealed, Stage, NoRoot
<1>10. BatchIsPure'
  <2> SUFFICES ASSUME NEW c \in Batches, Made(c)',
                      NEW e \in Members(c)' \cup batches'[c].root
               PROVE  Fits(e, c)'
    BY DEF BatchIsPure, Fits
  <2>1. Fits(e, c)
    BY <1>2, <1>3, <1>5, <1>6 DEF BatchIsPure, Members, Fits
  <2> QED
    BY <1>3, <1>5, <2>1 DEF Fits
<1> QED
  BY <1>4, <1>7, <1>8, <1>9, <1>10

LEMMA AdvanceReadInv ==
    ASSUME BatchInv, NEW p \in Procs, NEW b \in Batches, NEW to \in Status, AdvanceRead(p, b, to)
    PROVE  BatchInv'
<1> USE DEF BatchInv, AdvanceRead
<1> DEFINE c == [Idle EXCEPT !.at = "advancing", !.b = b, !.to = to]
<1>1. c \in Call /\ c.at = "advancing" /\ c.b = b /\ c.to = to
  BY DEF Idle, Call, Status
<1>2. call' = [call EXCEPT ![p] = c]
  OBVIOUS
<1> HIDE DEF c
<1>3. TypeOK'
  BY <1>1, <1>2 DEF TypeOK
<1>4. Stage(b) # "open" /\ to \in {"processed", "sold"}
  BY DEF CanAdvance, Follows
<1>5. batches[b].root # NoRoot
  BY <1>4 DEF SealedTotalsAreTheRoots, Sealed
<1>6. CallsStand'
  BY <1>1, <1>2, <1>4, <1>5 DEF CallsStand, AddStands, AdvanceStands, Fits, Made, Stage, TypeOK
<1>7. OneAdder'
  BY <1>1, <1>2 DEF OneAdder, TypeOK
<1>8. SealedTotalsAreTheRoots' /\ BatchIsPure' /\ MembersKnown'
  BY DEF SealedTotalsAreTheRoots, BatchIsPure, MembersKnown, Sealed, Made, Stage, Members
<1> QED
  BY <1>3, <1>6, <1>7, <1>8

LEMMA AdvanceWriteInv ==
    ASSUME BatchInv, NEW p \in Procs, AdvanceWrite(p)
    PROVE  BatchInv'
<1> USE DEF BatchInv
<1> DEFINE b == call[p].b
           to == call[p].to
           row == [batches[b] EXCEPT !.status = to]
<1>1. /\ call[p].at = "advancing" /\ b \in Batches /\ Made(b) /\ batches[b] \in Batch
      /\ batches[b].root # NoRoot /\ to \in {"processed", "sold"} /\ ~ Locked(b)
  BY DEF AdvanceWrite, CallsStand, AdvanceStands, TypeOK, Made
<1>2. row \in Batch /\ row.status = to /\ row.root = batches[b].root /\ row.totals = batches[b].totals
      /\ row.hub = batches[b].hub /\ row.material = batches[b].material
  BY <1>1 DEF Batch, Status
<1>3. /\ batches' = [batches EXCEPT ![b] = row]
      /\ call' = [call EXCEPT ![p] = Idle]
      /\ UNCHANGED <<events, batchOf>>
  BY DEF AdvanceWrite
<1> HIDE DEF b, to, row
<1>4. TypeOK'
  BY <1>2, <1>3, IdleCall DEF TypeOK
<1>5. \A c \in Batches : /\ Made(c)' <=> Made(c)
                         /\ Made(c) => /\ batches'[c].hub = batches[c].hub
                                       /\ batches'[c].material = batches[c].material
                                       /\ batches'[c].root = batches[c].root
                                       /\ batches'[c].totals = batches[c].totals
                         /\ c # b => batches'[c] = batches[c]
  BY <1>1, <1>2, <1>3, NoBatchAssumption DEF Made, TypeOK
<1>6. batches'[b].status = to
  BY <1>1, <1>2, <1>3 DEF TypeOK
<1>7. CallsStand'
  <2> SUFFICES ASSUME NEW q \in Procs PROVE AddStands(call[q])' /\ AdvanceStands(call[q])'
    BY DEF CallsStand
  <2>0. call'[q] = call[q] \/ call'[q].at = "idle"
    BY <1>3, IdleCall DEF TypeOK
  <2>1. AddStands(call[q])'
    BY <1>1, <1>3, <1>5, <2>0 DEF CallsStand, AddStands, Locked, Fits, Stage
  <2>2. AdvanceStands(call[q])'
    BY <1>5, <2>0 DEF CallsStand, AdvanceStands
  <2> QED BY <2>1, <2>2
<1>8. OneAdder' /\ MembersKnown'
  BY <1>3, <1>5, IdleCall DEF OneAdder, MembersKnown, TypeOK
<1>9. SealedTotalsAreTheRoots'
  BY <1>1, <1>5, <1>6 DEF SealedTotalsAreTheRoots, Sealed, Stage
<1>10. BatchIsPure'
  BY <1>3, <1>5 DEF BatchIsPure, Members
<1> QED
  BY <1>4, <1>7, <1>8, <1>9, <1>10

LEMMA CrashInv ==
    ASSUME BatchInv, NEW p \in Procs, Crash(p)
    PROVE  BatchInv'
<1> USE DEF BatchInv, Crash
<1>1. TypeOK'
  BY IdleCall DEF TypeOK
<1>2. CallsStand' /\ OneAdder'
  BY IdleCall DEF CallsStand, OneAdder, AddStands, AdvanceStands, Fits, Made, Stage, TypeOK
<1>3. SealedTotalsAreTheRoots' /\ BatchIsPure' /\ MembersKnown'
  BY DEF SealedTotalsAreTheRoots, BatchIsPure, MembersKnown, Sealed, Made, Stage, Members
<1> QED
  BY <1>1, <1>2, <1>3

LEMMA BatchStep == BatchInv /\ [Next]_vars => BatchInv'
<1> SUFFICES ASSUME BatchInv, [Next]_vars PROVE BatchInv'
  OBVIOUS
<1>1. CASE \E e \in Events, verdict \in {"clean", "quarantined"} : Ingest(e, verdict)
  BY <1>1, IngestInv
<1>2. CASE \E b \in Batches : Seal(b)
  BY <1>2, SealInv
<1>3. CASE \E b \in Batches, h \in Hubs, m \in Materials : Create(b, h, m)
  BY <1>3, CreateInv
<1>4. CASE \E b \in Batches, e \in Events : Remove(b, e)
  BY <1>4, RemoveInv
<1>5. CASE \E p \in Procs : AddCommit(p) \/ AdvanceWrite(p) \/ Crash(p)
  BY <1>5, AddCommitInv, AdvanceWriteInv, CrashInv
<1>6. CASE \E p \in Procs, b \in Batches, es \in SUBSET Events : AddRead(p, b, es)
  BY <1>6, AddReadInv
<1>7. CASE \E p \in Procs, b \in Batches, to \in Status : AdvanceRead(p, b, to)
  BY <1>7, AdvanceReadInv
<1>8. CASE UNCHANGED vars
  BY <1>8 DEF vars, BatchInv, TypeOK, CallsStand, AddStands, AdvanceStands, Fits, OneAdder, MembersKnown,
              SealedTotalsAreTheRoots, BatchIsPure, Members, Sealed, Made, Stage
<1> QED
  BY <1>1, <1>2, <1>3, <1>4, <1>5, <1>6, <1>7, <1>8 DEF Next

\* The invariant of batches, in every reachable state.
THEOREM BatchInvHolds == Spec => []BatchInv
<1> QED
  BY BatchInit, BatchStep, PTL DEF Spec

-----------------------------------------------------------------------------
(* What it gives                                                           *)

\* The rows and the calls in flight are always well typed (batches, batch ids of
\* weigh-ins, what addEvents() and advanceStatus() hold).
THEOREM BatchTypes == Spec => []TypeOK
<1>1. BatchInv => TypeOK
  BY DEF BatchInv
<1> QED
  BY <1>1, BatchInvHolds, PTL

\* A batch has its root exactly from seal() on, and is sold by the weight of the
\* weigh-ins under it, whatever else was adding, removing or advancing.
THEOREM TotalsAreRoots == Spec => []SealedTotalsAreTheRoots
<1>1. BatchInv => SealedTotalsAreTheRoots
  BY DEF BatchInv
<1> QED
  BY <1>1, BatchInvHolds, PTL

\* What addEvents() refuses never is in a batch or under a root, even though it
\* checks before it writes and locks no weigh-in.
THEOREM BatchPurity == Spec => []BatchIsPure
<1>1. BatchInv => BatchIsPure
  BY DEF BatchInv
<1> QED
  BY <1>1, BatchInvHolds, PTL

\* No later call, not even one that takes no lock, touches the root or the totals
\* seal() wrote.
THEOREM RootIsFinal == Spec => RootNeverChanges
<1>1. ASSUME BatchInv, [Next]_vars, NEW b \in Batches, Sealed(b)
      PROVE  batches'[b].root = batches[b].root /\ batches'[b].totals = batches[b].totals
  <2> USE <1>1 DEF BatchInv, Sealed
  <2>1. CASE \E e \in Events, verdict \in {"clean", "quarantined"} : Ingest(e, verdict)
    BY <2>1 DEF Ingest
  <2>2. CASE \E c \in Batches : Seal(c)
    BY <2>2 DEF Seal, SealNow, LockedAndOpen, TypeOK
  <2>3. CASE \E c \in Batches, h \in Hubs, m \in Materials : Create(c, h, m)
    BY <2>3 DEF Create, TypeOK
  <2>4. CASE \E c \in Batches, e \in Events : Remove(c, e)
    BY <2>4 DEF Remove, RemoveFrom, LockedAndOpen, TypeOK
  <2>5. CASE \E p \in Procs : AddCommit(p)
    <3> PICK p \in Procs : AddCommit(p)
      BY <2>5
    <3>1. Stage(call[p].b) = "open" /\ call[p].b \in Batches
      BY DEF AddCommit, CallsStand, AddStands
    <3>2. call[p].b # b
      BY <3>1
    <3> QED
      BY <3>1, <3>2 DEF AddCommit, TypeOK
  <2>6. CASE \E p \in Procs : AdvanceWrite(p)
    <3> PICK p \in Procs : AdvanceWrite(p)
      BY <2>6
    <3>1. batches[b] \in Batch
      BY DEF TypeOK, Made
    <3> DEFINE row == [batches[call[p].b] EXCEPT !.status = call[p].to]
    <3>2. batches' = [batches EXCEPT ![call[p].b] = row]
      BY DEF AdvanceWrite
    <3>3. CASE call[p].b = b
      <4>1. row.root = batches[b].root /\ row.totals = batches[b].totals
        BY <3>1, <3>3 DEF Batch
      <4> HIDE DEF row
      <4> QED
        BY <3>2, <3>3, <4>1 DEF TypeOK
    <3>4. CASE call[p].b # b
      BY <3>2, <3>4 DEF TypeOK
    <3> QED
      BY <3>3, <3>4
  <2>7. CASE \E p \in Procs : Crash(p)
    BY <2>7 DEF Crash
  <2>8. CASE \E p \in Procs, c \in Batches, es \in SUBSET Events : AddRead(p, c, es)
    BY <2>8 DEF AddRead
  <2>9. CASE \E p \in Procs, c \in Batches, to \in Status : AdvanceRead(p, c, to)
    BY <2>9 DEF AdvanceRead
  <2>10. CASE UNCHANGED vars
    BY <2>10 DEF vars
  <2> QED
    BY <2>1, <2>2, <2>3, <2>4, <2>5, <2>6, <2>7, <2>8, <2>9, <2>10 DEF Next
<1>2. BatchInv /\ [Next]_vars =>
        [\A b \in Batches : Sealed(b) =>
            /\ batches'[b].root = batches[b].root
            /\ batches'[b].totals = batches[b].totals]_vars
  BY <1>1
<1> QED
  BY <1>2, BatchInvHolds, PTL DEF Spec, RootNeverChanges

-----------------------------------------------------------------------------
(***************************************************************************)
(* What requesters do with their credits.  What follows holds whatever      *)
(* balance a call has read; that balances cover what is withdrawn is shown  *)
(* below, for calls that do not overlap.                                   *)
(***************************************************************************)
(* The inductive invariant                                                 *)

CallOK(c) ==
    /\ c = [at |-> c.at, who |-> c.who, amount |-> c.amount, seen |-> c.seen, item |-> c.item]
    /\ c.at \in {"idle", "balanceRead", "allowed", "redeeming"}
    /\ c.at # "idle" => c.who \in Requesters
    /\ c.at \in {"balanceRead", "allowed"} => c.amount \in Amounts
    /\ c.at = "redeeming" => c.item \in Items

Rows ==
    /\ withdrawals \in [Withdrawals -> Withdrawal \cup {None}]
    /\ redemptions \in [Redemptions -> Redemption \cup {None}]
    /\ stock \in [Items -> Nat \cup {None}]
    /\ \A i \in Items : StockOf[i] # None => stock[i] \in Nat
    /\ debits \in [Withdrawals \cup Redemptions -> Nat]

Calls ==
    /\ spending = [p \in Procs |-> spending[p]]
    /\ \A p \in Procs : CallOK(spending[p])

\* What redeem() read under its lock stands when it writes, since the lock is its own.
LocksHold ==
    /\ \A p \in Procs :
          spending[p].at = "redeeming" => spending[p].seen = stock[spending[p].item] /\ spending[p].seen # 0
    /\ \A p, q \in Procs :
          (spending[p].at = "redeeming" /\ spending[q].at = "redeeming" /\ spending[p].item = spending[q].item) => p = q

SpendingInv == Rows /\ Calls /\ LocksHold /\ StockIsAccounted /\ DebitedOnce

tables == <<withdrawals, redemptions, stock, debits>>

-----------------------------------------------------------------------------
LEMMA IdleOK == CallOK(NotSpending) /\ NotSpending.at = "idle"
BY DEF CallOK, NotSpending

LEMMA SpendingInit == ASSUME SpendAssumption PROVE SpendInit => SpendingInv
<1> SUFFICES ASSUME SpendInit PROVE SpendingInv OBVIOUS
<1>1. Rows BY DEF SpendInit, Rows, SpendAssumption
<1>2. \A p \in Procs : spending[p] = NotSpending BY DEF SpendInit
<1>3. Calls
  <2>1. spending = [p \in Procs |-> spending[p]] BY DEF SpendInit
  <2> QED BY <1>2, <2>1, IdleOK DEF Calls
<1>4. LocksHold BY <1>2, IdleOK DEF LocksHold
<1>5. StockIsAccounted
  <2>1. \A i \in Items : Redeemed(i) = {} BY DEF SpendInit, Redeemed
  <2>2. \A i \in Items : StockOf[i] # None => StockOf[i] \in Nat BY DEF SpendAssumption
  <2>3. \A i \in Items : stock[i] = StockOf[i] BY DEF SpendInit
  <2>4. \A i \in Items : Cardinality(Redeemed(i)) = 0 BY <2>1, FS_EmptySet
  <2> QED BY <2>2, <2>3, <2>4 DEF StockIsAccounted
<1>6. DebitedOnce BY DEF SpendInit, DebitedOnce
<1> QED BY <1>1, <1>3, <1>4, <1>5, <1>6 DEF SpendingInv

-----------------------------------------------------------------------------
(* A call that goes on, or ends, without a write                           *)

\* The call of p becomes c; it may take the lock of an item that nobody holds.
LEMMA SpendingMoves ==
    ASSUME SpendingInv, NEW p \in Procs, NEW c, spending' = [spending EXCEPT ![p] = c], CallOK(c),
           c.at = "redeeming" =>
              /\ \A q \in Procs \ {p} : ~ (spending[q].at = "redeeming" /\ spending[q].item = c.item)
              /\ c.seen = stock'[c.item] /\ c.seen # 0,
           \A q \in Procs \ {p} : spending[q].at = "redeeming" => stock'[spending[q].item] = stock[spending[q].item]
    PROVE  Calls' /\ LocksHold'
<1>1. spending'[p] = c /\ \A q \in Procs \ {p} : spending'[q] = spending[q] BY DEF SpendingInv, Calls
<1>2. Calls'
  <2>1. spending' = [q \in Procs |-> spending'[q]] BY DEF SpendingInv, Calls
  <2>2. \A q \in Procs : CallOK(spending'[q]) BY <1>1 DEF SpendingInv, Calls
  <2> QED BY <2>1, <2>2 DEF Calls
<1>3. LocksHold'
  <2>1. ASSUME NEW q \in Procs, spending'[q].at = "redeeming"
        PROVE  spending'[q].seen = stock'[spending'[q].item] /\ spending'[q].seen # 0
    BY <1>1, <2>1 DEF SpendingInv, LocksHold
  <2>2. ASSUME NEW q \in Procs, NEW r \in Procs, spending'[q].at = "redeeming",
               spending'[r].at = "redeeming", spending'[q].item = spending'[r].item
        PROVE  q = r
    BY <1>1, <2>2 DEF SpendingInv, LocksHold
  <2> QED BY <2>1, <2>2 DEF LocksHold
<1> QED BY <1>2, <1>3

LEMMA TablesSame ==
    ASSUME SpendingInv, UNCHANGED tables PROVE Rows' /\ StockIsAccounted' /\ DebitedOnce'
<1>1. UNCHANGED withdrawals /\ UNCHANGED redemptions /\ UNCHANGED stock /\ UNCHANGED debits
  BY DEF tables
<1>2. Rows' BY <1>1 DEF SpendingInv, Rows
<1>3. StockIsAccounted' BY <1>1 DEF SpendingInv, StockIsAccounted, Redeemed
<1>4. DebitedOnce' BY <1>1 DEF SpendingInv, DebitedOnce
<1> QED BY <1>2, <1>3, <1>4

\* A call that writes nothing and takes no lock.
LEMMA CallGoesOn ==
    ASSUME SpendingInv, NEW p \in Procs, NEW c, spending' = [spending EXCEPT ![p] = c], CallOK(c),
           c.at # "redeeming", UNCHANGED tables
    PROVE  SpendingInv'
<1>1. stock' = stock BY DEF tables
<1>2. Calls' /\ LocksHold' BY <1>1, SpendingMoves
<1> QED BY <1>2, TablesSame DEF SpendingInv

\* Tables that change while every call stands.
LEMMA SpendingStands ==
    ASSUME SpendingInv, UNCHANGED <<spending, stock>> PROVE Calls' /\ LocksHold'
BY DEF SpendingInv, Calls, LocksHold

LEMMA RequestKeeps ==
    ASSUME SpendingInv, NEW p \in Procs, NEW q \in Requesters, NEW n \in Amounts, RequestBalance(p, q, n)
    PROVE  SpendingInv'
<1>1. PICK c : c = [NotSpending EXCEPT !.at = "balanceRead", !.who = q, !.amount = n, !.seen = Balance(q)]
  OBVIOUS
<1>2. spending' = [spending EXCEPT ![p] = c] /\ UNCHANGED tables BY <1>1 DEF RequestBalance, tables
<1>3. CallOK(c) /\ c.at = "balanceRead" BY <1>1 DEF CallOK, NotSpending
<1> QED BY <1>2, <1>3, CallGoesOn

LEMMA QuietKeeps ==
    ASSUME SpendingInv, NEW p \in Procs, RequestPending(p) \/ SpendCrash(p)
    PROVE  SpendingInv'
<1>1. UNCHANGED tables BY DEF RequestPending, SpendCrash, tables
<1>3. CASE RequestPending(p)
  <2>1. PICK c : c = IF spending[p].amount <= Available(spending[p].seen, spending[p].who)
                        THEN [spending[p] EXCEPT !.at = "allowed"] ELSE NotSpending
    OBVIOUS
  <2>2. spending' = [spending EXCEPT ![p] = c] /\ spending[p].at = "balanceRead" BY <1>3, <2>1 DEF RequestPending
  <2>3. CallOK(spending[p]) BY DEF SpendingInv, Calls
  <2>4. CallOK([spending[p] EXCEPT !.at = "allowed"]) BY <2>2, <2>3 DEF CallOK
  <2>5. CallOK(c) /\ c.at # "redeeming"
    <3>1. CASE c = NotSpending BY <3>1, IdleOK
    <3>2. CASE c = [spending[p] EXCEPT !.at = "allowed"]
      <4>1. c.at = "allowed" BY <2>3, <3>2 DEF CallOK
      <4> QED BY <2>4, <3>2, <4>1
    <3> QED BY <2>1, <3>1, <3>2
  <2> QED BY <1>1, <2>2, <2>5, CallGoesOn
<1>4. CASE SpendCrash(p)
  <2>1. spending' = [spending EXCEPT ![p] = NotSpending] BY <1>4 DEF SpendCrash
  <2> QED BY <1>1, <2>1, IdleOK, CallGoesOn
<1> QED BY <1>3, <1>4

-----------------------------------------------------------------------------
(* Withdrawals                                                             *)

\* A withdrawal's row is written, with a debit if it is paid now.
LEMMA WithdrawalWritten ==
    ASSUME SpendAssumption, SpendingInv, NEW w \in Withdrawals, NEW row \in Withdrawal,
           withdrawals' = [withdrawals EXCEPT ![w] = row], UNCHANGED <<redemptions, stock>>,
           withdrawals[w] = None \/ withdrawals[w].status = "pending",
           debits' = IF row.status = "paid" THEN [debits EXCEPT ![w] = @ + 1] ELSE debits
    PROVE  Rows' /\ StockIsAccounted' /\ DebitedOnce'
<1>1. debits[w] = 0 BY DEF SpendingInv, DebitedOnce
<1>2. debits \in [Withdrawals \cup Redemptions -> Nat] BY DEF SpendingInv, Rows
<1>3. /\ debits' \in [Withdrawals \cup Redemptions -> Nat]
      /\ debits'[w] = IF row.status = "paid" THEN 1 ELSE 0
      /\ \A x \in (Withdrawals \cup Redemptions) \ {w} : debits'[x] = debits[x]
  BY <1>1, <1>2
<1>4. Rows' BY <1>3 DEF SpendingInv, Rows
<1>5. StockIsAccounted' BY DEF SpendingInv, StockIsAccounted, Redeemed
<1>6. /\ withdrawals'[w] = row /\ row # None
      /\ \A x \in Withdrawals \ {w} : withdrawals'[x] = withdrawals[x]
  BY DEF SpendingInv, Rows, SpendAssumption
<1>7. \A d \in Redemptions : d # w BY DEF SpendAssumption
<1>8. DebitedOnce' BY <1>3, <1>6, <1>7 DEF SpendingInv, DebitedOnce
<1> QED BY <1>4, <1>5, <1>8

LEMMA RequestCommitKeeps ==
    ASSUME SpendAssumption, SpendingInv, NEW p \in Procs, NEW w \in Withdrawals, RequestCommit(p, w)
    PROVE  SpendingInv'
<1>1. PICK row : row = [who |-> spending[p].who, amount |-> spending[p].amount, status |-> "pending"] OBVIOUS
<1>2. /\ spending[p].at = "allowed" /\ withdrawals[w] = None
      /\ withdrawals' = [withdrawals EXCEPT ![w] = row]
      /\ spending' = [spending EXCEPT ![p] = NotSpending]
      /\ redemptions' = redemptions /\ stock' = stock /\ debits' = debits
  BY <1>1 DEF RequestCommit
<1>3. CallOK(spending[p]) BY DEF SpendingInv, Calls
<1>4. row \in Withdrawal /\ row.status # "paid" BY <1>1, <1>2, <1>3 DEF CallOK, Withdrawal
<1>5. Rows' /\ StockIsAccounted' /\ DebitedOnce' BY <1>2, <1>4, WithdrawalWritten
<1>6. Calls' /\ LocksHold' BY <1>2, IdleOK, SpendingMoves
<1> QED BY <1>5, <1>6 DEF SpendingInv

LEMMA WithdrawalPaidKeeps ==
    ASSUME SpendAssumption, SpendingInv, NEW p \in Procs, NEW w \in Withdrawals, MarkPaid(p, w)
    PROVE  SpendingInv'
<1>1. PICK row : row = [withdrawals[w] EXCEPT !.status = "paid"] OBVIOUS
<1>2. /\ withdrawals[w] # None /\ withdrawals[w].status = "pending"
      /\ debits' = [debits EXCEPT ![w] = @ + 1]
      /\ withdrawals' = [withdrawals EXCEPT ![w] = row]
      /\ UNCHANGED <<redemptions, stock, spending>>
  BY <1>1 DEF MarkPaid, Pending
<1>3. withdrawals[w] \in Withdrawal BY <1>2 DEF SpendingInv, Rows
<1>4. row \in Withdrawal /\ row.status = "paid" BY <1>1, <1>3 DEF Withdrawal
<1>5. Rows' /\ StockIsAccounted' /\ DebitedOnce' BY <1>2, <1>4, WithdrawalWritten
<1> QED BY <1>2, <1>5, SpendingStands DEF SpendingInv

LEMMA RejectKeeps ==
    ASSUME SpendAssumption, SpendingInv, NEW p \in Procs, NEW w \in Withdrawals, Reject(p, w)
    PROVE  SpendingInv'
<1>1. PICK row : row = [withdrawals[w] EXCEPT !.status = "rejected"] OBVIOUS
<1>2. /\ withdrawals[w] # None /\ withdrawals[w].status = "pending"
      /\ withdrawals' = [withdrawals EXCEPT ![w] = row]
      /\ UNCHANGED <<redemptions, stock, debits, spending>>
  BY <1>1 DEF Reject, Pending
<1>3. withdrawals[w] \in Withdrawal BY <1>2 DEF SpendingInv, Rows
<1>4. row \in Withdrawal /\ row.status # "paid" BY <1>1, <1>3 DEF Withdrawal
<1>5. Rows' /\ StockIsAccounted' /\ DebitedOnce' BY <1>2, <1>4, WithdrawalWritten
<1> QED BY <1>2, <1>5, SpendingStands DEF SpendingInv

-----------------------------------------------------------------------------
(* Redemptions                                                             *)

LEMMA RedeemReadKeeps ==
    ASSUME SpendAssumption, SpendingInv, NEW p \in Procs, NEW q \in Requesters, NEW i \in Items,
           RedeemRead(p, q, i)
    PROVE  SpendingInv'
<1>1. PICK c : c = [NotSpending EXCEPT !.at = "redeeming", !.who = q, !.item = i, !.seen = stock[i]] OBVIOUS
<1>2. /\ spending' = [spending EXCEPT ![p] = c] /\ ~ ItemLocked(i) /\ stock[i] # 0 /\ stock' = stock
      /\ UNCHANGED tables
  BY <1>1 DEF RedeemRead, InStock, tables
<1>3. CallOK(c) /\ c.item = i /\ c.seen = stock[i] BY <1>1 DEF CallOK, NotSpending
<1>4. \A r \in Procs : ~ (spending[r].at = "redeeming" /\ spending[r].item = i) BY <1>2 DEF ItemLocked
<1>5. Calls' /\ LocksHold' BY <1>2, <1>3, <1>4, SpendingMoves
<1> QED BY <1>2, <1>5, TablesSame DEF SpendingInv

LEMMA RedeemCommitKeeps ==
    ASSUME SpendAssumption, SpendingInv, NEW p \in Procs, NEW d \in Redemptions, RedeemCommit(p, d)
    PROVE  SpendingInv'
<1>1. PICK i : i = spending[p].item OBVIOUS
<1>2. PICK row : row = [who |-> spending[p].who, item |-> i, cost |-> CostOf[i],
                        status |-> "pending_fulfillment"]
  OBVIOUS
<1>3. /\ spending[p].at = "redeeming" /\ redemptions[d] = None
      /\ stock' = [stock EXCEPT ![i] = UnitsLeft(spending[p].seen)]
      /\ redemptions' = [redemptions EXCEPT ![d] = row]
      /\ debits' = [debits EXCEPT ![d] = @ + 1]
      /\ spending' = [spending EXCEPT ![p] = NotSpending]
      /\ withdrawals' = withdrawals
  BY <1>1, <1>2 DEF RedeemCommit
<1>4. /\ i \in Items /\ spending[p].who \in Requesters
      /\ spending[p].seen = stock[i] /\ stock[i] # 0
  BY <1>1, <1>3 DEF SpendingInv, Calls, CallOK, LocksHold
<1>5. /\ withdrawals \in [Withdrawals -> Withdrawal \cup {None}]
      /\ redemptions \in [Redemptions -> Redemption \cup {None}]
      /\ stock \in [Items -> Nat \cup {None}]
      /\ debits \in [Withdrawals \cup Redemptions -> Nat]
  BY DEF SpendingInv, Rows
<1>6. row \in Redemption /\ row # None /\ row.item = i
  BY <1>2, <1>4 DEF Redemption, SpendAssumption
<1>7. /\ stock'[i] = IF stock[i] = None THEN None ELSE stock[i] - 1
      /\ stock'[i] \in Nat \cup {None}
      /\ \A j \in Items \ {i} : stock'[j] = stock[j]
  BY <1>3, <1>4, <1>5 DEF UnitsLeft
<1>8. Rows'
  <2>1. stock' \in [Items -> Nat \cup {None}] BY <1>3, <1>5, <1>7
  <2>2. redemptions' \in [Redemptions -> Redemption \cup {None}] BY <1>3, <1>5, <1>6
  <2>3. debits' \in [Withdrawals \cup Redemptions -> Nat] BY <1>3, <1>5
  <2>4. \A j \in Items : StockOf[j] # None => stock'[j] \in Nat
    <3>1. StockOf[i] # None => stock'[i] \in Nat
      <4> SUFFICES ASSUME StockOf[i] # None PROVE stock'[i] \in Nat OBVIOUS
      <4>1. stock[i] \in Nat /\ stock[i] # None /\ stock[i] # 0
        BY <1>4 DEF SpendingInv, Rows, SpendAssumption
      <4> QED BY <1>7, <4>1
    <3> QED BY <1>7, <3>1 DEF SpendingInv, Rows
  <2> QED BY <1>3, <1>5, <2>1, <2>2, <2>3, <2>4 DEF Rows
<1>9. redemptions'[d] = row /\ \A x \in Redemptions \ {d} : redemptions'[x] = redemptions[x]
  BY <1>3, <1>5
<1>10. StockIsAccounted'
  <2>1. Redeemed(i)' = Redeemed(i) \cup {d} /\ d \notin Redeemed(i)
    BY <1>3, <1>6, <1>9 DEF Redeemed
  <2>2. \A j \in Items \ {i} : Redeemed(j)' = Redeemed(j) BY <1>3, <1>6, <1>9 DEF Redeemed
  <2>3. Redeemed(i) \in SUBSET Redemptions BY DEF Redeemed
  <2>4. IsFiniteSet(Redeemed(i)) BY <2>3, FS_Subset DEF SpendAssumption
  <2>5. Cardinality(Redeemed(i)) \in Nat BY <2>4, FS_CardinalityType
  <2>6. Cardinality(Redeemed(i)') = Cardinality(Redeemed(i)) + 1 BY <2>1, <2>4, FS_AddElement
  <2>7. SUFFICES ASSUME NEW j \in Items
                 PROVE  IF StockOf[j] = None THEN stock'[j] = None
                        ELSE stock'[j] + Cardinality(Redeemed(j)') = StockOf[j]
    BY DEF StockIsAccounted
  <2>8. CASE j = i
    <3>1. CASE StockOf[i] = None BY <1>7, <2>8, <3>1 DEF SpendingInv, StockIsAccounted
    <3>2. CASE StockOf[i] # None
      <4>1. stock[i] + Cardinality(Redeemed(i)) = StockOf[i] BY <1>4, <3>2 DEF SpendingInv, StockIsAccounted
      <4>2. stock[i] \in Nat /\ stock[i] # None BY <1>4, <3>2 DEF SpendingInv, Rows, SpendAssumption
      <4>3. stock'[i] = stock[i] - 1 BY <1>7, <4>2
      <4>4. stock'[i] + (Cardinality(Redeemed(i)) + 1) = StockOf[i] BY <2>5, <4>1, <4>2, <4>3
      <4> QED BY <2>6, <2>8, <3>2, <4>4
    <3> QED BY <3>1, <3>2
  <2>9. CASE j # i BY <1>7, <2>2, <2>9 DEF SpendingInv, StockIsAccounted
  <2> QED BY <2>8, <2>9
<1>11. DebitedOnce'
  <2>1. debits[d] = 0 BY <1>3 DEF SpendingInv, DebitedOnce
  <2>2. debits'[d] = 1 /\ \A x \in (Withdrawals \cup Redemptions) \ {d} : debits'[x] = debits[x]
    BY <1>3, <1>5, <2>1
  <2>3. \A w \in Withdrawals : w # d BY DEF SpendAssumption
  <2> QED BY <1>3, <1>6, <1>9, <2>2, <2>3 DEF SpendingInv, DebitedOnce
<1>12. \A q \in Procs \ {p} : spending[q].at = "redeeming" => stock'[spending[q].item] = stock[spending[q].item]
  <2> TAKE q \in Procs \ {p}
  <2> HAVE spending[q].at = "redeeming"
  <2>1. spending[q].item \in Items /\ spending[q].item # i
    BY <1>1, <1>3 DEF SpendingInv, Calls, CallOK, LocksHold
  <2> QED BY <1>7, <2>1
<1>13. Calls' /\ LocksHold' BY <1>3, <1>12, IdleOK, SpendingMoves
<1> QED BY <1>8, <1>10, <1>11, <1>13 DEF SpendingInv

LEMMA FulfillKeeps ==
    ASSUME SpendAssumption, SpendingInv, NEW p \in Procs, NEW d \in Redemptions, Fulfill(p, d)
    PROVE  SpendingInv'
<1>1. PICK row : row = [redemptions[d] EXCEPT !.status = "fulfilled"] OBVIOUS
<1>2. /\ redemptions[d] # None
      /\ redemptions' = [redemptions EXCEPT ![d] = row]
      /\ UNCHANGED <<withdrawals, stock, debits, spending>>
  BY <1>1 DEF Fulfill
<1>3. redemptions \in [Redemptions -> Redemption \cup {None}] BY DEF SpendingInv, Rows
<1>4. redemptions[d] \in Redemption BY <1>2, <1>3
<1>5. row \in Redemption /\ row # None /\ row.item = redemptions[d].item
  BY <1>1, <1>4 DEF Redemption, SpendAssumption
<1>6. redemptions'[d] = row /\ \A x \in Redemptions \ {d} : redemptions'[x] = redemptions[x]
  BY <1>2, <1>3
<1>7. Rows' BY <1>2, <1>5 DEF SpendingInv, Rows
<1>8. \A i \in Items : Redeemed(i)' = Redeemed(i) BY <1>2, <1>5, <1>6 DEF Redeemed
<1>9. StockIsAccounted' BY <1>2, <1>8 DEF SpendingInv, StockIsAccounted
<1>10. DebitedOnce' BY <1>2, <1>5, <1>6 DEF SpendingInv, DebitedOnce
<1> QED BY <1>2, <1>7, <1>9, <1>10, SpendingStands DEF SpendingInv

-----------------------------------------------------------------------------
(* Every step                                                              *)

LEMMA LedgerKeeps ==
    ASSUME SpendingInv, (\E q \in Requesters : Earn(q) \/ Correct(q)) \/ UNCHANGED spendVars PROVE SpendingInv'
<1>1. UNCHANGED tables /\ UNCHANGED <<spending, stock>> BY DEF Earn, Correct, spendVars, tables
<1> QED BY <1>1, TablesSame, SpendingStands DEF SpendingInv

LEMMA SpendingStep == ASSUME SpendAssumption PROVE SpendingInv /\ [SpendNext]_spendVars => SpendingInv'
<1> SUFFICES ASSUME SpendingInv, [SpendNext]_spendVars PROVE SpendingInv' OBVIOUS
<1>1. CASE (\E q \in Requesters : Earn(q) \/ Correct(q)) \/ UNCHANGED spendVars BY <1>1, LedgerKeeps
<1>2. ASSUME NEW p \in Procs, RequestPending(p) \/ SpendCrash(p) PROVE SpendingInv' BY <1>2, QuietKeeps
<1>3. ASSUME NEW p \in Procs, NEW q \in Requesters, NEW n \in Amounts, RequestBalance(p, q, n)
      PROVE  SpendingInv'
  BY <1>3, RequestKeeps
<1>4. ASSUME NEW p \in Procs, NEW q \in Requesters, NEW i \in Items, RedeemRead(p, q, i) PROVE SpendingInv'
  BY <1>4, RedeemReadKeeps
<1>5. ASSUME NEW p \in Procs, NEW w \in Withdrawals,
             RequestCommit(p, w) \/ MarkPaid(p, w) \/ Reject(p, w)
      PROVE  SpendingInv'
  BY <1>5, RequestCommitKeeps, WithdrawalPaidKeeps, RejectKeeps
<1>6. ASSUME NEW p \in Procs, NEW d \in Redemptions, RedeemCommit(p, d) \/ Fulfill(p, d) PROVE SpendingInv'
  BY <1>6, RedeemCommitKeeps, FulfillKeeps
<1> QED BY <1>1, <1>2, <1>3, <1>4, <1>5, <1>6 DEF SpendNext

\* The invariant of withdrawals and redemptions, in every reachable state.
THEOREM SpendingInvHolds == ASSUME SpendAssumption PROVE SpendSpec => []SpendingInv
BY SpendingInit, SpendingStep, PTL DEF SpendSpec

-----------------------------------------------------------------------------
(* What follows                                                            *)

\* However many redeem() the last unit of an item, and whichever calls die half-way, the units
\* on the shelf and those redeemed are the units there were.
THEOREM StockStaysAccounted == ASSUME SpendAssumption PROVE SpendSpec => []StockIsAccounted
BY SpendingInvHolds, PTL DEF SpendingInv

\* Whatever calls race or die, the ledger has one debit for a withdrawal that markPaid() paid
\* and for a redemption, and none for any other.
THEOREM EachDebitedOnce == ASSUME SpendAssumption PROVE SpendSpec => []DebitedOnce
BY SpendingInvHolds, PTL DEF SpendingInv

-----------------------------------------------------------------------------
(***************************************************************************)
(* Payouts.  A payout's amount is a sum, which is not computed here: the   *)
(* proofs use that the same items add up to the same.                      *)
(***************************************************************************)
(* The inductive invariant                                                 *)

\* What create() has priced so far; and where a hub turned out to have no rate in force, what was
\* there before the day of the call has none.
CallOwed(c) ==
    /\ c = [at |-> c.at, to |-> c.to, asked |-> c.asked, items |-> c.items, day |-> c.day,
            next |-> c.next]
    /\ c.items \in PayoutItems
    /\ c.day \in Nat /\ c.day <= today
    /\ \A r \in Covered(c.items) :
          /\ c.at \in {"pricing", "noOwnRate"}
          /\ r \in c.asked
          /\ PriceStands(r, c.items[r], c.day)
    /\ c.at = "noOwnRate" =>
          /\ c.next \in c.asked
          /\ \A other \in rates :
                createdAt[other] < c.day /\ Applies(other, c.next, c.day) => other.hub = None
    /\ c.at # "idle" => \A r \in c.asked : CollectorOf[r] = c.to

RowOwed(row) ==
    /\ row = [to |-> row.to, items |-> row.items, amount |-> row.amount, made |-> row.made,
              status |-> row.status]
    /\ row.amount = Sum(row.items)
    /\ row.made \in Nat /\ row.made <= today
    /\ \A r \in Covered(row.items) : CollectorOf[r] = row.to /\ PriceStands(r, row.items[r], row.made)

PayingInv ==
    /\ today \in Nat
    /\ createdAt = [rate \in Rates |-> createdAt[rate]]
    /\ paying = [p \in Procs |-> paying[p]]
    /\ \A p \in Procs : CallOwed(paying[p])
    /\ payouts = [i \in PayoutIds |-> payouts[i]]
    /\ \A i \in PayoutIds : payouts[i] # None => RowOwed(payouts[i])

LEMMA IdleOwed == ASSUME today \in Nat PROVE CallOwed(NotPaying)
<1>1. NoItems \in PayoutItems BY DEF NoItems, PayoutItems
<1>2. Covered(NoItems) = {} BY DEF Covered, NoItems
<1> QED BY <1>1, <1>2 DEF CallOwed, NotPaying

LEMMA PayingInit == PayInit => PayingInv
<1> SUFFICES ASSUME PayInit PROVE PayingInv OBVIOUS
<1>1. \A p \in Procs : paying[p] = NotPaying BY DEF PayInit
<1>2. paying = [p \in Procs |-> paying[p]] /\ payouts = [i \in PayoutIds |-> payouts[i]] BY DEF PayInit
<1>3. today \in Nat /\ createdAt = [rate \in Rates |-> createdAt[rate]] BY DEF PayInit
<1>4. \A i \in PayoutIds : payouts[i] = None BY DEF PayInit
<1> QED BY <1>1, <1>2, <1>3, <1>4, IdleOwed DEF PayingInv

\* Time goes on, and rates are made, never unmade.
Later ==
    /\ today' \in Nat /\ today <= today'
    /\ \A rate \in rates : rate \in rates' /\ createdAt'[rate] = createdAt[rate]
    /\ \A rate \in rates' : rate \in rates \/ createdAt'[rate] = today
    /\ createdAt' = [rate \in Rates |-> createdAt'[rate]]

LEMMA SameRates == ASSUME PayingInv, UNCHANGED <<today, createdAt>> PROVE Later
BY DEF PayingInv, Later, rates

\* What is made later overrides nothing that was there before a day that has come.
LEMMA PriceStays ==
    ASSUME today \in Nat, Later, NEW r, NEW perKg, NEW day \in Nat, day <= today,
           PriceStands(r, perKg, day)
    PROVE  PriceStands(r, perKg, day)'
<1>1. PICK rate \in rates : /\ rate.perKg = perKg /\ Applies(rate, r, day)
                            /\ \A other \in rates : createdAt[other] < day /\ Applies(other, r, day)
                                                     => ~ Overrides(other, rate)
  BY DEF PriceStands
<1>2. rate \in rates' BY DEF Later
<1>3. ASSUME NEW other \in rates', createdAt'[other] < day PROVE other \in rates /\ createdAt[other] < day
  BY <1>3 DEF Later
<1>4. \A other : Applies(other, r, day)' = Applies(other, r, day) BY DEF Applies
<1>5. \A other : Overrides(other, rate)' = Overrides(other, rate) BY DEF Overrides
<1> QED BY <1>1, <1>2, <1>3, <1>4, <1>5 DEF PriceStands, Applies, Overrides

\* What was owed stays owed.
LEMMA OwedStays ==
    ASSUME today \in Nat, Later
    PROVE  /\ \A c : CallOwed(c) => CallOwed(c)'
           /\ \A row : RowOwed(row) => RowOwed(row)'
<1>1. ASSUME NEW day \in Nat, day <= today PROVE day <= today' BY <1>1 DEF Later
<1>2. ASSUME NEW c, CallOwed(c) PROVE CallOwed(c)'
  <2>1. c.day \in Nat /\ c.day <= today BY <1>2 DEF CallOwed
  <2>2. \A r \in Covered(c.items) : PriceStands(r, c.items[r], c.day)' BY <1>2, <2>1, PriceStays DEF CallOwed
  <2>3. ASSUME c.at = "noOwnRate", NEW other \in rates', createdAt'[other] < c.day, Applies(other, c.next, c.day)
        PROVE  other.hub = None
    <3>1. other \in rates /\ createdAt[other] < c.day BY <2>1, <2>3 DEF Later
    <3> QED BY <1>2, <2>3, <3>1 DEF CallOwed
  <2>4. c.day <= today' BY <1>1, <2>1
  <2> QED BY <1>2, <2>1, <2>2, <2>3, <2>4 DEF CallOwed, Applies
<1>3. ASSUME NEW row, RowOwed(row) PROVE RowOwed(row)'
  <2>1. row.made \in Nat /\ row.made <= today BY <1>3 DEF RowOwed
  <2>2. \A r \in Covered(row.items) : PriceStands(r, row.items[r], row.made)'
    BY <1>3, <2>1, PriceStays DEF RowOwed
  <2>3. row.made <= today' BY <1>1, <2>1
  <2> QED BY <1>3, <2>1, <2>2, <2>3 DEF RowOwed
<1> QED BY <1>2, <1>3

\* A step after which each call and each row is owed, as things were before it.
LEMMA OwedKeeps ==
    ASSUME PayingInv, Later,
           paying' = [q \in Procs |-> paying'[q]],
           \A q \in Procs : CallOwed(paying'[q]),
           payouts' = [i \in PayoutIds |-> payouts'[i]],
           \A i \in PayoutIds : payouts'[i] # None => RowOwed(payouts'[i])
    PROVE  PayingInv'
<1>1. today \in Nat BY DEF PayingInv
<1>2. ASSUME NEW q \in Procs, NEW c, c = paying'[q] PROVE CallOwed(c)' BY <1>1, <1>2, OwedStays
<1>3. ASSUME NEW i \in PayoutIds, NEW row, row = payouts'[i], row # None PROVE RowOwed(row)'
  BY <1>1, <1>3, OwedStays
<1>4. \A q \in Procs : CallOwed(paying[q])' BY <1>2 DEF CallOwed
<1>5. \A i \in PayoutIds : payouts'[i] # None => RowOwed(payouts[i])' BY <1>3 DEF RowOwed
<1> QED BY <1>4, <1>5 DEF PayingInv, Later

\* One call moves on.
LEMMA PayingMoves ==
    ASSUME PayingInv, NEW p \in Procs, NEW c, CallOwed(c), paying' = [paying EXCEPT ![p] = c],
           UNCHANGED <<today, createdAt, payouts>>
    PROVE  PayingInv'
<1>1. \A q \in Procs : paying'[q] = c \/ paying'[q] = paying[q] BY DEF PayingInv
<1>2. \A q \in Procs : CallOwed(paying'[q]) BY <1>1 DEF PayingInv
<1>3. paying' = [q \in Procs |-> paying'[q]] BY DEF PayingInv
<1>4. \A i \in PayoutIds : payouts'[i] # None => RowOwed(payouts'[i]) BY DEF PayingInv
<1>5. payouts' = [i \in PayoutIds |-> payouts'[i]] BY DEF PayingInv
<1> QED BY <1>2, <1>3, <1>4, <1>5, SameRates, OwedKeeps

-----------------------------------------------------------------------------
(* One lemma for each action                                               *)

\* Nothing moves but the clock and the rates.
LEMMA TimeKeeps == ASSUME PayingInv, Later, UNCHANGED <<paying, payouts>> PROVE PayingInv'
BY OwedKeeps DEF PayingInv

LEMMA TickKeeps == ASSUME PayingInv, Tick PROVE PayingInv'
<1>1. Later BY DEF PayingInv, Tick, Later, rates
<1> QED BY <1>1, TimeKeeps DEF Tick

LEMMA CreateRateKeeps ==
    ASSUME PayoutAssumption, PayingInv, NEW rate \in Rates, CreateRate(rate)
    PROVE  PayingInv'
<1>1. /\ createdAt'[rate] = today /\ \A other \in Rates \ {rate} : createdAt'[other] = createdAt[other]
      /\ createdAt' = [other \in Rates |-> createdAt'[other]] /\ rate \notin rates
  BY DEF CreateRate, PayingInv
<1>2. today # None /\ today' = today BY DEF PayingInv, PayoutAssumption, CreateRate
<1>3. Later BY <1>1, <1>2 DEF PayingInv, Later, rates
<1> QED BY <1>3, TimeKeeps DEF CreateRate

LEMMA CreateReadKeeps ==
    ASSUME PayingInv, NEW p \in Procs, NEW to \in Collectors, NEW asked \in SUBSET Reweighs,
           CreateRead(p, to, asked)
    PROVE  PayingInv'
<1>1. PICK c : c = [NotPaying EXCEPT !.at = "reweighsRead", !.to = to, !.asked = asked] OBVIOUS
<1>2. /\ paying' = [paying EXCEPT ![p] = c] /\ \A r \in asked : CollectorOf[r] = to
      /\ UNCHANGED <<today, createdAt, payouts>>
  BY <1>1 DEF CreateRead, Theirs
<1>3. c = [at |-> "reweighsRead", to |-> to, asked |-> asked, items |-> NoItems, day |-> 0, next |-> None]
  BY <1>1 DEF NotPaying
<1>4. CallOwed(c)
  <2>1. NoItems \in PayoutItems /\ Covered(NoItems) = {} BY DEF NoItems, PayoutItems, Covered
  <2>2. today \in Nat BY DEF PayingInv
  <2> QED BY <1>2, <1>3, <2>1, <2>2 DEF CallOwed
<1> QED BY <1>2, <1>4, PayingMoves

LEMMA CreateItemsReadKeeps == ASSUME PayingInv, NEW p \in Procs, CreateItemsRead(p) PROVE PayingInv'
<1>1. PICK old : old = paying[p] OBVIOUS
<1>2. PICK c : c = IF Unattached(old.asked) THEN [old EXCEPT !.at = "pricing", !.day = today] ELSE NotPaying
  OBVIOUS
<1>3. /\ old.at = "reweighsRead" /\ paying' = [paying EXCEPT ![p] = c]
      /\ UNCHANGED <<today, createdAt, payouts>>
  BY <1>1, <1>2 DEF CreateItemsRead
<1>4. CallOwed(old) /\ today \in Nat BY <1>1 DEF PayingInv
<1>5. old = [at |-> old.at, to |-> old.to, asked |-> old.asked, items |-> old.items, day |-> old.day,
             next |-> old.next]
  BY <1>4 DEF CallOwed
<1>6. Covered(old.items) = {} BY <1>3, <1>4 DEF CallOwed
<1>7. CallOwed(c)
  <2>1. CASE c = NotPaying BY <1>4, <2>1, IdleOwed
  <2>2. CASE c = [old EXCEPT !.at = "pricing", !.day = today]
    <3>1. c = [at |-> "pricing", to |-> old.to, asked |-> old.asked, items |-> old.items, day |-> today,
               next |-> old.next]
      BY <1>5, <2>2
    <3> QED BY <1>3, <1>4, <1>6, <3>1 DEF CallOwed
  <2> QED BY <1>2, <2>1, <2>2
<1> QED BY <1>3, <1>7, PayingMoves

\* A price is written, and the call goes on pricing.
LEMMA PricedKeeps ==
    ASSUME PayingInv, NEW p \in Procs, NEW r \in Reweighs, NEW perKg \in Nat, NEW old, old = paying[p],
           NEW next, NEW c,
           c = [at |-> "pricing", to |-> old.to, asked |-> old.asked,
                items |-> [old.items EXCEPT ![r] = perKg], day |-> old.day, next |-> next],
           old.at \in {"pricing", "noOwnRate"}, r \in old.asked, PriceStands(r, perKg, old.day),
           paying' = [paying EXCEPT ![p] = c], UNCHANGED <<today, createdAt, payouts>>
    PROVE  PayingInv'
<1>1. CallOwed(old) BY DEF PayingInv
<1>2. PICK items : items = [old.items EXCEPT ![r] = perKg] OBVIOUS
<1>3. /\ items \in PayoutItems /\ items[r] = perKg
      /\ \A x \in Reweighs \ {r} : items[x] = old.items[x]
  BY <1>1, <1>2 DEF PayoutItems, CallOwed
<1>4. \A x \in Covered(items) : x = r \/ (x \in Covered(old.items) /\ items[x] = old.items[x])
  BY <1>3 DEF Covered
<1>5. CallOwed(c)
  <2>1. c = [at |-> "pricing", to |-> old.to, asked |-> old.asked, items |-> items, day |-> old.day,
             next |-> next]
    BY <1>2
  <2>2. c.day \in Nat /\ c.day <= today BY <1>1, <2>1 DEF CallOwed
  <2>3. \A x \in old.asked : CollectorOf[x] = old.to BY <1>1 DEF CallOwed
  <2>4. \A x \in Covered(old.items) : x \in old.asked /\ PriceStands(x, old.items[x], old.day)
    BY <1>1 DEF CallOwed
  <2>5. \A x \in Covered(items) : x \in old.asked /\ PriceStands(x, items[x], old.day)
    BY <1>3, <1>4, <2>4
  <2>6. c.at = "pricing" /\ c.asked = old.asked /\ c.to = old.to /\ c.items = items /\ c.day = old.day
    BY <2>1
  <2>7. \A x \in Covered(c.items) :
           c.at \in {"pricing", "noOwnRate"} /\ x \in c.asked /\ PriceStands(x, c.items[x], c.day)
    BY <2>5, <2>6
  <2>8. c = [at |-> c.at, to |-> c.to, asked |-> c.asked, items |-> c.items, day |-> c.day,
             next |-> c.next]
    BY <2>1
  <2> QED BY <1>3, <2>2, <2>3, <2>6, <2>7, <2>8 DEF CallOwed
<1> QED BY <1>5, PayingMoves

\* Where there are rates, there is a latest.
LEMMA SomeLatest ==
    ASSUME PayoutAssumption, NEW tier, tier \subseteq Rates, tier # {}
    PROVE  Latest(tier) # {}
<1>1. \A rate \in tier : rate.from \in Nat /\ rate.from <= LastDay BY DEF PayoutAssumption, Days
<1>2. LastDay \in Nat BY DEF PayoutAssumption
<1>3. PICK T : T = {LastDay - rate.from : rate \in tier} OBVIOUS
<1>4. T \subseteq Nat /\ T # {} BY <1>1, <1>2, <1>3
<1>5. PICK n \in T : \A m \in T : n <= m BY <1>4, LeastNat
<1>6. PICK rate \in tier : n = LastDay - rate.from BY <1>3
<1>7. ASSUME NEW other \in tier PROVE other.from <= rate.from
  <2>1. LastDay - other.from \in T BY <1>3
  <2>2. LastDay - rate.from <= LastDay - other.from BY <1>5, <1>6, <2>1
  <2> QED BY <1>1, <1>2, <2>2
<1> QED BY <1>6, <1>7 DEF Latest

\* The latest of a hub's rates is overridden by none.
LEMMA OwnRateStands ==
    ASSUME PayoutAssumption, NEW r \in Reweighs, NEW day, NEW rate \in Latest(InForce(ReweighHubOf[r], day))
    PROVE  rate.perKg \in Nat /\ PriceStands(r, rate.perKg, day)
<1>1. rate \in rates /\ rate.hub = ReweighHubOf[r] /\ rate.from <= day BY DEF Latest, InForce
<1>2. ReweighHubOf[r] # None BY DEF PayoutAssumption
<1>3. ASSUME NEW other \in rates, Applies(other, r, day) PROVE ~ Overrides(other, rate)
  <2>1. other.from \in Int /\ rate.from \in Int BY <1>1, <1>3 DEF rates, PayoutAssumption, Days
  <2>2. ASSUME other.hub = rate.hub PROVE other.from <= rate.from
    BY <1>1, <1>3, <2>2 DEF Applies, Latest, InForce
  <2> QED BY <1>1, <1>2, <2>1, <2>2 DEF Overrides
<1>4. rate.perKg \in Nat BY <1>1 DEF rates, PayoutAssumption
<1> QED BY <1>1, <1>3, <1>4 DEF PriceStands, Applies

LEMMA CreatePriceKeeps ==
    ASSUME PayoutAssumption, PayingInv, NEW p \in Procs, NEW r \in Reweighs, CreatePrice(p, r)
    PROVE  PayingInv'
<1>1. PICK old : old = paying[p] OBVIOUS
<1>2. PICK own : own = Latest(InForce(ReweighHubOf[r], old.day)) OBVIOUS
<1>3. /\ old.at = "pricing" /\ r \in old.asked /\ UNCHANGED <<today, createdAt, payouts>>
      /\ \/ own = {} /\ paying' = [paying EXCEPT ![p] = [old EXCEPT !.at = "noOwnRate", !.next = r]]
         \/ \E rate \in own : paying' = [paying EXCEPT ![p] = [old EXCEPT !.items[r] = rate.perKg]]
  BY <1>1, <1>2 DEF CreatePrice
<1>4. CallOwed(old) /\ today \in Nat BY <1>1 DEF PayingInv
<1>5. old = [at |-> old.at, to |-> old.to, asked |-> old.asked, items |-> old.items, day |-> old.day,
             next |-> old.next]
  BY <1>4 DEF CallOwed
<1>6. ASSUME own = {}, paying' = [paying EXCEPT ![p] = [old EXCEPT !.at = "noOwnRate", !.next = r]] PROVE PayingInv'
  <2>1. PICK c : c = [old EXCEPT !.at = "noOwnRate", !.next = r] OBVIOUS
  <2>2. paying' = [paying EXCEPT ![p] = c] BY <1>6, <2>1
  <2>3. c = [at |-> "noOwnRate", to |-> old.to, asked |-> old.asked, items |-> old.items, day |-> old.day,
             next |-> r]
    BY <1>5, <2>1
  <2>4. ASSUME NEW other \in rates, Applies(other, r, old.day) PROVE other.hub = None
    <3>1. SUFFICES ASSUME other.hub # None PROVE FALSE OBVIOUS
    <3>2. other \in InForce(ReweighHubOf[r], old.day) BY <2>4, <3>1 DEF Applies, InForce
    <3>3. InForce(ReweighHubOf[r], old.day) \subseteq Rates BY DEF InForce, rates
    <3> QED BY <1>2, <1>6, <3>2, <3>3, SomeLatest
  <2>5. CallOwed(c) BY <1>3, <1>4, <2>3, <2>4 DEF CallOwed
  <2> QED BY <1>3, <2>2, <2>5, PayingMoves
<1>7. ASSUME NEW rate \in own, paying' = [paying EXCEPT ![p] = [old EXCEPT !.items[r] = rate.perKg]] PROVE PayingInv'
  <2>1. PICK c : c = [old EXCEPT !.items[r] = rate.perKg] OBVIOUS
  <2>2. paying' = [paying EXCEPT ![p] = c] BY <1>7, <2>1
  <2>3. c = [at |-> "pricing", to |-> old.to, asked |-> old.asked,
             items |-> [old.items EXCEPT ![r] = rate.perKg], day |-> old.day, next |-> old.next]
    BY <1>3, <1>5, <2>1
  <2>4. rate.perKg \in Nat /\ PriceStands(r, rate.perKg, old.day) BY <1>2, <1>7, OwnRateStands
  <2> QED BY <1>1, <1>3, <2>2, <2>3, <2>4, PricedKeeps
<1> QED BY <1>3, <1>6, <1>7

LEMMA CreatePriceDefaultKeeps ==
    ASSUME PayoutAssumption, PayingInv, NEW p \in Procs, NEW r \in Reweighs, CreatePriceDefault(p, r)
    PROVE  PayingInv'
<1>1. PICK old : old = paying[p] OBVIOUS
<1>2. PICK all : all = Latest(InForce(None, old.day)) OBVIOUS
<1>3. /\ old.at = "noOwnRate" /\ r = old.next /\ UNCHANGED <<today, createdAt, payouts>>
      /\ \/ paying' = [paying EXCEPT ![p] = NotPaying]
         \/ \E rate \in all : paying' = [paying EXCEPT ![p] =
                [old EXCEPT !.at = "pricing", !.next = None, !.items[r] = rate.perKg]]
  BY <1>1, <1>2 DEF CreatePriceDefault
<1>4. CallOwed(old) /\ today \in Nat BY <1>1 DEF PayingInv
<1>5. old = [at |-> old.at, to |-> old.to, asked |-> old.asked, items |-> old.items, day |-> old.day,
             next |-> old.next]
  BY <1>4 DEF CallOwed
<1>6. CASE paying' = [paying EXCEPT ![p] = NotPaying] BY <1>3, <1>4, <1>6, IdleOwed, PayingMoves
<1>7. ASSUME NEW rate \in all,
             paying' = [paying EXCEPT ![p] =
                [old EXCEPT !.at = "pricing", !.next = None, !.items[r] = rate.perKg]]
      PROVE  PayingInv'
  <2>1. PICK c : c = [old EXCEPT !.at = "pricing", !.next = None, !.items[r] = rate.perKg] OBVIOUS
  <2>2. paying' = [paying EXCEPT ![p] = c] BY <1>7, <2>1
  <2>3. c = [at |-> "pricing", to |-> old.to, asked |-> old.asked,
             items |-> [old.items EXCEPT ![r] = rate.perKg], day |-> old.day, next |-> None]
    BY <1>5, <2>1
  <2>4. rate \in rates /\ rate.hub = None /\ rate.from <= old.day BY <1>2, <1>7 DEF Latest, InForce
  <2>5. ASSUME NEW other \in rates, createdAt[other] < old.day, Applies(other, r, old.day)
        PROVE  ~ Overrides(other, rate)
    <3>1. other.hub = None BY <1>3, <1>4, <2>5 DEF CallOwed
    <3>2. other \in InForce(None, old.day) BY <2>5, <3>1 DEF Applies, InForce
    <3>3. other.from <= rate.from BY <1>2, <1>7, <3>2 DEF Latest
    <3>4. other.from \in Int /\ rate.from \in Int BY <2>4, <2>5 DEF rates, PayoutAssumption, Days
    <3> QED BY <2>4, <3>1, <3>3, <3>4 DEF Overrides
  <2>6. rate.perKg \in Nat BY <2>4 DEF rates, PayoutAssumption
  <2>7. PriceStands(r, rate.perKg, old.day) BY <2>4, <2>5 DEF PriceStands, Applies
  <2>8. r \in old.asked BY <1>3, <1>4 DEF CallOwed
  <2> QED BY <1>1, <1>3, <2>2, <2>3, <2>6, <2>7, <2>8, PricedKeeps
<1> QED BY <1>3, <1>6, <1>7

LEMMA CreateCommitKeeps == ASSUME PayingInv, NEW p \in Procs, NEW i \in PayoutIds, CreateCommit(p, i) PROVE PayingInv'
<1>1. PICK old : old = paying[p] OBVIOUS
<1>2. PICK row : row = [to |-> old.to, items |-> old.items, amount |-> TotalOf(old.items),
                        made |-> old.day, status |-> "pending"]
  OBVIOUS
<1>3. /\ old.at = "pricing" /\ payouts' = [payouts EXCEPT ![i] = row]
      /\ paying' = [paying EXCEPT ![p] = NotPaying] /\ UNCHANGED <<today, createdAt>>
  BY <1>1, <1>2 DEF CreateCommit
<1>4. CallOwed(old) BY <1>1 DEF PayingInv
<1>5. RowOwed(row)
  <2>1. \A r \in Covered(old.items) : CollectorOf[r] = old.to /\ PriceStands(r, old.items[r], old.day)
    BY <1>3, <1>4 DEF CallOwed
  <2>2. old.day \in Nat /\ old.day <= today BY <1>4 DEF CallOwed
  <2> QED BY <1>2, <2>1, <2>2 DEF RowOwed, TotalOf
<1>6. \A j \in PayoutIds : payouts'[j] = row \/ payouts'[j] = payouts[j] BY <1>3 DEF PayingInv
<1>7. payouts' = [j \in PayoutIds |-> payouts'[j]] BY <1>3 DEF PayingInv
<1>8. \A j \in PayoutIds : payouts'[j] # None => RowOwed(payouts'[j]) BY <1>5, <1>6 DEF PayingInv
<1>9. ASSUME NEW q \in Procs PROVE CallOwed(paying'[q])
  <2>1. paying'[q] = NotPaying \/ paying'[q] = paying[q] BY <1>3 DEF PayingInv
  <2> QED BY <2>1, IdleOwed DEF PayingInv
<1>10. paying' = [q \in Procs |-> paying'[q]] BY <1>3 DEF PayingInv
<1> QED BY <1>3, <1>7, <1>8, <1>9, <1>10, SameRates, OwedKeeps

LEMMA PayoutPaidKeeps == ASSUME PayingInv, NEW i \in PayoutIds, MarkPayoutPaid(i) PROVE PayingInv'
<1>1. PICK old : old = payouts[i] OBVIOUS
<1>2. PICK row : row = [old EXCEPT !.status = PaidStatus] OBVIOUS
<1>3. old # None /\ payouts' = [payouts EXCEPT ![i] = row] /\ UNCHANGED <<today, createdAt, paying>>
  BY <1>1, <1>2 DEF MarkPayoutPaid
<1>4. RowOwed(old) BY <1>1, <1>3 DEF PayingInv
<1>5. row = [to |-> old.to, items |-> old.items, amount |-> old.amount, made |-> old.made,
             status |-> PaidStatus]
  BY <1>2, <1>4 DEF RowOwed
<1>6. RowOwed(row) BY <1>4, <1>5 DEF RowOwed
<1>7. \A j \in PayoutIds : payouts'[j] = row \/ payouts'[j] = payouts[j] BY <1>3 DEF PayingInv
<1>8. payouts' = [j \in PayoutIds |-> payouts'[j]] BY <1>3 DEF PayingInv
<1>9. \A j \in PayoutIds : payouts'[j] # None => RowOwed(payouts'[j]) BY <1>6, <1>7 DEF PayingInv
<1>10. paying' = [q \in Procs |-> paying'[q]] /\ \A q \in Procs : CallOwed(paying'[q])
  BY <1>3 DEF PayingInv
<1> QED BY <1>3, <1>8, <1>9, <1>10, SameRates, OwedKeeps

LEMMA PayingStep == ASSUME PayoutAssumption PROVE PayingInv /\ [PayNext]_payVars => PayingInv'
<1> SUFFICES ASSUME PayingInv, [PayNext]_payVars PROVE PayingInv' OBVIOUS
<1>1. CASE (\E r \in Reweighs : Record(r)) \/ UNCHANGED payVars
  <2>1. UNCHANGED <<today, createdAt, payouts, paying>> BY <1>1 DEF Record, payVars
  <2> QED BY <2>1, SameRates, TimeKeeps
<1>2. ASSUME NEW p \in Procs, PayCrash(p) PROVE PayingInv'
  <2>1. CallOwed(NotPaying) BY IdleOwed DEF PayingInv
  <2> QED BY <1>2, <2>1, PayingMoves DEF PayCrash
<1>3. CASE Tick BY <1>3, TickKeeps
<1>4. ASSUME NEW rate \in Rates, CreateRate(rate) PROVE PayingInv' BY <1>4, CreateRateKeeps
<1>5. ASSUME NEW i \in PayoutIds, MarkPayoutPaid(i) PROVE PayingInv' BY <1>5, PayoutPaidKeeps
<1>6. ASSUME NEW p \in Procs, CreateItemsRead(p) PROVE PayingInv' BY <1>6, CreateItemsReadKeeps
<1>7. ASSUME NEW p \in Procs, NEW to \in Collectors, NEW asked \in SUBSET Reweighs,
             CreateRead(p, to, asked)
      PROVE  PayingInv'
  BY <1>7, CreateReadKeeps
<1>8. ASSUME NEW p \in Procs, NEW r \in Reweighs, CreatePrice(p, r) PROVE PayingInv' BY <1>8, CreatePriceKeeps
<1>9. ASSUME NEW p \in Procs, NEW r \in Reweighs, CreatePriceDefault(p, r) PROVE PayingInv'
  BY <1>9, CreatePriceDefaultKeeps
<1>10. ASSUME NEW p \in Procs, NEW i \in PayoutIds, CreateCommit(p, i) PROVE PayingInv'
  BY <1>10, CreateCommitKeeps
<1> QED BY <1>1, <1>2, <1>3, <1>4, <1>5, <1>6, <1>7, <1>8, <1>9, <1>10 DEF PayNext

\* The invariant of payouts, in every reachable state.
THEOREM PayingInvHolds == ASSUME PayoutAssumption PROVE PaySpec => []PayingInv
BY PayingInit, PayingStep, PTL DEF PaySpec

-----------------------------------------------------------------------------
(* What follows                                                            *)

\* Whatever create() calls overlap or die, and whatever rates are made meanwhile: every item of
\* a payout is of the payee's own weigh-in, at a rate that applied to it on the day of the payout
\* and that none of those there were before that day overrides, and the payout is worth its items.
THEOREM PaidAsOwed == ASSUME PayoutAssumption PROVE PaySpec => []PayoutIsOwed
<1>1. PayingInv => PayoutIsOwed
  <2> SUFFICES ASSUME PayingInv, NEW i \in PayoutIds, payouts[i] # None
               PROVE  /\ payouts[i].amount = Sum(payouts[i].items)
                      /\ \A r \in Covered(payouts[i].items) :
                            /\ CollectorOf[r] = payouts[i].to
                            /\ PriceStands(r, payouts[i].items[r], payouts[i].made)
    BY DEF PayoutIsOwed
  <2>1. RowOwed(payouts[i]) BY DEF PayingInv
  <2> QED BY <2>1 DEF RowOwed
<1> QED BY <1>1, PayingInvHolds, PTL

-----------------------------------------------------------------------------
(***************************************************************************)
(* What holds as long as the calls of one part do not overlap              *)
(***************************************************************************)
\* Calls of one part never overlap.
OneAtATime(calls) == \A p, q \in Procs : calls[p].at # "idle" /\ calls[q].at # "idle" => p = q

LEMMA NotBusy == ASSUME NEW calls, ~ Busy(calls) PROVE OneAtATime(calls)
<1>1. PICK B : B = {p \in Procs : calls[p].at # "idle"} OBVIOUS
<1>2. IsFiniteSet(B) /\ Cardinality(B) \in Nat BY <1>1, ProcsAssumption, FS_Subset, FS_CardinalityType
<1>3. ~ Cardinality(B) > 1 BY <1>1 DEF Busy
<1>4. ASSUME NEW p \in B, NEW q \in B, p # q PROVE FALSE
  <2>1. IsFiniteSet({p}) /\ Cardinality({p}) = 1 BY FS_Singleton
  <2>2. Cardinality({p} \cup {q}) = Cardinality({p}) + 1 BY <1>4, <2>1, FS_AddElement
  <2>3. {p} \cup {q} \subseteq B BY <1>4
  <2>4. Cardinality({p} \cup {q}) =< Cardinality(B) BY <1>2, <2>3, FS_Subset
  <2> QED BY <1>2, <1>3, <2>1, <2>2, <2>4
<1> QED BY <1>1, <1>4 DEF OneAtATime

-----------------------------------------------------------------------------
(* Payouts, one call at a time                                             *)

\* What create() found in no payout is in none until it commits, and nothing is in two.
Pricing(c) == c.at \in {"pricing", "noOwnRate"}

PaidApart ==
    /\ \A p \in Procs : Pricing(paying[p]) => \A r \in paying[p].asked : Paying(r) = {}
    /\ \A r \in Reweighs : \A i, j \in Paying(r) : i = j

\* Nothing is inserted, and each call that prices did so before, or found everything free.
LEMMA NothingInserted ==
    ASSUME PaidApart, \A r : Paying(r)' \subseteq Paying(r),
           \A p \in Procs : Pricing(paying'[p]) =>
              \/ Pricing(paying[p]) /\ paying'[p].asked = paying[p].asked
              \/ \A r \in paying'[p].asked : Paying(r) = {}
    PROVE  PaidApart'
<1>1. ASSUME NEW p \in Procs, Pricing(paying'[p]), NEW r \in paying'[p].asked PROVE Paying(r)' = {}
  BY <1>1 DEF PaidApart
<1>2. ASSUME NEW r \in Reweighs, NEW i \in Paying(r)', NEW j \in Paying(r)' PROVE i = j BY <1>2 DEF PaidApart
<1> QED BY <1>1, <1>2 DEF PaidApart, Pricing

\* A lone call inserts a payout for re-weighs that are in none.
LEMMA InsertedApart ==
    ASSUME PayingInv, PaidApart, OneAtATime(paying), NEW p \in Procs, NEW i \in PayoutIds, CreateCommit(p, i)
    PROVE  PaidApart'
<1>1. PICK old : old = paying[p] OBVIOUS
<1>2. PICK row : row = [to |-> old.to, items |-> old.items, amount |-> TotalOf(old.items),
                        made |-> old.day, status |-> "pending"]
  OBVIOUS
<1>3. /\ old.at = "pricing" /\ payouts[i] = None /\ payouts' = [payouts EXCEPT ![i] = row]
      /\ paying' = [paying EXCEPT ![p] = NotPaying] /\ Covered(old.items) = old.asked
  BY <1>1, <1>2 DEF CreateCommit
<1>4. payouts'[i] = row /\ \A j \in PayoutIds \ {i} : payouts'[j] = payouts[j] BY <1>3 DEF PayingInv
<1>5. \A q \in Procs : paying'[q].at = "idle"
  <2>1. ASSUME NEW q \in Procs PROVE paying'[q] = NotPaying \/ (q # p /\ paying'[q] = paying[q])
    BY <1>3 DEF PayingInv
  <2>2. NotPaying.at = "idle" BY DEF NotPaying
  <2>3. \A q \in Procs : q # p => paying[q].at = "idle" BY <1>1, <1>3 DEF OneAtATime
  <2> QED BY <2>1, <2>2, <2>3
<1>6. \A r \in old.asked : Paying(r) = {} BY <1>1, <1>3 DEF PaidApart, Pricing
<1>7. row.items = old.items BY <1>2
<1>8. ASSUME NEW r \in Reweighs, NEW j \in Paying(r)', NEW k \in Paying(r)' PROVE j = k
  <2>1. ASSUME NEW l \in Paying(r)', l # i PROVE l \in Paying(r) BY <1>4, <2>1 DEF Paying
  <2>2. ASSUME i \in Paying(r)' PROVE Paying(r) = {}
    <3>1. r \in Covered(old.items) BY <1>4, <1>7, <2>2 DEF Paying
    <3> QED BY <1>3, <1>6, <3>1
  <2> QED BY <1>8, <2>1, <2>2 DEF PaidApart
<1> QED BY <1>5, <1>8 DEF PaidApart, Pricing

LEMMA LonePayment ==
    ASSUME PayingInv, PaidApart, OneAtATime(paying), [PayNext]_payVars
    PROVE  PaidApart'
<1>1. CASE Tick \/ (\E r \in Reweighs : Record(r)) \/ (\E rate \in Rates : CreateRate(rate)) \/ UNCHANGED payVars
  <2>1. paying' = paying /\ payouts' = payouts BY <1>1 DEF Tick, Record, CreateRate, payVars
  <2>2. \A r : Paying(r)' = Paying(r) BY <2>1 DEF Paying
  <2> QED BY <2>1, <2>2, NothingInserted
<1>2. ASSUME NEW i \in PayoutIds, MarkPayoutPaid(i) PROVE PaidApart'
  <2>1. PICK old : old = payouts[i] OBVIOUS
  <2>2. PICK row : row = [old EXCEPT !.status = PaidStatus] OBVIOUS
  <2>3. old # None /\ payouts' = [payouts EXCEPT ![i] = row] /\ paying' = paying
    BY <1>2, <2>1, <2>2 DEF MarkPayoutPaid
  <2>4. RowOwed(old) BY <2>1, <2>3 DEF PayingInv
  <2>5. row.items = old.items BY <2>2, <2>4 DEF RowOwed
  <2>6. payouts'[i] = row /\ \A j \in PayoutIds \ {i} : payouts'[j] = payouts[j] BY <2>3 DEF PayingInv
  <2>7. ASSUME NEW r, NEW j \in Paying(r)' PROVE j \in Paying(r)
    <3>1. j \in PayoutIds /\ r \in Covered(payouts'[j].items) /\ payouts'[j] # None BY <2>7 DEF Paying
    <3>2. CASE j = i BY <2>1, <2>3, <2>5, <2>6, <3>1, <3>2 DEF Paying
    <3>3. CASE j # i BY <2>6, <3>1, <3>3 DEF Paying
    <3> QED BY <3>2, <3>3
  <2> QED BY <2>3, <2>7, NothingInserted
<1>3. ASSUME NEW p \in Procs, NEW c, paying' = [paying EXCEPT ![p] = c], UNCHANGED payouts,
             Pricing(c) =>
                \/ Pricing(paying[p]) /\ c.asked = paying[p].asked
                \/ \A r \in c.asked : Paying(r) = {}
      PROVE  PaidApart'
  <2>1. paying'[p] = c /\ \A q \in Procs \ {p} : paying'[q] = paying[q] BY <1>3 DEF PayingInv
  <2>2. \A r : Paying(r)' \subseteq Paying(r) BY <1>3 DEF Paying
  <2> QED BY <1>3, <2>1, <2>2, NothingInserted
<1>4. ~ Pricing(NotPaying) BY DEF NotPaying, Pricing
<1>5. ASSUME NEW p \in Procs, CreateItemsRead(p) PROVE PaidApart'
  <2>1. PICK old : old = paying[p] OBVIOUS
  <2>2. PICK c : c = IF Unattached(old.asked) THEN [old EXCEPT !.at = "pricing", !.day = today] ELSE NotPaying
    OBVIOUS
  <2>3. paying' = [paying EXCEPT ![p] = c] /\ UNCHANGED payouts BY <1>5, <2>1, <2>2 DEF CreateItemsRead
  <2>4. old = [at |-> old.at, to |-> old.to, asked |-> old.asked, items |-> old.items, day |-> old.day,
               next |-> old.next]
    BY <2>1 DEF PayingInv, CallOwed
  <2>5. Pricing(c) => \A r \in c.asked : Paying(r) = {} BY <1>4, <2>2, <2>4 DEF Unattached
  <2> QED BY <1>3, <2>3, <2>5
<1>6. ASSUME NEW p \in Procs, PayCrash(p) PROVE PaidApart'
  BY <1>3, <1>4, <1>6 DEF PayCrash
<1>7. ASSUME NEW p \in Procs, NEW to \in Collectors, NEW asked \in SUBSET Reweighs, CreateRead(p, to, asked)
      PROVE  PaidApart'
  <2>1. PICK c : c = [NotPaying EXCEPT !.at = "reweighsRead", !.to = to, !.asked = asked] OBVIOUS
  <2>2. paying' = [paying EXCEPT ![p] = c] /\ UNCHANGED payouts BY <1>7, <2>1 DEF CreateRead
  <2>3. ~ Pricing(c) BY <2>1 DEF NotPaying, Pricing
  <2> QED BY <1>3, <2>2, <2>3
<1>8. ASSUME NEW p \in Procs, NEW r \in Reweighs, CreatePrice(p, r) \/ CreatePriceDefault(p, r)
      PROVE  PaidApart'
  <2>1. PICK old : old = paying[p] OBVIOUS
  <2>2. /\ old = [at |-> old.at, to |-> old.to, asked |-> old.asked, items |-> old.items, day |-> old.day,
                  next |-> old.next]
        /\ paying = [q \in Procs |-> paying[q]]
    BY <2>1 DEF PayingInv, CallOwed
  <2>3. Pricing(old) /\ UNCHANGED payouts BY <1>8, <2>1 DEF CreatePrice, CreatePriceDefault, Pricing
  <2>4. CASE paying' = [paying EXCEPT ![p] = NotPaying] BY <1>3, <1>4, <2>3, <2>4
  <2>5. ASSUME NEW c, c.asked = old.asked, paying' = [paying EXCEPT ![p] = c] PROVE PaidApart'
    BY <1>3, <2>1, <2>3, <2>5
  <2>6. CASE paying' = [paying EXCEPT ![p] = [old EXCEPT !.at = "noOwnRate", !.next = r]]
    <3>1. PICK c : c = [old EXCEPT !.at = "noOwnRate", !.next = r] OBVIOUS
    <3>2. paying' = [paying EXCEPT ![p] = c] /\ c.asked = old.asked BY <2>1, <2>2, <2>6, <3>1
    <3> QED BY <2>5, <3>2
  <2>7. ASSUME NEW perKg, paying' = [paying EXCEPT ![p] = [old EXCEPT !.items[r] = perKg]] PROVE PaidApart'
    <3>1. PICK c : c = [old EXCEPT !.items[r] = perKg] OBVIOUS
    <3>2. paying' = [paying EXCEPT ![p] = c] /\ c.asked = old.asked BY <2>1, <2>2, <2>7, <3>1
    <3> QED BY <2>5, <3>2
  <2>8. ASSUME NEW perKg,
               paying' = [paying EXCEPT ![p] =
                [old EXCEPT !.at = "pricing", !.next = None, !.items[r] = perKg]]
        PROVE  PaidApart'
    <3>1. PICK c : c = [old EXCEPT !.at = "pricing", !.next = None, !.items[r] = perKg] OBVIOUS
    <3>2. paying' = [paying EXCEPT ![p] = c] /\ c.asked = old.asked BY <2>1, <2>2, <2>8, <3>1
    <3> QED BY <2>5, <3>2
  <2> QED BY <1>8, <2>1, <2>4, <2>6, <2>7, <2>8 DEF CreatePrice, CreatePriceDefault
<1>9. ASSUME NEW p \in Procs, NEW i \in PayoutIds, CreateCommit(p, i) PROVE PaidApart'
  BY <1>9, InsertedApart
<1> QED BY <1>1, <1>2, <1>5, <1>6, <1>7, <1>8, <1>9 DEF PayNext

-----------------------------------------------------------------------------
(* Withdrawals while calls do not overlap                                  *)

\* What a withdrawal has taken of q's credits for good, and what it holds of them.
PaidClaim(q, w) ==
    IF withdrawals[w] # None /\ withdrawals[w].who = q /\ withdrawals[w].status = "paid"
      THEN withdrawals[w].amount ELSE 0

HeldClaim(q, w) ==
    IF withdrawals[w] # None /\ withdrawals[w].who = q /\ withdrawals[w].status = "pending"
      THEN withdrawals[w].amount ELSE 0

PaidClaims(q) == [w \in Withdrawals |-> PaidClaim(q, w)]
Claims(q) == [w \in Withdrawals |-> PaidClaim(q, w) + HeldClaim(q, w)]
Claimed(q) == SumFunctionOnSet(Claims(q), Withdrawals)

NothingRedeemed == \A d \in Redemptions : redemptions[d] = None

LedgerOK == earned \in [Requesters -> Nat] /\ corrected \in [Requesters -> Nat]

\* While calls do not overlap: what request() has read stands, and what it was allowed
\* is there.
Within ==
    /\ \A p \in Procs, q \in Requesters :
          /\ (spending[p].at = "balanceRead" /\ spending[p].who = q) => spending[p].seen = Balance(q)
          /\ (spending[p].at = "allowed" /\ spending[p].who = q) => spending[p].amount + Claimed(q) <= earned[q]
    /\ \A q \in Requesters : Claimed(q) <= earned[q]

LEMMA AmountsAreWhole ==
    ASSUME SpendAssumption, SpendingInv, NEW w \in Withdrawals, withdrawals[w] # None
    PROVE  withdrawals[w].amount \in Nat
BY DEF SpendingInv, Rows, Withdrawal, SpendAssumption

\* The sums of the model are sums over all withdrawals.
LEMMA ClaimsType ==
    ASSUME SpendAssumption, SpendingInv, NEW q, NEW w \in Withdrawals
    PROVE  /\ PaidClaim(q, w) \in Nat /\ HeldClaim(q, w) \in Nat
           /\ Claims(q)[w] \in Nat /\ Claims(q)[w] = PaidClaim(q, w) + HeldClaim(q, w)
<1>1. withdrawals[w] # None => withdrawals[w].amount \in Nat BY AmountsAreWhole
<1> QED BY <1>1 DEF PaidClaim, HeldClaim, Claims

LEMMA SpentIsPaid ==
    ASSUME SpendAssumption, SpendingInv, NothingRedeemed, NEW q
    PROVE  Spent(q) = SumFunctionOnSet(PaidClaims(q), Withdrawals) /\ Spent(q) \in Int
<1>1. PICK T : T = WithdrawalsOf(q) OBVIOUS
<1>2. PICK f : f = [w \in T |-> debits[w] * withdrawals[w].amount] OBVIOUS
<1>3. T \in SUBSET Withdrawals BY <1>1 DEF WithdrawalsOf
<1>4. ASSUME NEW w \in T PROVE f[w] \in Int /\ PaidClaims(q)[w] = f[w]
  <2>1. w \in Withdrawals /\ withdrawals[w] # None /\ withdrawals[w].who = q BY <1>1 DEF WithdrawalsOf
  <2>2. withdrawals[w].amount \in Int BY <2>1, AmountsAreWhole
  <2>3. f[w] = debits[w] * withdrawals[w].amount BY <1>2
  <2>4. PaidClaims(q)[w] = IF withdrawals[w].status = "paid" THEN withdrawals[w].amount ELSE 0
    BY <2>1 DEF PaidClaims, PaidClaim
  <2>5. debits[w] = IF withdrawals[w].status = "paid" THEN 1 ELSE 0
    BY <2>1 DEF SpendingInv, DebitedOnce
  <2>6. CASE withdrawals[w].status = "paid"
    <3>1. debits[w] = 1 /\ PaidClaims(q)[w] = withdrawals[w].amount BY <2>4, <2>5, <2>6
    <3>2. 1 * withdrawals[w].amount = withdrawals[w].amount BY <2>2
    <3> QED BY <2>2, <2>3, <3>1, <3>2
  <2>7. CASE withdrawals[w].status # "paid"
    <3>1. debits[w] = 0 /\ PaidClaims(q)[w] = 0 BY <2>4, <2>5, <2>7
    <3>2. 0 * withdrawals[w].amount = 0 BY <2>2
    <3> QED BY <2>3, <3>1, <3>2
  <2> QED BY <2>6, <2>7
<1>5. \A w \in Withdrawals \ T : PaidClaims(q)[w] = 0 BY <1>1 DEF WithdrawalsOf, PaidClaims, PaidClaim
<1>6. IsFiniteSet(Withdrawals) BY DEF SpendAssumption
<1>7. SumFunctionOnSet(PaidClaims(q), Withdrawals) = SumFunctionOnSet(f, T) BY <1>3, <1>4, <1>5, <1>6, SumExtends
<1>8. SumFunctionOnSet(f, T) \in Int
  <2>1. IsFiniteSet(T) BY <1>3, <1>6, FS_Subset
  <2> QED BY <1>4, <2>1, SumType
<1>9. OfRedemptions(q) = {} BY DEF OfRedemptions, NothingRedeemed
<1>10. SumFunction([d \in OfRedemptions(q) |-> debits[d] * redemptions[d].cost]) = 0
  <2>1. DOMAIN [d \in OfRedemptions(q) |-> debits[d] * redemptions[d].cost] = {} BY <1>9
  <2> QED BY <2>1, SumOfNothing DEF SumFunction
<1>11. SumFunction([w \in WithdrawalsOf(q) |-> debits[w] * withdrawals[w].amount]) = SumFunctionOnSet(f, T)
  <2>1. DOMAIN f = T BY <1>2
  <2> QED BY <1>1, <1>2, <2>1 DEF SumFunction
<1>12. Spent(q) = SumFunctionOnSet(f, T) + 0 BY <1>10, <1>11 DEF Spent
<1> QED BY <1>7, <1>8, <1>12

LEMMA HeldIsHeld ==
    ASSUME SpendAssumption, SpendingInv, NEW q
    PROVE  /\ Held(q) = SumFunctionOnSet([w \in Withdrawals |-> HeldClaim(q, w)], Withdrawals)
           /\ Held(q) \in Int
<1>1. PICK T : T = OfWithdrawals(q, "pending") OBVIOUS
<1>2. PICK f : f = [w \in T |-> withdrawals[w].amount] OBVIOUS
<1>3. PICK g : g = [w \in Withdrawals |-> HeldClaim(q, w)] OBVIOUS
<1>4. T \in SUBSET Withdrawals BY <1>1 DEF OfWithdrawals, WithdrawalsOf
<1>5. ASSUME NEW w \in T PROVE f[w] \in Int /\ g[w] = f[w]
  <2>1. /\ w \in Withdrawals /\ withdrawals[w] # None /\ withdrawals[w].who = q
        /\ withdrawals[w].status = "pending"
    BY <1>1 DEF OfWithdrawals, WithdrawalsOf
  <2>2. withdrawals[w].amount \in Int BY <2>1, AmountsAreWhole
  <2> QED BY <1>2, <1>3, <2>1, <2>2 DEF HeldClaim
<1>6. \A w \in Withdrawals \ T : g[w] = 0 BY <1>1, <1>3 DEF OfWithdrawals, WithdrawalsOf, HeldClaim
<1>7. IsFiniteSet(Withdrawals) BY DEF SpendAssumption
<1>8. SumFunctionOnSet(g, Withdrawals) = SumFunctionOnSet(f, T) BY <1>4, <1>5, <1>6, <1>7, SumExtends
<1>9. SumFunctionOnSet(f, T) \in Int
  <2>1. IsFiniteSet(T) BY <1>4, <1>7, FS_Subset
  <2> QED BY <1>5, <2>1, SumType
<1>10. Held(q) = SumFunctionOnSet(f, T)
  <2>1. DOMAIN f = T BY <1>2
  <2> QED BY <1>1, <1>2, <2>1 DEF SumFunction, Held
<1> QED BY <1>3, <1>8, <1>9, <1>10

LEMMA ClaimedIsSpentAndHeld ==
    ASSUME SpendAssumption, SpendingInv, NothingRedeemed, NEW q
    PROVE  Claimed(q) = Spent(q) + Held(q) /\ Claimed(q) \in Int /\ Spent(q) \in Nat
<1>1. PICK f : f = PaidClaims(q) OBVIOUS
<1>2. PICK g : g = [w \in Withdrawals |-> HeldClaim(q, w)] OBVIOUS
<1>3. PICK h : h = Claims(q) OBVIOUS
<1>4. \A w \in Withdrawals : f[w] \in Nat /\ g[w] \in Nat /\ h[w] = f[w] + g[w]
  BY <1>1, <1>2, <1>3, ClaimsType DEF PaidClaims
<1>5. IsFiniteSet(Withdrawals) BY DEF SpendAssumption
<1>6. SumFunctionOnSet(h, Withdrawals) = SumFunctionOnSet(f, Withdrawals) + SumFunctionOnSet(g, Withdrawals)
  <2>1. \A w \in Withdrawals : f[w] \in Int /\ g[w] \in Int /\ h[w] = f[w] + g[w] BY <1>4
  <2> QED BY <1>5, <2>1, SumOfSums
<1>7. SumFunctionOnSet(f, Withdrawals) \in Nat BY <1>4, <1>5, SumOfNaturals
<1>8. Spent(q) = SumFunctionOnSet(f, Withdrawals) BY <1>1, SpentIsPaid
<1>9. Held(q) = SumFunctionOnSet(g, Withdrawals) /\ Held(q) \in Int BY <1>2, HeldIsHeld
<1> QED BY <1>3, <1>6, <1>7, <1>8, <1>9 DEF Claimed

\* A call of p is the only one under way.
OnlyCall(p) == \A r \in Procs \ {p} : spending[r].at = "idle"

LEMMA NobodyElse ==
    ASSUME SpendingInv, ~ Interrupted, NEW p \in Procs, NEW c, spending' = [spending EXCEPT ![p] = c]
    PROVE  /\ OnlyCall(p) /\ spending'[p] = c
           /\ \A r \in Procs \ {p} : spending'[r] = spending[r] /\ spending'[r].at = "idle"
BY DEF SpendingInv, Calls, Interrupted, OnlyCall

LEMMA NobodyAtAll ==
    ASSUME ~ Interrupted, spending' = spending
    PROVE  \A r \in Procs : spending'[r].at = "idle"
BY DEF Interrupted

LEMMA ClaimedSame ==
    ASSUME withdrawals' = withdrawals, NEW q PROVE Claimed(q)' = Claimed(q)
BY DEF Claimed, Claims, PaidClaim, HeldClaim

\* A step that writes no withdrawal, while no call is under way after it.
LEMMA QuietWithin ==
    ASSUME Within, withdrawals' = withdrawals, \A q \in Requesters : earned[q] \in Nat,
           \A q \in Requesters : earned'[q] \in Nat /\ earned[q] <= earned'[q],
           \A q \in Requesters : Claimed(q) \in Int,
           \A r \in Procs : spending'[r].at \notin {"balanceRead", "allowed"}
    PROVE  Within'
<1>1. ASSUME NEW q \in Requesters PROVE Claimed(q)' <= earned'[q]
  <2>1. Claimed(q)' = Claimed(q) /\ Claimed(q) <= earned[q] BY ClaimedSame DEF Within
  <2>2. earned[q] \in Nat /\ earned'[q] \in Nat /\ earned[q] <= earned'[q] /\ Claimed(q) \in Int OBVIOUS
  <2> QED BY <2>1, <2>2
<1> QED BY <1>1 DEF Within

LEMMA EarnWithin ==
    ASSUME SpendAssumption, SpendingInv, LedgerOK, NothingRedeemed, Within, ~ Interrupted,
           NEW q \in Requesters, Earn(q) \/ Correct(q)
    PROVE  Within'
<1>1. withdrawals' = withdrawals /\ spending' = spending BY DEF Earn, Correct
<1>2. \A r \in Requesters : earned'[r] \in Nat /\ earned[r] \in Nat /\ earned[r] <= earned'[r]
  BY DEF Earn, Correct, LedgerOK
<1>3. \A r \in Requesters : Claimed(r) \in Int BY ClaimedIsSpentAndHeld
<1>4. \A r \in Procs : spending'[r].at \notin {"balanceRead", "allowed"} BY <1>1, NobodyAtAll
<1> QED BY <1>1, <1>2, <1>3, <1>4, QuietWithin

\* A pending withdrawal is paid or rejected: nobody claims more.
LEMMA DecideWithin ==
    ASSUME SpendAssumption, SpendingInv, SpendingInv', LedgerOK, NothingRedeemed, Within, ~ Interrupted,
           NEW p \in Procs, NEW w \in Withdrawals, MarkPaid(p, w) \/ Reject(p, w)
    PROVE  Within'
<1>1. PICK row : row \in {[withdrawals[w] EXCEPT !.status = "paid"], [withdrawals[w] EXCEPT !.status = "rejected"]}
                 /\ withdrawals' = [withdrawals EXCEPT ![w] = row]
  BY DEF MarkPaid, Reject
<1>2. /\ withdrawals[w] # None /\ withdrawals[w].status = "pending"
      /\ earned' = earned /\ spending' = spending
  BY DEF MarkPaid, Reject, Pending
<1>3. /\ withdrawals[w] \in Withdrawal
      /\ withdrawals'[w] = row /\ \A x \in Withdrawals \ {w} : withdrawals'[x] = withdrawals[x]
  BY <1>1, <1>2 DEF SpendingInv, Rows
<1>4. row.who = withdrawals[w].who /\ row.amount = withdrawals[w].amount /\ row.status \in {"paid", "rejected"}
  BY <1>1, <1>3 DEF Withdrawal
<1>5. \A r \in Procs : spending'[r].at = "idle" BY <1>2, NobodyAtAll
<1>6. ASSUME NEW q \in Requesters PROVE Claimed(q)' <= earned'[q]
  <2>1. PICK f : f = Claims(q) OBVIOUS
  <2>2. PICK g : g = Claims(q)' OBVIOUS
  <2>3. ASSUME NEW x \in Withdrawals PROVE g[x] \in Int /\ f[x] \in Int /\ g[x] <= f[x]
    <3>1. f[x] = PaidClaim(q, x) + HeldClaim(q, x) /\ f[x] \in Nat BY <2>1, ClaimsType
    <3>2. g[x] = PaidClaim(q, x)' + HeldClaim(q, x)' BY <2>2 DEF Claims
    <3>3. CASE x # w
      <4>1. PaidClaim(q, x)' = PaidClaim(q, x) /\ HeldClaim(q, x)' = HeldClaim(q, x)
        BY <1>3, <3>3 DEF PaidClaim, HeldClaim
      <4> QED BY <3>1, <3>2, <4>1
    <3>4. CASE x = w
      <4>1. withdrawals[w].amount \in Nat BY <1>2, AmountsAreWhole
      <4>2. PaidClaim(q, w) = 0 /\ HeldClaim(q, w) = IF withdrawals[w].who = q THEN withdrawals[w].amount ELSE 0
        BY <1>2 DEF PaidClaim, HeldClaim
      <4>3. HeldClaim(q, w)' = 0 /\ PaidClaim(q, w)' \in {0, IF withdrawals[w].who = q THEN withdrawals[w].amount ELSE 0}
        BY <1>3, <1>4 DEF PaidClaim, HeldClaim
      <4> HIDE DEF SpendingInv
      <4>4. f[w] = IF withdrawals[w].who = q THEN withdrawals[w].amount ELSE 0 BY <3>1, <3>4, <4>1, <4>2
      <4>5. g[w] \in {0, IF withdrawals[w].who = q THEN withdrawals[w].amount ELSE 0} BY <3>2, <3>4, <4>1, <4>3
      <4> QED BY <3>4, <4>1, <4>4, <4>5
    <3> QED BY <3>3, <3>4
  <2>4. SumFunctionOnSet(g, Withdrawals) <= SumFunctionOnSet(f, Withdrawals)
    <3>1. IsFiniteSet(Withdrawals) BY DEF SpendAssumption
    <3> QED BY <2>3, <3>1, SumGrows
  <2>5. SumFunctionOnSet(g, Withdrawals) \in Int /\ SumFunctionOnSet(f, Withdrawals) \in Int
    <3>1. IsFiniteSet(Withdrawals) BY DEF SpendAssumption
    <3> QED BY <2>3, <3>1, SumType
  <2>6. Claimed(q)' = SumFunctionOnSet(g, Withdrawals) /\ Claimed(q) = SumFunctionOnSet(f, Withdrawals)
    BY <2>1, <2>2 DEF Claimed
  <2>7. Claimed(q) <= earned[q] /\ earned[q] \in Nat BY DEF Within, LedgerOK
  <2> QED BY <1>2, <2>4, <2>5, <2>6, <2>7
<1> QED BY <1>5, <1>6 DEF Within

LEMMA RequestWithin ==
    ASSUME SpendAssumption, SpendingInv, LedgerOK, NothingRedeemed, Within, ~ Interrupted,
           NEW p \in Procs, NEW q \in Requesters, NEW n \in Amounts, RequestBalance(p, q, n)
    PROVE  Within'
<1>1. PICK c : c = [NotSpending EXCEPT !.at = "balanceRead", !.who = q, !.amount = n, !.seen = Balance(q)]
  OBVIOUS
<1>2. /\ spending' = [spending EXCEPT ![p] = c]
      /\ UNCHANGED <<earned, corrected, withdrawals, redemptions, stock, debits>>
  BY <1>1 DEF RequestBalance
<1>3. c.at = "balanceRead" /\ c.who = q /\ c.seen = Balance(q) BY <1>1 DEF NotSpending
<1>4. spending'[p] = c /\ \A r \in Procs \ {p} : spending'[r].at = "idle" BY <1>2, NobodyElse
<1>5. \A r \in Requesters : Claimed(r)' = Claimed(r) BY <1>2, ClaimedSame
<1>6. Balance(q)' = Balance(q) BY <1>2 DEF Balance, Spent, WithdrawalsOf, OfRedemptions
<1> QED BY <1>2, <1>3, <1>4, <1>5, <1>6 DEF Within

LEMMA PendingWithin ==
    ASSUME SpendAssumption, SpendingInv, LedgerOK, NothingRedeemed, Within, ~ Interrupted,
           NEW p \in Procs, RequestPending(p)
    PROVE  Within'
<1>1. PICK c : c = IF spending[p].amount <= Available(spending[p].seen, spending[p].who)
                      THEN [spending[p] EXCEPT !.at = "allowed"] ELSE NotSpending
  OBVIOUS
<1>2. /\ spending' = [spending EXCEPT ![p] = c] /\ spending[p].at = "balanceRead"
      /\ UNCHANGED <<earned, corrected, withdrawals, redemptions, stock, debits>>
  BY <1>1 DEF RequestPending
<1>3. spending'[p] = c /\ \A r \in Procs \ {p} : spending'[r].at = "idle" BY <1>2, NobodyElse
<1>4. \A r \in Requesters : Claimed(r)' = Claimed(r) BY <1>2, ClaimedSame
<1>5. PICK q : q = spending[p].who OBVIOUS
<1>6. /\ q \in Requesters /\ spending[p].amount \in Nat
  BY <1>2, <1>5 DEF SpendingInv, Calls, CallOK, SpendAssumption
<1>7. ASSUME c.at = "allowed" PROVE c.who = q /\ c.amount + Claimed(q) <= earned[q]
  <2>1. spending[p].amount <= Available(spending[p].seen, spending[p].who)
    BY <1>1, <1>7, IdleOK
  <2>2. c = [spending[p] EXCEPT !.at = "allowed"] BY <1>1, <2>1
  <2>3. CallOK(spending[p]) BY DEF SpendingInv, Calls
  <2>4. c.who = q /\ c.amount = spending[p].amount BY <1>5, <2>2, <2>3 DEF CallOK
  <2>5. spending[p].seen = earned[q] - corrected[q] - Spent(q)
    BY <1>2, <1>5, <1>6 DEF Within, Balance
  <2>6. spending[p].amount <= (earned[q] - corrected[q] - Spent(q)) - Held(q)
    BY <1>5, <2>1, <2>5 DEF Available
  <2>7. Claimed(q) = Spent(q) + Held(q) /\ Spent(q) \in Nat BY ClaimedIsSpentAndHeld
  <2>8. Held(q) \in Int BY HeldIsHeld
  <2>9. earned[q] \in Nat /\ corrected[q] \in Nat BY <1>6 DEF LedgerOK
  <2>10. spending[p].amount + Claimed(q) <= earned[q] BY <1>6, <2>6, <2>7, <2>8, <2>9
  <2> QED BY <2>4, <2>10
<1>8. c.at # "balanceRead"
  <2>1. spending[p] = [at |-> spending[p].at, who |-> spending[p].who, amount |-> spending[p].amount,
                       seen |-> spending[p].seen, item |-> spending[p].item]
    BY DEF SpendingInv, Calls, CallOK
  <2> QED BY <1>1, <2>1, IdleOK
<1> QED BY <1>2, <1>3, <1>4, <1>7, <1>8 DEF Within

\* A call that ends, or is of redeem().
LEMMA ElseWithin ==
    ASSUME SpendAssumption, SpendingInv, LedgerOK, NothingRedeemed, Within, ~ Interrupted,
           NEW p \in Procs, SpendCrash(p) \/ \E q \in Requesters, i \in Items : RedeemRead(p, q, i)
    PROVE  Within'
<1>1. PICK c : spending' = [spending EXCEPT ![p] = c] /\ c.at \in {"idle", "redeeming"}
  <2>1. CASE SpendCrash(p) BY <2>1, IdleOK DEF SpendCrash
  <2>2. ASSUME NEW q \in Requesters, NEW i \in Items, RedeemRead(p, q, i)
        PROVE  \E c : spending' = [spending EXCEPT ![p] = c] /\ c.at \in {"idle", "redeeming"}
    <3>1. PICK c : c = [NotSpending EXCEPT !.at = "redeeming", !.who = q, !.item = i, !.seen = stock[i]] OBVIOUS
    <3>2. spending' = [spending EXCEPT ![p] = c] BY <2>2, <3>1 DEF RedeemRead
    <3>3. c.at = "redeeming" BY <3>1 DEF NotSpending
    <3> QED BY <3>2, <3>3
  <2> QED BY <2>1, <2>2
<1>2. earned' = earned /\ withdrawals' = withdrawals BY DEF SpendCrash, RedeemRead
<1>3. \A r \in Procs : spending'[r].at \notin {"balanceRead", "allowed"} BY <1>1, NobodyElse
<1>4. \A q \in Requesters : Claimed(q) \in Int BY ClaimedIsSpentAndHeld
<1>5. \A q \in Requesters : earned[q] \in Nat /\ earned'[q] \in Nat /\ earned[q] <= earned'[q]
  BY <1>2 DEF LedgerOK
<1> QED BY <1>2, <1>3, <1>4, <1>5, QuietWithin

LEMMA CommitWithin ==
    ASSUME SpendAssumption, SpendingInv, SpendingInv', LedgerOK, NothingRedeemed, Within, ~ Interrupted,
           NEW p \in Procs, NEW w \in Withdrawals, RequestCommit(p, w)
    PROVE  Within'
<1>1. PICK row : row = [who |-> spending[p].who, amount |-> spending[p].amount, status |-> "pending"] OBVIOUS
<1>2. /\ spending[p].at = "allowed" /\ withdrawals[w] = None /\ earned' = earned
      /\ withdrawals' = [withdrawals EXCEPT ![w] = row]
      /\ spending' = [spending EXCEPT ![p] = NotSpending]
  BY <1>1 DEF RequestCommit
<1>3. \A r \in Procs : spending'[r].at = "idle" BY <1>2, IdleOK, NobodyElse
<1>4. PICK own : own = spending[p].who OBVIOUS
<1>5. own \in Requesters /\ spending[p].amount \in Nat
  BY <1>2, <1>4 DEF SpendingInv, Calls, CallOK, SpendAssumption
<1>6. row.who = own /\ row.amount = spending[p].amount /\ row.status = "pending" /\ row # None
  <2>1. row \in Withdrawal BY <1>1, <1>2, <1>4, <1>5 DEF Withdrawal, SpendingInv, Calls, CallOK
  <2> QED BY <1>1, <1>4, <2>1 DEF SpendAssumption
<1>7. withdrawals'[w] = row /\ \A x \in Withdrawals \ {w} : withdrawals'[x] = withdrawals[x]
  BY <1>2 DEF SpendingInv, Rows
<1>8. ASSUME NEW q \in Requesters PROVE Claimed(q)' <= earned'[q]
  <2>1. PICK f : f = Claims(q) OBVIOUS
  <2>2. PICK g : g = Claims(q)' OBVIOUS
  <2>3. ASSUME NEW x \in Withdrawals
        PROVE  /\ f[x] \in Int /\ g[x] \in Int /\ (x # w => g[x] = f[x])
               /\ x = w => f[x] = 0 /\ g[x] = IF own = q THEN spending[p].amount ELSE 0
    <3>1. f[x] = PaidClaim(q, x) + HeldClaim(q, x) /\ f[x] \in Nat BY <2>1, ClaimsType
    <3>2. g[x] = PaidClaim(q, x)' + HeldClaim(q, x)' BY <2>2 DEF Claims
    <3>3. CASE x # w
      <4>1. PaidClaim(q, x)' = PaidClaim(q, x) /\ HeldClaim(q, x)' = HeldClaim(q, x)
        BY <1>7, <3>3 DEF PaidClaim, HeldClaim
      <4> QED BY <3>1, <3>2, <3>3, <4>1
    <3>4. CASE x = w
      <4>1. PaidClaim(q, w) = 0 /\ HeldClaim(q, w) = 0 BY <1>2 DEF PaidClaim, HeldClaim
      <4>2. /\ PaidClaim(q, w)' = 0
            /\ HeldClaim(q, w)' = IF own = q THEN spending[p].amount ELSE 0
        BY <1>6, <1>7 DEF PaidClaim, HeldClaim
      <4>3. f[x] = 0 BY <3>1, <3>4, <4>1
      <4>4. g[x] = IF own = q THEN spending[p].amount ELSE 0 BY <1>5, <3>2, <3>4, <4>2
      <4> QED BY <1>5, <3>4, <4>3, <4>4
    <3> QED BY <3>3, <3>4
  <2>4. IsFiniteSet(Withdrawals) BY DEF SpendAssumption
  <2>5. SumFunctionOnSet(g, Withdrawals) = SumFunctionOnSet(f, Withdrawals) + (g[w] - f[w])
    <3>1. \A y \in Withdrawals : f[y] \in Int /\ g[y] \in Int BY <2>3
    <3>2. \A y \in Withdrawals \ {w} : g[y] = f[y] BY <2>3
    <3> QED BY <2>4, <3>1, <3>2, SumChanges
  <2>6. SumFunctionOnSet(f, Withdrawals) \in Int BY <2>3, <2>4, SumType
  <2>7. Claimed(q)' = SumFunctionOnSet(g, Withdrawals) /\ Claimed(q) = SumFunctionOnSet(f, Withdrawals)
    BY <2>1, <2>2 DEF Claimed
  <2>8. Claimed(q) <= earned[q] /\ earned[q] \in Nat BY DEF Within, LedgerOK
  <2>9. f[w] = 0 /\ g[w] = IF own = q THEN spending[p].amount ELSE 0 BY <2>3
  <2>10. own = q => spending[p].amount + Claimed(q) <= earned[q] BY <1>2, <1>4 DEF Within
  <2>11. CASE own = q
    <3>1. Claimed(q)' = Claimed(q) + (spending[p].amount - 0) BY <2>5, <2>7, <2>9, <2>11
    <3> QED BY <1>2, <1>5, <2>6, <2>7, <2>8, <2>10, <2>11, <3>1
  <2>12. CASE own # q
    <3>1. Claimed(q)' = Claimed(q) + (0 - 0) BY <2>5, <2>7, <2>9, <2>12
    <3> QED BY <1>2, <2>6, <2>7, <2>8, <3>1
  <2> QED BY <2>11, <2>12
<1> QED BY <1>3, <1>8 DEF Within

LEMMA NeverRedeemed ==
    ASSUME SpendAssumption, SpendingInv, [SpendNext]_spendVars, NothingRedeemed'
    PROVE  NothingRedeemed
<1>1. CASE redemptions' = redemptions BY <1>1 DEF NothingRedeemed
<1>2. CASE redemptions' # redemptions
  <2>1. PICK d \in Redemptions, p \in Procs : RedeemCommit(p, d) \/ Fulfill(p, d)
    BY <1>2 DEF SpendNext, spendVars, Earn, Correct, RequestPending, SpendCrash, RequestBalance, RedeemRead,
                RequestCommit, MarkPaid, Reject
  <2>2. \A x \in Redemptions \ {d} : redemptions'[x] = redemptions[x]
    BY <2>1 DEF RedeemCommit, Fulfill, SpendingInv, Rows
  <2>3. CASE RedeemCommit(p, d) BY <2>2, <2>3 DEF RedeemCommit, NothingRedeemed
  <2>4. CASE Fulfill(p, d)
    <3>1. PICK row : row = [redemptions[d] EXCEPT !.status = "fulfilled"] OBVIOUS
    <3>2. redemptions[d] # None /\ redemptions' = [redemptions EXCEPT ![d] = row] BY <2>4, <3>1 DEF Fulfill
    <3>3. redemptions \in [Redemptions -> Redemption \cup {None}] BY DEF SpendingInv, Rows
    <3>4. redemptions[d] \in Redemption BY <3>2, <3>3
    <3>5. row # None BY <3>1, <3>4 DEF Redemption, SpendAssumption
    <3>6. redemptions'[d] = row BY <3>2, <3>3
    <3> QED BY <3>5, <3>6 DEF NothingRedeemed
  <2> QED BY <2>1, <2>3, <2>4
<1> QED BY <1>1, <1>2

LEMMA LedgerStep == LedgerOK /\ [SpendNext]_spendVars => LedgerOK'
<1> SUFFICES ASSUME LedgerOK, [SpendNext]_spendVars PROVE LedgerOK' OBVIOUS
<1>1. ASSUME NEW q \in Requesters, Earn(q) \/ Correct(q) PROVE LedgerOK'
  BY <1>1 DEF Earn, Correct, LedgerOK
<1>2. CASE earned' = earned /\ corrected' = corrected BY <1>2 DEF LedgerOK
<1> QED BY <1>1, <1>2 DEF SpendNext, spendVars, RequestPending, SpendCrash, RequestBalance, RedeemRead,
           RequestCommit, MarkPaid, Reject, RedeemCommit, Fulfill

LEMMA WithinStep ==
    ASSUME SpendAssumption, SpendingInv, SpendingInv', LedgerOK, NothingRedeemed', NothingRedeemed => Within,
           [SpendNext]_spendVars, ~ Interrupted \/ UNCHANGED spendVars
    PROVE  Within'
<1>1. NothingRedeemed /\ Within BY NeverRedeemed
<1>2. CASE UNCHANGED spendVars
  <2>1. UNCHANGED <<earned, corrected, withdrawals, redemptions, debits, spending>> BY <1>2 DEF spendVars
  <2>2. \A q : Balance(q)' = Balance(q) BY <2>1 DEF Balance, Spent, WithdrawalsOf, OfRedemptions
  <2>3. \A q : Claimed(q)' = Claimed(q) BY <2>1, ClaimedSame
  <2> QED BY <1>1, <2>1, <2>2, <2>3 DEF Within
<1>3. CASE SpendNext /\ ~ Interrupted
  <2>1. ASSUME NEW q \in Requesters, Earn(q) \/ Correct(q) PROVE Within' BY <1>1, <1>3, <2>1, EarnWithin
  <2>2. ASSUME NEW p \in Procs, RequestPending(p) PROVE Within' BY <1>1, <1>3, <2>2, PendingWithin
  <2>3. ASSUME NEW p \in Procs, SpendCrash(p) PROVE Within' BY <1>1, <1>3, <2>3, ElseWithin
  <2>4. ASSUME NEW p \in Procs, NEW q \in Requesters, NEW n \in Amounts, RequestBalance(p, q, n) PROVE Within'
    BY <1>1, <1>3, <2>4, RequestWithin
  <2>5. ASSUME NEW p \in Procs, NEW q \in Requesters, NEW i \in Items, RedeemRead(p, q, i) PROVE Within'
    BY <1>1, <1>3, <2>5, ElseWithin
  <2>6. ASSUME NEW p \in Procs, NEW w \in Withdrawals, RequestCommit(p, w) PROVE Within'
    BY <1>1, <1>3, <2>6, CommitWithin
  <2>7. ASSUME NEW p \in Procs, NEW w \in Withdrawals, MarkPaid(p, w) \/ Reject(p, w) PROVE Within'
    BY <1>1, <1>3, <2>7, DecideWithin
  <2>8. ASSUME NEW p \in Procs, NEW d \in Redemptions, RedeemCommit(p, d) \/ Fulfill(p, d) PROVE Within'
    <3>1. redemptions[d] = None /\ redemptions'[d] = None BY <1>1 DEF NothingRedeemed
    <3>2. RedeemCommit(p, d) BY <2>8, <3>1 DEF Fulfill
    <3>3. redemptions' = [redemptions EXCEPT ![d] =
             [who |-> spending[p].who, item |-> spending[p].item, cost |-> CostOf[spending[p].item],
              status |-> "pending_fulfillment"]]
      BY <3>2 DEF RedeemCommit
    <3>4. None = [who |-> spending[p].who, item |-> spending[p].item, cost |-> CostOf[spending[p].item],
                  status |-> "pending_fulfillment"]
      BY <3>1, <3>3 DEF SpendingInv, Rows
    <3>5. spending[p].who \in Requesters /\ spending[p].item \in Items
      BY <3>2 DEF RedeemCommit, SpendingInv, Calls, CallOK
    <3>6. None \in Redemption BY <3>4, <3>5 DEF Redemption, SpendAssumption
    <3> QED BY <3>6 DEF SpendAssumption
  <2> QED BY <1>3, <2>1, <2>2, <2>3, <2>4, <2>5, <2>6, <2>7, <2>8 DEF SpendNext
<1> QED BY <1>2, <1>3

LEMMA WithinIsEnough ==
    ASSUME SpendAssumption, SpendingInv, NothingRedeemed => Within
    PROVE  NothingRedeemed => SpentWithinEarned
BY ClaimedIsSpentAndHeld DEF Within, SpentWithinEarned

LEMMA WithinInit == ASSUME SpendAssumption, SpendInit PROVE LedgerOK /\ Within
<1>1. LedgerOK BY DEF SpendInit, LedgerOK
<1>2. \A p \in Procs : spending[p].at = "idle" BY IdleOK DEF SpendInit
<1>3. ASSUME NEW q \in Requesters PROVE Claimed(q) = 0
  <2>1. \A w \in Withdrawals : Claims(q)[w] = 0
    BY DEF SpendInit, Claims, PaidClaim, HeldClaim
  <2>2. IsFiniteSet(Withdrawals) BY DEF SpendAssumption
  <2> QED BY <2>1, <2>2, SumOfZeros DEF Claimed
<1>4. \A q \in Requesters : earned[q] = 0 BY DEF SpendInit
<1>5. \A q \in Requesters : Claimed(q) <= earned[q] BY <1>3, <1>4
<1> QED BY <1>1, <1>2, <1>5 DEF Within

-----------------------------------------------------------------------------
(* Batches, one call at a time                                             *)

\* What addEvents() found in no batch is in none until it commits, advanceStatus() writes what
\* follows the stage it read, and the members of a sealed batch are those under its root.
BatchesApart ==
    /\ \A p \in Procs : call[p].at = "adding" => \A e \in call[p].es : batchOf[e] = None
    /\ \A p \in Procs : call[p].at = "advancing" => call[p].to \in Follows(Stage(call[p].b))
    /\ \A b \in Batches : Sealed(b) => Members(b) = batches[b].root

\* No batch is sealed or sold: SealedOnce's state stands, and sealed batches keep their members.
SameLots ==
    /\ \A b \in Batches : Made(b) => Made(b)' /\ Stage(b)' = Stage(b) /\ batches'[b].root = batches[b].root
    /\ \A b \in Batches : ~ Made(b) /\ Made(b)' => Stage(b)' = "open" /\ batches'[b].root = NoRoot

LEMMA LotsStand ==
    ASSUME SameLots PROVE UNCHANGED Lots!vars
<1>1. (\A b \in Batches : (IF Made(b)' THEN Stage(b)' ELSE "open") = (IF Made(b) THEN Stage(b) ELSE "open"))
  BY DEF SameLots
<1>2. (\A b \in Batches : (IF Made(b)' THEN batches'[b].root ELSE NoRoot) = (IF Made(b) THEN batches[b].root ELSE NoRoot))
  BY DEF SameLots
<1> QED BY <1>1, <1>2 DEF Lots!vars

\* A call that starts or ends while nothing else does.
LEMMA CallTurns ==
    ASSUME BatchInv, BatchesApart, NEW p \in Procs, NEW c, call' = [call EXCEPT ![p] = c],
           UNCHANGED <<batches, batchOf>>,
           c.at = "adding" => \A e \in c.es : batchOf[e] = None,
           c.at = "advancing" => c.to \in Follows(Stage(c.b))
    PROVE  BatchesApart' /\ SameLots
<1>1. call'[p] = c /\ \A q \in Procs \ {p} : call'[q] = call[q] BY DEF BatchInv, TypeOK
<1>2. \A q \in Procs : call'[q].at = "adding" => \A e \in call'[q].es : batchOf'[e] = None
  BY <1>1 DEF BatchesApart
<1>3. \A q \in Procs : call'[q].at = "advancing" => call'[q].to \in Follows(Stage(call'[q].b))
  BY <1>1 DEF BatchesApart
<1>4. \A b \in Batches : Sealed(b)' => Members(b)' = batches'[b].root
  BY DEF BatchesApart, Sealed, Made, Stage, Members
<1>5. SameLots BY DEF SameLots, Made, Stage
<1> QED BY <1>2, <1>3, <1>4, <1>5 DEF BatchesApart, Stage

LEMMA LoneBatchCalls ==
    ASSUME BatchInv, BatchesApart, NEW p \in Procs,
           \/ Crash(p)
           \/ \E b \in Batches, es \in SUBSET Events : AddRead(p, b, es)
           \/ \E b \in Batches, to \in Status : AdvanceRead(p, b, to)
    PROVE  BatchesApart' /\ SameLots
<1>1. CASE Crash(p)
  <2>1. call' = [call EXCEPT ![p] = Idle] /\ UNCHANGED <<batches, batchOf>> BY <1>1 DEF Crash
  <2> QED BY <2>1, IdleCall, CallTurns
<1>2. ASSUME NEW b \in Batches, NEW es \in SUBSET Events, AddRead(p, b, es)
      PROVE  BatchesApart' /\ SameLots
  <2>1. PICK c : c = [Idle EXCEPT !.at = "adding", !.b = b, !.es = es] OBVIOUS
  <2>2. call' = [call EXCEPT ![p] = c] /\ UNCHANGED <<batches, batchOf>> BY <1>2, <2>1 DEF AddRead
  <2>3. c.at = "adding" /\ c.es = es BY <2>1 DEF Idle
  <2>4. \A e \in es : batchOf[e] = None BY <1>2 DEF AddRead, Eligible
  <2> QED BY <2>2, <2>3, <2>4, CallTurns
<1>3. ASSUME NEW b \in Batches, NEW to \in Status, AdvanceRead(p, b, to)
      PROVE  BatchesApart' /\ SameLots
  <2>1. PICK c : c = [Idle EXCEPT !.at = "advancing", !.b = b, !.to = to] OBVIOUS
  <2>2. call' = [call EXCEPT ![p] = c] /\ UNCHANGED <<batches, batchOf>> BY <1>3, <2>1 DEF AdvanceRead
  <2>3. c.at = "advancing" /\ c.to = to /\ c.b = b BY <2>1 DEF Idle
  <2>4. to \in Follows(Stage(b)) BY <1>3 DEF AdvanceRead, CanAdvance
  <2> QED BY <2>2, <2>3, <2>4, CallTurns
<1> QED BY <1>1, <1>2, <1>3

LEMMA LoneIngest ==
    ASSUME BatchesApart, NEW e \in Events, NEW verdict, Ingest(e, verdict)
    PROVE  BatchesApart' /\ SameLots
BY DEF Ingest, BatchesApart, SameLots, Made, Stage, Sealed, Members

LEMMA LoneCreate ==
    ASSUME BatchInv, BatchesApart, NEW b \in Batches, NEW h \in Hubs, NEW m \in Materials, Create(b, h, m)
    PROVE  BatchesApart' /\ SameLots
<1>1. PICK row : row = [hub |-> h, material |-> m, status |-> "open", root |-> NoRoot, totals |-> {}] OBVIOUS
<1>2. /\ batches'[b] = row /\ \A c \in Batches \ {b} : batches'[c] = batches[c]
      /\ ~ Made(b) /\ UNCHANGED <<events, batchOf, call>>
  BY <1>1 DEF Create, BatchInv, TypeOK
<1>3. row.status = "open" /\ row.root = NoRoot BY <1>1
<1>4. SameLots BY <1>2, <1>3 DEF SameLots, Made, Stage
<1>5. \A p \in Procs : call[p].at = "advancing" => call[p].b \in Batches \ {b}
  BY <1>2 DEF BatchInv, CallsStand, AdvanceStands
<1>6. \A p \in Procs : call'[p].at = "advancing" => call'[p].to \in Follows(batches'[call'[p].b].status)
  BY <1>2, <1>5 DEF BatchesApart, Stage
<1>7. \A c \in Batches : Sealed(c)' => Members(c)' = batches'[c].root
  BY <1>2, <1>3 DEF BatchesApart, Sealed, Made, Stage, Members
<1> QED BY <1>2, <1>4, <1>6, <1>7 DEF BatchesApart, Stage

LEMMA LoneRemove ==
    ASSUME BatchInv, BatchesApart, NEW b \in Batches, NEW e \in Events, Remove(b, e)
    PROVE  BatchesApart' /\ SameLots
<1>1. PICK row : row = [batches[b] EXCEPT !.totals = Members(b) \ {e}] OBVIOUS
<1>2. Made(b) /\ Stage(b) = "open" /\ batches[b] \in Batch
  BY DEF Remove, RemoveFrom, LockedAndOpen, BatchInv, TypeOK, Made
<1>3. row \in Batch /\ row.status = batches[b].status /\ row.root = batches[b].root
  BY <1>1, <1>2 DEF Batch, Members
<1>4. /\ batches'[b] = row /\ \A c \in Batches \ {b} : batches'[c] = batches[c]
      /\ \A d \in Events : batchOf'[d] = IF d = e THEN None ELSE batchOf[d]
      /\ call' = call /\ batchOf[e] = b
  BY <1>1 DEF Remove, BatchInv, TypeOK
<1>5. SameLots BY <1>2, <1>3, <1>4, NoBatchAssumption DEF SameLots, Made, Stage
<1>6. \A p \in Procs : call'[p].at = "adding" => \A d \in call'[p].es : batchOf'[d] = None
  BY <1>4 DEF BatchesApart, BatchInv, TypeOK, Call
<1>7. \A p \in Procs : call'[p].at = "advancing" => call'[p].to \in Follows(batches'[call'[p].b].status)
  BY <1>2, <1>3, <1>4 DEF BatchesApart, BatchInv, CallsStand, AdvanceStands, Stage
<1>8. ASSUME NEW c \in Batches, Sealed(c)' PROVE Members(c)' = batches'[c].root
  <2>1. c # b BY <1>2, <1>3, <1>4, <1>8 DEF Sealed, Stage
  <2>2. Sealed(c) /\ batches'[c] = batches[c] BY <1>4, <1>8, <2>1 DEF Sealed, Made, Stage
  <2>3. Members(c)' = Members(c) BY <1>4, <2>1, BatchAssumption DEF Members
  <2> QED BY <2>2, <2>3 DEF BatchesApart
<1> QED BY <1>5, <1>6, <1>7, <1>8 DEF BatchesApart, Stage

LEMMA LoneAddCommit ==
    ASSUME BatchInv, BatchesApart, OneAtATime(call), NEW p \in Procs, AddCommit(p)
    PROVE  BatchesApart' /\ SameLots
<1>1. PICK b, es : b = call[p].b /\ es = call[p].es OBVIOUS
<1>2. PICK row : row = [batches[b] EXCEPT !.totals = Members(b) \cup es] OBVIOUS
<1>3. call[p].at = "adding" /\ call[p] \in Call BY DEF AddCommit, BatchInv, TypeOK
<1>4. /\ Made(b) /\ Stage(b) = "open" /\ batches[b] \in Batch /\ b \in Batches
      /\ \A e \in es : batchOf[e] = None
  BY <1>1, <1>3 DEF BatchInv, CallsStand, AddStands, TypeOK, Made, BatchesApart
<1>5. es \subseteq Events BY <1>1, <1>3 DEF Call
<1>6. row \in Batch /\ row.status = batches[b].status /\ row.root = batches[b].root
  BY <1>2, <1>4, <1>5 DEF Batch, Members
<1>7. /\ batches' = [batches EXCEPT ![b] = row] /\ call' = [call EXCEPT ![p] = Idle]
      /\ batchOf' = [e \in Events |-> IF e \in es THEN b ELSE batchOf[e]]
  BY <1>1, <1>2 DEF AddCommit
<1>8. batches'[b] = row /\ \A c \in Batches \ {b} : batches'[c] = batches[c]
  BY <1>7, <1>4 DEF BatchInv, TypeOK
<1>9. SameLots BY <1>4, <1>6, <1>8, NoBatchAssumption DEF SameLots, Made, Stage
<1>10. \A q \in Procs : call'[q].at = "idle"
  BY <1>3, <1>7, IdleCall DEF OneAtATime, BatchInv, TypeOK
<1>11. ASSUME NEW c \in Batches, Sealed(c)' PROVE Members(c)' = batches'[c].root
  <2>1. c # b BY <1>4, <1>6, <1>8, <1>11 DEF Sealed, Stage
  <2>2. Sealed(c) /\ batches'[c] = batches[c] BY <1>8, <1>11, <2>1 DEF Sealed, Made, Stage
  <2>3. Members(c)' = Members(c) BY <1>4, <1>7, <2>1, BatchAssumption DEF Members
  <2> QED BY <2>2, <2>3 DEF BatchesApart
<1> QED BY <1>9, <1>10, <1>11 DEF BatchesApart

\* A batch is sealed over what no other sealed batch has: that one has its members still.
LEMMA LoneSeal ==
    ASSUME BatchInv, BatchesApart, NEW b \in Batches, Seal(b)
    PROVE  BatchesApart' /\ Lots!Next
<1>1. PICK row : row = [batches[b] EXCEPT !.status = SealedStatus, !.root = Members(b), !.totals = Members(b)]
  OBVIOUS
<1>2. /\ Made(b) /\ Stage(b) = "open" /\ batches[b] \in Batch /\ Members(b) # {}
      /\ Members(b) \subseteq Events
  BY DEF Seal, SealNow, LockedAndOpen, BatchInv, TypeOK, Made, Members
<1>3. row \in Batch /\ row.status = "sealed" /\ row.root = Members(b)
  BY <1>1, <1>2 DEF Batch, SealedStatus, Status
<1>4. /\ batches'[b] = row /\ \A c \in Batches \ {b} : batches'[c] = batches[c]
      /\ UNCHANGED <<batchOf, call>>
  BY <1>1 DEF Seal, BatchInv, TypeOK
<1>5. \A c \in Batches \ {b} : Made(c)' = Made(c) /\ Stage(c)' = Stage(c) BY <1>4 DEF Made, Stage
<1>6. Made(b)' /\ Stage(b)' = "sealed" BY <1>3, <1>4, NoBatchAssumption DEF Made, Stage
<1>7. \A p \in Procs : call'[p].at = "adding" => \A e \in call'[p].es : batchOf'[e] = None
  BY <1>4 DEF BatchesApart
<1>8. \A p \in Procs : call'[p].at = "advancing" => call'[p].to \in Follows(batches'[call'[p].b].status)
  <2>1. ASSUME NEW p \in Procs, call[p].at = "advancing" PROVE call[p].b \in Batches \ {b}
    <3>1. call[p].b \in Batches /\ Made(call[p].b) /\ batches[call[p].b].root # NoRoot
      BY <2>1 DEF BatchInv, CallsStand, AdvanceStands
    <3>2. Stage(call[p].b) # "open" BY <3>1 DEF BatchInv, SealedTotalsAreTheRoots, Sealed
    <3> QED BY <1>2, <3>1, <3>2
  <2> QED BY <1>4, <2>1 DEF BatchesApart, Stage
<1>9. ASSUME NEW c \in Batches, Sealed(c)' PROVE Members(c)' = batches'[c].root
  <2>1. Members(c)' = Members(c) BY <1>4 DEF Members
  <2>2. CASE c = b BY <1>3, <1>4, <2>1, <2>2
  <2>3. CASE c # b
    <3>1. Sealed(c) BY <1>4, <1>9, <2>3 DEF Sealed, Made, Stage
    <3> QED BY <1>4, <2>1, <2>3, <3>1 DEF BatchesApart
  <2> QED BY <2>2, <2>3
<1>10. BatchesApart' BY <1>7, <1>8, <1>9 DEF BatchesApart, Stage
<1>11. ASSUME NEW c \in Batches, Made(c) PROVE Members(b) \cap batches[c].root = {}
  <2>1. CASE Sealed(c)
    <3>1. c # b BY <1>2, <2>1 DEF Sealed
    <3>2. batches[c].root = Members(c) BY <2>1 DEF BatchesApart
    <3> QED BY <3>1, <3>2 DEF Members
  <2>2. CASE ~ Sealed(c) BY <1>11, <2>2 DEF BatchInv, SealedTotalsAreTheRoots, NoRoot
  <2> QED BY <2>1, <2>2
<1>12. Members(b) \cap Lots!Taken = {} BY <1>11 DEF Lots!Taken, NoRoot
<1>13. [c \in Batches |-> IF Made(c)' THEN Stage(c)' ELSE "open"]
        = [[c \in Batches |-> IF Made(c) THEN Stage(c) ELSE "open"] EXCEPT ![b] = "sealed"]
  BY <1>5, <1>6
<1>14. [c \in Batches |-> IF Made(c)' THEN batches'[c].root ELSE NoRoot]
        = [[c \in Batches |-> IF Made(c) THEN batches[c].root ELSE NoRoot] EXCEPT ![b] = Members(b)]
  BY <1>3, <1>4, <1>5, <1>6
<1>15. PICK items : items = Members(b) OBVIOUS
<1>16. items \in SUBSET Events BY <1>2, <1>15
<1>17. Lots!Seal(b, items) BY <1>2, <1>12, <1>13, <1>14, <1>15 DEF Lots!Seal
<1> QED BY <1>10, <1>16, <1>17 DEF Lots!Next

\* A lone advanceStatus() writes what follows the stage as it is now.
LEMMA LoneAdvanceWrite ==
    ASSUME BatchInv, BatchesApart, NEW p \in Procs, AdvanceWrite(p), OneAtATime(call)
    PROVE  BatchesApart' /\ Lots!Next
<1>1. PICK b, to : b = call[p].b /\ to = call[p].to OBVIOUS
<1>2. PICK row : row = [batches[b] EXCEPT !.status = to] OBVIOUS
<1>3. /\ call[p].at = "advancing" /\ b \in Batches /\ Made(b) /\ batches[b] \in Batch
      /\ batches[b].root # NoRoot /\ to \in {"processed", "sold"} /\ to \in Follows(Stage(b))
  BY <1>1 DEF AdvanceWrite, BatchInv, CallsStand, AdvanceStands, TypeOK, Made, BatchesApart
<1>4. row \in Batch /\ row.status = to /\ row.root = batches[b].root BY <1>2, <1>3 DEF Batch, Status
<1>5. /\ batches'[b] = row /\ \A c \in Batches \ {b} : batches'[c] = batches[c]
      /\ batchOf' = batchOf /\ call' = [call EXCEPT ![p] = Idle]
  BY <1>1, <1>2, <1>3 DEF AdvanceWrite, BatchInv, TypeOK
<1>6. \A c \in Batches \ {b} : Made(c)' = Made(c) /\ Stage(c)' = Stage(c) BY <1>5 DEF Made, Stage
<1>7. Made(b)' /\ Stage(b)' = to BY <1>4, <1>5, NoBatchAssumption DEF Made, Stage
<1>8. \A q \in Procs : call'[q].at = "idle"
  BY <1>3, <1>5, IdleCall DEF OneAtATime, BatchInv, TypeOK
<1>9. Sealed(b) BY <1>3 DEF BatchInv, SealedTotalsAreTheRoots
<1>10. ASSUME NEW c \in Batches, Sealed(c)' PROVE Members(c)' = batches'[c].root
  <2>1. Members(c)' = Members(c) BY <1>5 DEF Members
  <2>2. CASE c = b BY <1>4, <1>5, <1>9, <2>1, <2>2 DEF BatchesApart
  <2>3. CASE c # b
    <3>1. Sealed(c) BY <1>5, <1>10, <2>3 DEF Sealed, Made, Stage
    <3> QED BY <1>5, <2>1, <2>3, <3>1 DEF BatchesApart
  <2> QED BY <2>2, <2>3
<1>11. BatchesApart' BY <1>8, <1>10 DEF BatchesApart
<1>12. [c \in Batches |-> IF Made(c)' THEN Stage(c)' ELSE "open"]
        = [[c \in Batches |-> IF Made(c) THEN Stage(c) ELSE "open"] EXCEPT ![b] = to]
  BY <1>6, <1>7
<1>13. [c \in Batches |-> IF Made(c)' THEN batches'[c].root ELSE NoRoot]
        = [c \in Batches |-> IF Made(c) THEN batches[c].root ELSE NoRoot]
  BY <1>3, <1>4, <1>5, <1>6, <1>7
<1>14. (Stage(b) = "sealed" /\ to = "processed") \/ (Stage(b) = "processed" /\ to = "sold")
  BY <1>3, <1>9 DEF Follows, Sealed
<1>15. Lots!Advance(b) BY <1>3, <1>12, <1>13, <1>14 DEF Lots!Advance
<1> QED BY <1>3, <1>11, <1>15 DEF Lots!Next

LEMMA LoneBatchStep ==
    ASSUME BatchInv, BatchesApart, OneAtATime(call), [Next]_vars
    PROVE  BatchesApart' /\ (Lots!Next \/ UNCHANGED Lots!vars)
<1>1. ASSUME BatchesApart' /\ SameLots PROVE BatchesApart' /\ (Lots!Next \/ UNCHANGED Lots!vars)
  BY <1>1, LotsStand
<1>2. CASE \E e \in Events, verdict \in {"clean", "quarantined"} : Ingest(e, verdict)
  BY <1>1, <1>2, LoneIngest
<1>3. CASE \E b \in Batches : Seal(b) BY <1>3, LoneSeal
<1>4. CASE \E b \in Batches, h \in Hubs, m \in Materials : Create(b, h, m) BY <1>1, <1>4, LoneCreate
<1>5. CASE \E b \in Batches, e \in Events : Remove(b, e) BY <1>1, <1>5, LoneRemove
<1>6. CASE \E p \in Procs : AddCommit(p) BY <1>1, <1>6, LoneAddCommit
<1>7. CASE \E p \in Procs : AdvanceWrite(p) BY <1>7, LoneAdvanceWrite
<1>8. CASE \E p \in Procs : \/ Crash(p)
                            \/ \E b \in Batches, es \in SUBSET Events : AddRead(p, b, es)
                            \/ \E b \in Batches, to \in Status : AdvanceRead(p, b, to)
  BY <1>1, <1>8, LoneBatchCalls
<1>9. CASE UNCHANGED vars
  <2>1. BatchesApart' /\ SameLots
    BY <1>9 DEF vars, BatchesApart, SameLots, Made, Stage, Sealed, Members
  <2> QED BY <1>1, <2>1
<1> QED BY <1>2, <1>3, <1>4, <1>5, <1>6, <1>7, <1>8, <1>9 DEF Next

-----------------------------------------------------------------------------
(* Together                                                                *)

Settled ==
    /\ BatchInv /\ PayingInv /\ SpendingInv /\ LedgerOK
    /\ ~ overlapped => (NothingRedeemed => Within)
    /\ ~ overlapped => /\ OneAtATime(call) /\ BatchesApart
                       /\ OneAtATime(paying) /\ PaidApart

LEMMA SettledInit == MCInit => Settled
<1> SUFFICES ASSUME MCInit PROVE Settled OBVIOUS
<1>1. BatchInv /\ PayingInv BY BatchInit, PayingInit DEF MCInit
<1>2. OneAtATime(call) /\ BatchesApart
  <2>1. \A p \in Procs : call[p].at = "idle" BY IdleCall DEF MCInit, Init
  <2>2. \A b \in Batches : ~ Sealed(b) BY DEF MCInit, Init, Sealed, Made
  <2> QED BY <2>1, <2>2 DEF OneAtATime, BatchesApart
<1>3. OneAtATime(paying) /\ PaidApart
  <2>1. \A p \in Procs : paying[p].at = "idle" BY DEF MCInit, PayInit, NotPaying
  <2>2. \A r : Paying(r) = {} BY DEF MCInit, PayInit, Paying
  <2> QED BY <2>1, <2>2 DEF OneAtATime, PaidApart
<1>4. SpendingInv /\ LedgerOK /\ Within BY SpendingInit, WithinInit, SettlementAssumption DEF MCInit
<1> QED BY <1>1, <1>2, <1>3, <1>4 DEF Settled

MCvars == <<part, overlapped, vars, spendVars, payVars>>

\* A step of MCSettlement is a step of one part; calls that have overlapped have.
LEMMA OnePart ==
    ASSUME [MCNext]_MCvars
    PROVE  /\ [Next]_vars /\ [SpendNext]_spendVars /\ [PayNext]_payVars
           /\ ~ overlapped' => ~ overlapped
           /\ ~ overlapped' => call' = call \/ ~ Busy(call')
           /\ ~ overlapped' => paying' = paying \/ ~ Busy(paying')
           /\ ~ overlapped' => ~ Interrupted \/ UNCHANGED spendVars
<1>1. CASE part = "batches" /\ Next /\ overlapped' = (overlapped \/ Busy(call'))
           /\ UNCHANGED <<part, spendVars, payVars>>
  <2>1. paying' = paying BY <1>1 DEF payVars
  <2> QED BY <1>1, <2>1
<1>2. CASE part = "spending" /\ SpendNext /\ overlapped' = (overlapped \/ Interrupted)
           /\ UNCHANGED <<part, vars, payVars>>
  <2>1. paying' = paying /\ call' = call BY <1>2 DEF payVars, vars
  <2> QED BY <1>2, <2>1
<1>3. CASE part = "payouts" /\ PayNext /\ overlapped' = (overlapped \/ Busy(paying'))
           /\ UNCHANGED <<part, vars, spendVars>>
  <2>1. call' = call BY <1>3 DEF vars
  <2> QED BY <1>3, <2>1
<1>4. CASE UNCHANGED MCvars
  <2>1. /\ overlapped' = overlapped /\ UNCHANGED vars /\ UNCHANGED spendVars /\ UNCHANGED payVars
    BY <1>4 DEF MCvars
  <2>2. paying' = paying /\ call' = call BY <2>1 DEF payVars, vars
  <2> QED BY <2>1, <2>2
<1> QED BY <1>1, <1>2, <1>3, <1>4 DEF MCNext

LEMMA SettledStep == Settled /\ [MCNext]_MCvars => Settled'
<1> SUFFICES ASSUME Settled, [MCNext]_MCvars PROVE Settled' OBVIOUS
<1>1. [Next]_vars /\ [PayNext]_payVars /\ [SpendNext]_spendVars BY OnePart
<1>2. BatchInv' BY <1>1, BatchStep DEF Settled
<1>3. PayingInv' BY <1>1, PayingStep, SettlementAssumption DEF Settled
<1>4. SpendingInv' BY <1>1, SpendingStep, SettlementAssumption DEF Settled
<1>5. LedgerOK' BY <1>1, LedgerStep DEF Settled
<1>6. ASSUME ~ overlapped', NothingRedeemed' PROVE Within'
  <2>1. ~ overlapped /\ (~ Interrupted \/ UNCHANGED spendVars) BY <1>6, OnePart
  <2>2. SpendingInv /\ LedgerOK /\ (NothingRedeemed => Within) BY <2>1 DEF Settled
  <2> QED BY <1>1, <1>4, <1>6, <2>1, <2>2, WithinStep, SettlementAssumption
<1>7. ASSUME ~ overlapped'
      PROVE  OneAtATime(call)' /\ BatchesApart' /\ OneAtATime(paying)' /\ PaidApart'
  <2>1. ~ overlapped BY <1>7, OnePart
  <2>2. BatchesApart' BY <1>1, <2>1, LoneBatchStep DEF Settled
  <2>3. PaidApart' BY <1>1, <2>1, LonePayment DEF Settled
  <2>4. OneAtATime(call)'
    <3>1. PICK calls : calls = call' OBVIOUS
    <3>2. OneAtATime(calls) BY <1>7, <2>1, <3>1, OnePart, NotBusy DEF Settled
    <3> QED BY <3>1, <3>2 DEF OneAtATime
  <2>5. OneAtATime(paying)'
    <3>1. PICK calls : calls = paying' OBVIOUS
    <3>2. OneAtATime(calls) BY <1>7, <2>1, <3>1, OnePart, NotBusy DEF Settled
    <3> QED BY <3>1, <3>2 DEF OneAtATime
  <2> QED BY <2>2, <2>3, <2>4, <2>5
<1> QED BY <1>2, <1>3, <1>4, <1>5, <1>6, <1>7 DEF Settled

\* The invariant of the three together, in every reachable state.
THEOREM SettledHolds == MCSpec => []Settled
BY SettledInit, SettledStep, PTL DEF MCSpec, MCvars

-----------------------------------------------------------------------------
\* As long as no two of addEvents() and advanceStatus() overlap, every weigh-in that was sealed,
\* or is in a sealed batch now, verifies against the batch's root.
THEOREM MembershipIsFrozen == MCSpec => []SealedMembershipFrozenAlone
<1>1. Settled => SealedMembershipFrozenAlone
  <2> SUFFICES ASSUME Settled, ~ overlapped, NEW b \in Batches, Sealed(b),
                      NEW e \in Members(b) \cup batches[b].root
               PROVE  Verifies(b, e)
    BY DEF SealedMembershipFrozenAlone, SealedMembershipFrozen
  <2>1. Members(b) = batches[b].root BY DEF Settled, BatchesApart
  <2>2. batches[b].root # NoRoot BY DEF Settled, BatchInv, SealedTotalsAreTheRoots, Sealed
  <2> QED BY <2>1, <2>2 DEF Verifies
<1> QED BY <1>1, SettledHolds, PTL

\* As long as no two create() overlap, no re-weigh is in two payouts.
THEOREM ReweighsPaidOnce == MCSpec => []ReweighPaidOnceAlone
<1>1. Settled => ReweighPaidOnceAlone
  <2> SUFFICES ASSUME Settled, ~ overlapped, NEW r \in Reweighs PROVE Cardinality(Paying(r)) <= 1
    BY DEF ReweighPaidOnceAlone, ReweighPaidOnce
  <2>1. CASE Paying(r) = {}
    <3>1. Cardinality(Paying(r)) = 0 BY <2>1, FS_EmptySet
    <3> QED BY <3>1
  <2>2. ASSUME NEW i \in Paying(r) PROVE Cardinality(Paying(r)) <= 1
    <3>1. Paying(r) = {i} BY <2>2 DEF Settled, PaidApart
    <3>2. Cardinality(Paying(r)) = 1 BY <3>1, FS_Singleton
    <3> QED BY <3>2
  <2> QED BY <2>1, <2>2
<1> QED BY <1>1, SettledHolds, PTL

\* As long as no call is interrupted and nothing is exchanged, what a requester has withdrawn and
\* asked to withdraw is never more than was earned.
THEOREM WithdrawalsAreCovered == MCSpec => []WithdrawnWithinEarnedAlone
<1>1. Settled => WithdrawnWithinEarnedAlone
  <2> SUFFICES ASSUME Settled, ~ overlapped, NothingRedeemed PROVE SpentWithinEarned
    BY DEF WithdrawnWithinEarnedAlone, NothingRedeemed
  <2> QED BY WithinIsEnough, SettlementAssumption DEF Settled
<1> QED BY <1>1, SettledHolds, PTL

\* As long as they do not overlap, each step of the batches is one of SealedOnce or none: a batch is sealed once over weigh-ins no other sealed batch has, processed and sold.
THEOREM BatchesImplementSealedOnce == MCSpec => BatchesSellEachWeighInOnceAlone
<1>1. MCInit => Lots!Init BY DEF MCInit, Init, Lots!Init, Made, NoRoot
<1>2. Settled /\ [MCNext]_MCvars => [~ overlapped' => Lots!Next \/ UNCHANGED Lots!vars]_vars
  <2> SUFFICES ASSUME Settled, [MCNext]_MCvars, ~ overlapped' PROVE Lots!Next \/ UNCHANGED Lots!vars
    OBVIOUS
  <2>1. [Next]_vars /\ ~ overlapped BY OnePart
  <2> QED BY <2>1, LoneBatchStep DEF Settled
<1> QED BY <1>1, <1>2, SettledHolds, PTL DEF MCSpec, MCvars, BatchesSellEachWeighInOnceAlone

=============================================================================
