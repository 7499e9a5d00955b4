---------------------------- MODULE PickupProofs ----------------------------
(***************************************************************************)
(* Theorems about Pickup, for any number of bookings, weigh-ins and calls   *)
(* in flight: the tables and the handlers are well typed; what it promises  *)
(* about walk-ins, that a ticket is paid once, corrected once, to the gram, *)
(* and never for a quarantined weigh-in; that the hub corrects a weigh-in   *)
(* once.  Last, as long as calls are served one at a time, what it promises *)
(* of a booking: its code redeems once and pays no other booking, its       *)
(* weigh-in is credited once, its row says what its ledger does, what is    *)
(* left to settle is left by a call that died, and the ledger as a whole    *)
(* implements CreditOnce.                                                   *)
(***************************************************************************)
EXTENDS MCPickupAlone, SumTheorems, SequenceTheorems

-----------------------------------------------------------------------------
(* Types, and what a handler holds in each of its phases                    *)

Saving == {"reload", "write"}
Ingesting == {"ingestRead", "ingestSave"}
Ticketing == {"claimRead", "claimInsert"}
Issuing == {"linked", "claimed", "reweighed", "issue", "raced"}
Redeeming == {"redeemWeigh", "redeemCommit"}
Claiming == {"walkinLinked", "walkinWeigh", "walkinCommit"}
Reconciling == {"reconcile", "reconcileClaim", "settleRequest", "settleClaim"}

\* The arguments a phase relies on are there.
HasRequest(c) == c.at \in Saving \cup Issuing \cup Redeeming \cup {"settleRequest"} => c.r \in Requests

HasEvent(c) ==
    c.at \in Ingesting \cup Ticketing \cup Issuing \cup Claiming \cup Reconciling \cup {"redeemCommit"}
        => c.e \in Events

HasCaller(c) == c.at \in Redeeming \cup Claiming => c.who \in Requesters

HasWeight(c) ==
    /\ c.at \in Reconciling \cup {"redeemCommit", "walkinCommit"} => c.kg \in Weights
    /\ c.at = "settleRequest" => c.row.kg \in Weights

ArgsOK(c) == HasRequest(c) /\ HasEvent(c) /\ HasCaller(c) /\ HasWeight(c)

CallsOK == call \in [Procs -> Call] /\ \A p \in Procs : ArgsOK(call[p])

\* A claimed ticket says who claimed it and for how much.
Paid(ticket) == ticket # None /\ ticket.by \in Requesters /\ ticket.kg \in Weights

ClaimsOK ==
    /\ \A e \in Events : claims[e] # None /\ claims[e].by # None => Paid(claims[e])
    /\ \A p \in Procs : At(p, "settleClaim") => Paid(claims[call[p].e])

TypeInv == TypeOK /\ CallsOK /\ ClaimsOK

LEMMA MergedType ==
    ASSUME NEW now \in Request, NEW base \in Request, NEW row \in Request
    PROVE  Merged(now, base, row) \in Request
BY DEF Merged, Overwrite, Request

LEMMA UnbookedType == Unbooked \in Request
BY DEF Unbooked, Request, Status

\* An idle process holds a well-typed, empty call.
LEMMA IdleType == Idle \in Call /\ Idle.at = "idle" /\ ArgsOK(Idle)
BY UnbookedType
   DEF Idle, Call, Phase, ArgsOK, HasRequest, HasEvent, HasCaller, HasWeight, Saving, Ingesting,
       Ticketing, Issuing, Redeeming, Claiming, Reconciling

LEMMA TypeInit == Init => TypeInv
BY IdleType, UnbookedType
   DEF Init, TypeInv, TypeOK, CallsOK, ClaimsOK, At

\* A handler's next phase changes nothing else it holds.
LEMMA GotoType ==
    ASSUME NEW c \in Call, NEW phase \in Phase
    PROVE  LET d == [c EXCEPT !.at = phase]
           IN /\ d \in Call /\ d.at = phase
              /\ d.r = c.r /\ d.e = c.e /\ d.who = c.who /\ d.kg = c.kg /\ d.row = c.row
BY DEF Call

\* One call moves on; the others hold what they held.
LEMMA CallMoves ==
    ASSUME CallsOK, NEW p \in Procs, NEW c \in Call, ArgsOK(c), call' = [call EXCEPT ![p] = c]
    PROVE  CallsOK'
BY DEF CallsOK

\* ... and no claim is touched: only a call that comes to settle one has to show it.
LEMMA ClaimsStand ==
    ASSUME CallsOK, ClaimsOK, NEW p \in Procs, NEW c \in Call, call' = [call EXCEPT ![p] = c],
           c.at = "settleClaim" => Paid(claims[c.e]),
           claims' = claims
    PROVE  ClaimsOK'
BY DEF CallsOK, ClaimsOK, At

\* A step that writes no table.
LEMMA CallOnly ==
    ASSUME TypeInv, NEW p \in Procs, NEW c \in Call, ArgsOK(c), call' = [call EXCEPT ![p] = c],
           c.at = "settleClaim" => Paid(claims[c.e]), UNCHANGED tables
    PROVE  TypeInv'
<1>1. CallsOK' BY CallMoves DEF TypeInv
<1>2. ClaimsOK' BY ClaimsStand DEF TypeInv, tables
<1>3. TypeOK' BY <1>1 DEF TypeInv, TypeOK, tables, CallsOK
<1> QED BY <1>1, <1>2, <1>3 DEF TypeInv

\* A handler that goes on within its stage holds what it needs there.
LEMMA GotoKeepsType ==
    ASSUME TypeInv, NEW p \in Procs, NEW phase \in Phase,
           phase \notin {"redeemCommit", "walkinCommit", "settleRequest", "settleClaim"},
           \/ phase \in Saving /\ call[p].at \in Saving
           \/ phase \in Ingesting \cup Ticketing /\ call[p].at \in Ingesting \cup Ticketing
           \/ phase \in Issuing /\ call[p].at \in Issuing
           \/ phase \in Claiming /\ call[p].at \in Claiming
           \/ phase \in Reconciling /\ call[p].at \in Reconciling,
           Goto(p, phase), UNCHANGED tables
    PROVE  TypeInv'
<1> DEFINE c == [call[p] EXCEPT !.at = phase]
<1>1. call[p] \in Call /\ ArgsOK(call[p]) BY DEF TypeInv, CallsOK
<1>2. c \in Call /\ c.at = phase /\ c.r = call[p].r /\ c.e = call[p].e /\ c.who = call[p].who
        /\ c.kg = call[p].kg /\ c.row = call[p].row
    BY <1>1, GotoType
<1>3. call' = [call EXCEPT ![p] = c] BY DEF Goto
<1> HIDE DEF c
<1>4. ArgsOK(c)
    BY <1>1, <1>2
    DEF ArgsOK, HasRequest, HasEvent, HasCaller, HasWeight, Saving, Ingesting,
        Ticketing, Issuing, Redeeming, Claiming, Reconciling
<1> QED BY <1>2, <1>3, <1>4, CallOnly

LEMMA FinishKeepsType ==
    ASSUME TypeInv, NEW p \in Procs, Finish(p), UNCHANGED tables
    PROVE  TypeInv'
BY IdleType, CallOnly DEF Finish

\* A call that begins.
LEMMA BeginKeepsType ==
    ASSUME TypeInv, NEW p \in Procs, NEW c \in Call, ArgsOK(c), Begin(p, c), c.at # "settleClaim",
           UNCHANGED tables
    PROVE  TypeInv'
BY CallOnly DEF Begin

\* The calls that begin without a write.
LEMMA StartKeepsType ==
    ASSUME TypeInv, NEW p \in Procs,
           \/ \E r \in Requests, c \in Collectors : Assign(p, r, c)
           \/ \E r \in Requests : Cancel(p, r) \/ Redeem(p, r)
           \/ \E r \in Requests, e \in Events : Collect(p, r, e) \/ Fulfill(p, r, e)
           \/ \E e \in Events : Submit(p, e)
           \/ \E e \in Events, q \in Requesters : ClaimWalkIn(p, e, q)
    PROVE  TypeInv'
<1> USE BeginKeepsType, UnbookedType
    DEF Idle, Call, Phase, ArgsOK, HasRequest, HasEvent, HasCaller, HasWeight, Saving, Ingesting,
        Ticketing, Issuing, Redeeming, Claiming, Reconciling
<1>0. \A r \in Requests : reqs[r] \in Request BY DEF TypeInv, TypeOK
<1>1. ASSUME NEW r \in Requests, NEW k \in Collectors, Assign(p, r, k)
      PROVE  TypeInv'
    <2>1. [reqs[r] EXCEPT !.status = "assigned", !.collector = k] \in Request
        BY <1>0 DEF Request, Status
    <2> QED BY <1>1, <2>1 DEF Assign
<1>2. ASSUME NEW r \in Requests, Cancel(p, r)
      PROVE  TypeInv'
    <2>1. [reqs[r] EXCEPT !.status = "cancelled"] \in Request BY <1>0 DEF Request, Status
    <2> QED BY <1>2, <2>1 DEF Cancel
<1>3. ASSUME NEW r \in Requests, Redeem(p, r)
      PROVE  TypeInv'
    BY <1>0, <1>3, PickupAssumption DEF Redeem
<1>4. ASSUME NEW r \in Requests, NEW e \in Events, Collect(p, r, e)
      PROVE  TypeInv'
    BY <1>4 DEF Collect
<1>5. ASSUME NEW r \in Requests, NEW e \in Events, Fulfill(p, r, e)
      PROVE  TypeInv'
    BY <1>5 DEF Fulfill
<1>6. ASSUME NEW e \in Events, Submit(p, e)
      PROVE  TypeInv'
    BY <1>6 DEF Submit
<1>7. ASSUME NEW e \in Events, NEW q \in Requesters, ClaimWalkIn(p, e, q)
      PROVE  TypeInv'
    BY <1>7 DEF ClaimWalkIn
<1> QED BY <1>1, <1>2, <1>3, <1>4, <1>5, <1>6, <1>7

\* The statements that only read.
\* A handler that draws another code holds what it held.
LEMMA RedrawHolds ==
    ASSUME NEW c \in Call
    PROVE  LET d == [c EXCEPT !.at = "issue", !.draws = @ + 1]
           IN /\ d \in Call /\ d.at = "issue"
              /\ d.r = c.r /\ d.e = c.e /\ d.who = c.who /\ d.kg = c.kg /\ d.row = c.row
<1>1. PICK n \in Nat : n = c.draws + 1 BY DEF Call
<1>2. PICK phase \in Phase : phase = "issue" BY DEF Phase
<1>3. LET d == [c EXCEPT !.at = phase, !.draws = n]
      IN /\ d \in Call /\ d.at = phase
         /\ d.r = c.r /\ d.e = c.e /\ d.who = c.who /\ d.kg = c.kg /\ d.row = c.row
    BY DEF Call
<1> QED BY <1>1, <1>2, <1>3

LEMMA ReadKeepsType ==
    ASSUME TypeInv, NEW p \in Procs,
           \/ SaveReload(p) \/ IngestRead(p) \/ IngestRaced(p) \/ ClaimRead(p)
           \/ FulfillLinked(p) \/ FulfillClaim(p) \/ FulfillReweigh(p) \/ IssueRaced(p)
           \/ RedeemWeigh(p) \/ WalkInLinked(p) \/ WalkInWeigh(p)
           \/ ReconcileRequest(p) \/ ReconcileClaim(p) \/ Crash(p)
    PROVE  TypeInv'
<1> USE GotoKeepsType, FinishKeepsType
    DEF At, Phase, Saving, Ingesting, Ticketing, Issuing, Claiming, Reconciling
<1>0. call[p] \in Call /\ ArgsOK(call[p]) BY DEF TypeInv, CallsOK
<1>1. CASE SaveReload(p)
    <2> DEFINE c == [call[p] EXCEPT !.at = "write", !.base = reqs[call[p].r]]
    <2>1. call' = [call EXCEPT ![p] = c] BY <1>1 DEF SaveReload
    <2>2. call[p].r \in Requests BY <1>0, <1>1 DEF SaveReload, ArgsOK, HasRequest
    <2>3. reqs[call[p].r] \in Request BY <2>2 DEF TypeInv, TypeOK
    <2>4. c \in Call /\ c.at = "write" /\ c.r = call[p].r BY <1>0, <2>3 DEF Call
    <2> HIDE DEF c
    <2>5. ArgsOK(c)
        BY <2>2, <2>4 DEF ArgsOK, HasRequest, HasEvent, HasCaller, HasWeight, Redeeming
    <2> QED BY <1>1, <2>1, <2>4, <2>5, CallOnly DEF SaveReload
<1>2. CASE IngestRead(p) BY <1>2 DEF IngestRead
<1>3. CASE IngestRaced(p) BY <1>3 DEF IngestRaced
<1>4. CASE ClaimRead(p) BY <1>4 DEF ClaimRead
<1>5. CASE FulfillLinked(p) BY <1>5 DEF FulfillLinked
<1>6. CASE FulfillClaim(p) BY <1>6 DEF FulfillClaim
<1>7. CASE FulfillReweigh(p) BY <1>7 DEF FulfillReweigh
<1>8. CASE IssueRaced(p)
    <2>1. CASE Finish(p) BY <1>8, <2>1 DEF IssueRaced
    <2>2. CASE call' = [call EXCEPT ![p].at = "issue", ![p].draws = @ + 1]
        <3>1. PICK c : c = [call[p] EXCEPT !.at = "issue", !.draws = @ + 1] OBVIOUS
        <3>2. call' = [call EXCEPT ![p] = c] BY <2>2, <3>1
        <3>3. c \in Call /\ c.at = "issue" BY <1>0, <3>1, RedrawHolds
        <3>4. ArgsOK(c)
            BY <1>0, <1>8, <3>1, <3>3, RedrawHolds
            DEF IssueRaced, ArgsOK, HasRequest, HasEvent, HasCaller, HasWeight, Redeeming
        <3> QED BY <1>8, <3>2, <3>3, <3>4, CallOnly DEF IssueRaced
    <2> QED BY <1>8, <2>1, <2>2 DEF IssueRaced
<1>9. CASE RedeemWeigh(p)
    <2> DEFINE e == call[p].row.event
               c == [call[p] EXCEPT !.at = "redeemCommit", !.e = e, !.kg = BestKg(e),
                                    !.verified = HasReweigh(e)]
    <2>1. CASE e = None BY <1>9, <2>1 DEF RedeemWeigh
    <2>2. CASE e # None
        <3>1. call' = [call EXCEPT ![p] = c] BY <1>9, <2>2 DEF RedeemWeigh
        <3>2. e \in Events BY <1>0, <2>2 DEF Call, Request
        <3>3. BestKg(e) \in Weights BY <3>2, PickupAssumption DEF BestKg, TypeInv, TypeOK
        <3>4. HasReweigh(e) \in BOOLEAN BY DEF HasReweigh
        <3>5. /\ c \in Call /\ c.at = "redeemCommit" /\ c.r = call[p].r
              /\ c.e = e /\ c.who = call[p].who /\ c.kg = BestKg(e)
            BY <1>0, <3>2, <3>3, <3>4 DEF Call
        <3> HIDE DEF c, e
        <3>6. ArgsOK(c)
            BY <1>0, <1>9, <3>2, <3>3, <3>5
            DEF RedeemWeigh, ArgsOK, HasRequest, HasEvent, HasCaller, HasWeight, Redeeming
        <3> QED BY <1>9, <3>1, <3>5, <3>6, CallOnly DEF RedeemWeigh
    <2> QED BY <2>1, <2>2
<1>10. CASE WalkInLinked(p) BY <1>10 DEF WalkInLinked
<1>11. CASE WalkInWeigh(p)
    <2> DEFINE e == call[p].e
               c == [call[p] EXCEPT !.at = "walkinCommit", !.kg = BestKg(e),
                                    !.verified = HasReweigh(e)]
    <2>1. call' = [call EXCEPT ![p] = c] BY <1>11 DEF WalkInWeigh
    <2>2. e \in Events /\ call[p].who \in Requesters
        BY <1>0, <1>11 DEF WalkInWeigh, ArgsOK, HasEvent, HasCaller
    <2>3. BestKg(e) \in Weights BY <2>2, PickupAssumption DEF BestKg, TypeInv, TypeOK
    <2>4. HasReweigh(e) \in BOOLEAN BY DEF HasReweigh
    <2>5. c \in Call /\ c.at = "walkinCommit" /\ c.e = e /\ c.who = call[p].who /\ c.kg = BestKg(e)
        BY <1>0, <2>2, <2>3, <2>4 DEF Call
    <2> HIDE DEF c, e
    <2>6. ArgsOK(c)
        BY <2>2, <2>3, <2>5 DEF ArgsOK, HasRequest, HasEvent, HasCaller, HasWeight, Redeeming
    <2> QED BY <1>11, <2>1, <2>5, <2>6, CallOnly DEF WalkInWeigh
<1>12. CASE ReconcileRequest(p)
    <2>1. CASE LinkedTo(call[p].e) = {} /\ Goto(p, "reconcileClaim")
        BY <1>12, <2>1 DEF ReconcileRequest
    <2>2. CASE Finish(p)
        BY <1>12, <2>2 DEF ReconcileRequest
    <2>3. ASSUME NEW r \in Requests, OwesSettlement(reqs[r]),
                 call' = [call EXCEPT ![p] = [call[p] EXCEPT !.at = "settleRequest", !.r = r,
                                                             !.row = reqs[r]]]
          PROVE  TypeInv'
        <3> DEFINE c == [call[p] EXCEPT !.at = "settleRequest", !.r = r, !.row = reqs[r]]
        <3>1. reqs[r] \in Request BY DEF TypeInv, TypeOK
        <3>2. reqs[r].kg \in Weights BY <2>3, <3>1 DEF OwesSettlement, Request
        <3>3. /\ c \in Call /\ c.at = "settleRequest" /\ c.r = r /\ c.e = call[p].e
              /\ c.kg = call[p].kg /\ c.row = reqs[r]
            BY <1>0, <3>1 DEF Call
        <3>4. call' = [call EXCEPT ![p] = c] BY <2>3
        <3> HIDE DEF c
        <3>5. ArgsOK(c)
            BY <1>0, <1>12, <3>2, <3>3
            DEF ReconcileRequest, ArgsOK, HasRequest, HasEvent, HasCaller, HasWeight, Redeeming
        <3> QED BY <1>12, <3>3, <3>4, <3>5, CallOnly DEF ReconcileRequest
    <2> QED BY <1>12, <2>1, <2>2, <2>3 DEF ReconcileRequest, LinkedTo
<1>13. CASE ReconcileClaim(p)
    <2>1. CASE Finish(p) BY <1>13, <2>1 DEF ReconcileClaim
    <2>2. CASE TicketOwesSettlement(call[p].e) /\ Goto(p, "settleClaim")
        <3> DEFINE c == [call[p] EXCEPT !.at = "settleClaim"]
        <3>1. call' = [call EXCEPT ![p] = c] BY <2>2 DEF Goto
        <3>2. c \in Call /\ c.at = "settleClaim" /\ c.e = call[p].e /\ c.kg = call[p].kg
            BY <1>0 DEF Call
        <3> HIDE DEF c
        <3>3. ArgsOK(c) /\ c.e \in Events
            BY <1>0, <1>13, <3>2
            DEF ReconcileClaim, ArgsOK, HasRequest, HasEvent, HasCaller, HasWeight, Redeeming
        <3>4. Paid(claims[c.e]) BY <2>2, <3>2, <3>3 DEF TicketOwesSettlement, TypeInv, ClaimsOK
        <3> QED BY <1>13, <3>1, <3>2, <3>3, <3>4, CallOnly DEF ReconcileClaim
    <2> QED BY <1>13, <2>1, <2>2 DEF ReconcileClaim
<1>14. CASE Crash(p) BY <1>14 DEF Crash
<1> QED BY <1>1, <1>2, <1>3, <1>4, <1>5, <1>6, <1>7, <1>8, <1>9, <1>10, <1>11, <1>12, <1>13, <1>14

\* A handler that answers, having written tables but no claim.
LEMMA FinishCalls ==
    ASSUME TypeInv, NEW p \in Procs, Finish(p)
    PROVE  CallsOK' /\ (claims' = claims => ClaimsOK')
BY IdleType, CallMoves, ClaimsStand DEF TypeInv, Finish

LEMMA DifferenceType ==
    \A verified, credited \in Weights : Difference(verified, credited) \in Int
BY PickupAssumption DEF Difference

\* The ledger only grows by well-typed rows.
LEMMA SettledType ==
    ASSUME NEW rows \in Seq(Entry), NEW e \in Events, NEW to \in Requesters, NEW delta \in Int
    PROVE  Settled(rows, e, to, delta) \in Seq(Entry)
<1> DEFINE row == [kind |-> "adjustment", event |-> e, code |-> None, to |-> to, kg |-> delta]
<1>1. row \in Entry BY DEF Entry
<1>2. Settled(rows, e, to, delta) = IF delta = 0 THEN rows ELSE Append(rows, row)
    BY DEF Settled
<1> HIDE DEF row
<1> QED BY <1>1, <1>2

\* The statements that write.
LEMMA WriteKeepsType ==
    ASSUME TypeInv, NEW p \in Procs,
           \/ \E r \in Requests : Create(p, r)
           \/ \E e \in Events, kg \in Weights : Reweigh(p, e, kg)
           \/ SaveWrite(p)
           \/ \E verdict \in {"clean", "quarantined"} : IngestSave(p, verdict)
           \/ ClaimInsert(p) \/ IssueCode(p) \/ RedeemCommit(p) \/ WalkInCommit(p)
           \/ SettleRequest(p) \/ SettleClaim(p)
    PROVE  TypeInv'
<1> DEFINE c == call[p]
<1>0. c \in Call /\ ArgsOK(c) BY DEF TypeInv, CallsOK
<1>t. CallsOK' => (call \in [Procs -> Call])' BY DEF CallsOK
<1>w. Weights \subseteq Int BY PickupAssumption
<1>1. ASSUME NEW r \in Requests, Create(p, r)
      PROVE  TypeInv'
    <2>1. reqs[r] \in Request BY DEF TypeInv, TypeOK
    <2>2. [reqs[r] EXCEPT !.status = "requested"] \in Request BY <2>1 DEF Request, Status
    <2>3. reqs' \in [Requests -> Request] BY <1>1, <2>2 DEF Create, TypeInv, TypeOK
    <2> QED BY <1>1, <2>3 DEF Create, TypeInv, TypeOK, CallsOK, ClaimsOK, At
<1>2. ASSUME NEW e \in Events, NEW kg \in Weights, Reweigh(p, e, kg)
      PROVE  TypeInv'
    <2> DEFINE d == [Idle EXCEPT !.at = "reconcile", !.e = e, !.kg = kg]
    <2>1. call' = [call EXCEPT ![p] = d] BY <1>2 DEF Reweigh, Begin
    <2>2. d \in Call /\ d.at = "reconcile" /\ d.e = e /\ d.kg = kg
        BY UnbookedType DEF Idle, Call, Phase
    <2> HIDE DEF d
    <2>3. ArgsOK(d)
        BY <2>2 DEF ArgsOK, HasRequest, HasEvent, HasCaller, HasWeight, Saving, Issuing, Redeeming,
                    Claiming
    <2>4. CallsOK' BY <2>1, <2>2, <2>3, CallMoves DEF TypeInv
    <2>5. ClaimsOK' BY <1>2, <2>1, <2>2, ClaimsStand DEF TypeInv, Reweigh
    <2> QED BY <1>2, <1>t, <2>4, <2>5 DEF Reweigh, TypeInv, TypeOK
<1>3. CASE SaveWrite(p)
    <2>1. c.r \in Requests BY <1>0, <1>3 DEF SaveWrite, At, ArgsOK, HasRequest, Saving
    <2>2. reqs[c.r] \in Request /\ c.base \in Request /\ c.row \in Request
        BY <1>0, <2>1 DEF Call, TypeInv, TypeOK
    <2>3. reqs' = [reqs EXCEPT ![c.r] = Merged(reqs[c.r], c.base, c.row)]
        BY <1>3 DEF SaveWrite
    <2>4. reqs' \in [Requests -> Request]
        BY <2>2, <2>3, MergedType DEF TypeInv, TypeOK
    <2> QED BY <1>3, <1>t, <2>4, FinishCalls DEF SaveWrite, TypeInv, TypeOK
<1>4. ASSUME NEW verdict \in {"clean", "quarantined"}, IngestSave(p, verdict)
      PROVE  TypeInv'
    <2>1. events' \in [Events -> {"absent", "clean", "quarantined"}]
        BY <1>4 DEF IngestSave, TypeInv, TypeOK
    <2>2. CASE Finish(p)
        BY <1>4, <1>t, <2>1, <2>2, FinishCalls DEF IngestSave, TypeInv, TypeOK
    <2>3. ASSUME NEW phase \in {"claimRead", "issue"}, Goto(p, phase),
                 phase = "issue" => Doorstep(p)
          PROVE  TypeInv'
        <3> DEFINE d == [c EXCEPT !.at = phase]
        <3>1. call' = [call EXCEPT ![p] = d] BY <2>3 DEF Goto
        <3>2. d \in Call /\ d.at = phase /\ d.r = c.r /\ d.e = c.e
            BY <1>0 DEF Call, Phase
        <3>3. d.e \in Events /\ (phase = "issue" => d.r \in Requests)
            BY <1>0, <1>4, <2>3, <3>2
            DEF IngestSave, At, ArgsOK, HasEvent, Ingesting, Doorstep, Call
        <3> HIDE DEF d
        <3>4. ArgsOK(d)
            BY <3>2, <3>3 DEF ArgsOK, HasRequest, HasEvent, HasCaller, HasWeight, Saving, Issuing,
                    Redeeming, Claiming, Reconciling
        <3>5. CallsOK' BY <3>1, <3>2, <3>4, CallMoves DEF TypeInv
        <3>6. ClaimsOK' BY <1>4, <3>1, <3>2, ClaimsStand DEF TypeInv, IngestSave
        <3> QED BY <1>4, <1>t, <2>1, <3>5, <3>6 DEF IngestSave, TypeInv, TypeOK
    <2> QED BY <1>4, <2>2, <2>3 DEF IngestSave
<1>5. CASE ClaimInsert(p)
    <2>1. c.e \in Events BY <1>0, <1>5 DEF ClaimInsert, At, ArgsOK, HasEvent, Ticketing
    <2>2. NewTicket(c.e) \in Claim \cup {None} /\ (Paid(claims[c.e]) => Paid(NewTicket(c.e)))
        BY <2>1 DEF NewTicket, Unclaimed, Claim, Paid, TypeInv, TypeOK
    <2>3. NewTicket(c.e).by # None => Paid(NewTicket(c.e))
        BY <2>1 DEF NewTicket, Unclaimed, TypeInv, ClaimsOK
    <2>4. claims' = [claims EXCEPT ![c.e] = NewTicket(c.e)] BY <1>5 DEF ClaimInsert
    <2>5. claims' \in [Events -> Claim \cup {None}] BY <2>1, <2>2, <2>4 DEF TypeInv, TypeOK
    <2>6. \A q \in Procs : At(q, "settleClaim")' => q # p /\ call'[q] = call[q]
        BY <1>5, IdleType DEF ClaimInsert, Finish, At, TypeInv, TypeOK
    <2>7. \A q \in Procs : At(q, "settleClaim") => call[q].e \in Events
        BY DEF TypeInv, CallsOK, At, ArgsOK, HasEvent, Reconciling
    <2>8. ClaimsOK'
        BY <2>1, <2>2, <2>3, <2>4, <2>6, <2>7 DEF ClaimsOK, At, TypeInv, TypeOK
    <2> QED BY <1>5, <1>t, <2>5, <2>8, FinishCalls DEF ClaimInsert, TypeInv, TypeOK
<1>6. CASE IssueCode(p)
    <2>1. c.r \in Requests /\ c.e \in Events
        BY <1>0, <1>6 DEF IssueCode, At, ArgsOK, HasRequest, HasEvent, Issuing
    <2>2. CASE Goto(p, "raced") /\ UNCHANGED reqs
        BY <1>6, <2>2, GotoKeepsType DEF IssueCode, At, Phase, Issuing, tables
    <2>3. ASSUME NEW code \in Codes,
                 reqs' = [reqs EXCEPT ![c.r].event = c.e, ![c.r].code = code,
                                      ![c.r].status = "collected"],
                 Finish(p)
          PROVE  TypeInv'
        <3>2. reqs[c.r] \in Request BY <2>1 DEF TypeInv, TypeOK
        <3>3. [reqs[c.r] EXCEPT !.event = c.e, !.code = code, !.status = "collected"]
                \in Request
            BY <2>1, <3>2 DEF Request, Status
        <3>4. reqs' = [reqs EXCEPT ![c.r] = [reqs[c.r] EXCEPT !.event = c.e, !.code = code,
                                                              !.status = "collected"]]
            BY <2>1, <2>3 DEF TypeInv, TypeOK
        <3>5. reqs' \in [Requests -> Request] BY <3>3, <3>4 DEF TypeInv, TypeOK
        <3> QED BY <1>6, <1>t, <2>3, <3>5, FinishCalls DEF IssueCode, TypeInv, TypeOK
    <2> QED BY <1>6, <2>2, <2>3 DEF IssueCode
<1>7. CASE RedeemCommit(p)
    <2>1. c.r \in Requests /\ c.e \in Events /\ c.who \in Requesters /\ c.kg \in Weights
        BY <1>0, <1>7 DEF RedeemCommit, At, ArgsOK, HasRequest, HasEvent, HasCaller, HasWeight,
                          Redeeming
    <2>2. PickupCredit(c) \in Entry
        BY <1>0, <1>w, <2>1 DEF PickupCredit, Entry, Call, Request
    <2>3. pickupRows' \in [Requests -> Seq(Entry)]
        BY <1>7, <2>1, <2>2 DEF RedeemCommit, TypeInv, TypeOK
    <2>4. reqs[c.r] \in Request /\ c.verified \in BOOLEAN BY <1>0, <2>1 DEF Call, TypeInv, TypeOK
    <2>5. RedeemedRow(reqs[c.r], c) \in Request
        BY <2>1, <2>4 DEF RedeemedRow, Request, Status
    <2>6. reqs' = [reqs EXCEPT ![c.r] = RedeemedRow(reqs[c.r], c)]
        BY <1>7, <2>1 DEF RedeemCommit, TypeInv, TypeOK
    <2>7. reqs' \in [Requests -> Request] BY <2>5, <2>6 DEF TypeInv, TypeOK
    <2> QED BY <1>7, <1>t, <2>3, <2>7, FinishCalls DEF RedeemCommit, TypeInv, TypeOK
<1>8. CASE WalkInCommit(p)
    <2>1. c.e \in Events /\ c.who \in Requesters /\ c.kg \in Weights
        BY <1>0, <1>8 DEF WalkInCommit, At, ArgsOK, HasEvent, HasCaller, HasWeight, Claiming
    <2>2. CASE UNCHANGED <<claims, ticketRows>>
        BY <1>8, <2>2, FinishKeepsType DEF WalkInCommit, tables
    <2>3. CASE /\ claims' = [claims EXCEPT ![c.e] =
                                [by |-> c.who, kg |-> c.kg, reconciled |-> c.verified]]
               /\ ticketRows' = [ticketRows EXCEPT ![c.e] = Append(@, WalkInCredit(c))]
        <3> DEFINE ticket == [by |-> c.who, kg |-> c.kg, reconciled |-> c.verified]
        <3>1. ticket \in Claim /\ Paid(ticket)
            BY <1>0, <2>1, NoRowAssumption DEF Claim, Paid, Call
        <3>2. WalkInCredit(c) \in Entry BY <1>w, <2>1 DEF WalkInCredit, Entry
        <3>3. ticketRows' \in [Events -> Seq(Entry)] BY <2>1, <2>3, <3>2 DEF TypeInv, TypeOK
        <3>4. claims' = [claims EXCEPT ![c.e] = ticket] BY <2>3
        <3> HIDE DEF ticket
        <3>5. claims' \in [Events -> Claim \cup {None}] BY <3>1, <3>4 DEF TypeInv, TypeOK
        <3>6. \A q \in Procs : At(q, "settleClaim")' => q # p /\ call'[q] = call[q]
            BY <1>8, IdleType DEF WalkInCommit, Finish, At, TypeInv, TypeOK
        <3>7. ClaimsOK'
            BY <2>1, <3>1, <3>4, <3>6 DEF ClaimsOK, At, TypeInv, TypeOK
        <3> QED BY <1>8, <1>t, <3>3, <3>5, <3>7, FinishCalls DEF WalkInCommit, TypeInv, TypeOK
    <2> QED BY <1>8, <2>2, <2>3 DEF WalkInCommit
<1>9. CASE SettleRequest(p)
    <2>1. /\ c.r \in Requests /\ c.e \in Events /\ c.kg \in Weights /\ c.row.kg \in Weights
          /\ Booker[c.r] \in Requesters
        BY <1>0, <1>9, PickupAssumption
        DEF SettleRequest, At, ArgsOK, HasRequest, HasEvent, HasWeight, Reconciling
    <2>2. Difference(c.kg, c.row.kg) \in Int
        <3>1. c.kg \in Int /\ c.row.kg \in Int BY <1>w, <2>1
        <3> QED BY <3>1 DEF Difference
    <2>3. Settled(pickupRows[c.r], c.e, Booker[c.r], Difference(c.kg, c.row.kg)) \in Seq(Entry)
        BY <2>1, <2>2, SettledType DEF TypeInv, TypeOK
    <2>4. pickupRows' \in [Requests -> Seq(Entry)]
        BY <1>9, <2>3 DEF SettleRequest, TypeInv, TypeOK
    <2>5. reqs[c.r] \in Request BY <2>1 DEF TypeInv, TypeOK
    <2>6. [reqs[c.r] EXCEPT !.reconciled = TRUE] \in Request BY <2>5 DEF Request
    <2>7. reqs' \in [Requests -> Request] BY <1>9, <2>6 DEF SettleRequest, TypeInv, TypeOK
    <2> QED BY <1>9, <1>t, <2>4, <2>7, FinishCalls DEF SettleRequest, TypeInv, TypeOK
<1>10. CASE SettleClaim(p)
    <2> DEFINE ticket == claims[c.e]
    <2>1. c.e \in Events /\ c.kg \in Weights
        BY <1>0, <1>10 DEF SettleClaim, At, ArgsOK, HasEvent, HasWeight, Reconciling
    <2>2. Paid(ticket) /\ ticket \in Claim
        BY <1>10, <2>1 DEF SettleClaim, TypeInv, TypeOK, ClaimsOK, At, Paid
    <2>3. Difference(c.kg, ticket.kg) \in Int BY <2>1, <2>2, DifferenceType DEF Paid
    <2>4. Settled(ticketRows[c.e], c.e, ticket.by, Difference(c.kg, ticket.kg)) \in Seq(Entry)
        BY <2>1, <2>2, <2>3, SettledType DEF TypeInv, TypeOK, Paid
    <2>5. ticketRows' \in [Events -> Seq(Entry)]
        BY <1>10, <2>4 DEF SettleClaim, TypeInv, TypeOK
    <2>6. [ticket EXCEPT !.reconciled = TRUE] \in Claim /\ Paid([ticket EXCEPT !.reconciled = TRUE])
        BY <2>2, NoRowAssumption DEF Claim, Paid
    <2>7. claims' = [claims EXCEPT ![c.e] = [ticket EXCEPT !.reconciled = TRUE]]
        BY <1>10, <2>1 DEF SettleClaim, TypeInv, TypeOK
    <2>8. claims' \in [Events -> Claim \cup {None}] BY <2>6, <2>7 DEF TypeInv, TypeOK
    <2>9. \A q \in Procs : At(q, "settleClaim")' => q # p /\ call'[q] = call[q]
        BY <1>10, IdleType DEF SettleClaim, Finish, At, TypeInv, TypeOK
    <2>10. \A q \in Procs : At(q, "settleClaim") => call[q].e \in Events
        BY DEF TypeInv, CallsOK, At, ArgsOK, HasEvent, Reconciling
    <2> HIDE DEF ticket
    <2>11. ClaimsOK'
        BY <2>1, <2>6, <2>7, <2>9, <2>10 DEF ClaimsOK, At, TypeInv, TypeOK
    <2> QED BY <1>10, <1>t, <2>5, <2>8, <2>11, FinishCalls DEF SettleClaim, TypeInv, TypeOK
<1> QED BY <1>1, <1>2, <1>3, <1>4, <1>5, <1>6, <1>7, <1>8, <1>9, <1>10

LEMMA TypeStep == TypeInv /\ [Next]_vars => TypeInv'
<1> SUFFICES ASSUME TypeInv, [Next]_vars
             PROVE  TypeInv'
    OBVIOUS
<1>1. CASE UNCHANGED vars
    BY <1>1 DEF vars, TypeInv, TypeOK, CallsOK, ClaimsOK, At
<1>2. ASSUME NEW p \in Procs, Start(p)
      PROVE  TypeInv'
    BY <1>2, StartKeepsType, WriteKeepsType DEF Start
<1>3. ASSUME NEW p \in Procs, Continue(p)
      PROVE  TypeInv'
    BY <1>3, ReadKeepsType, WriteKeepsType DEF Continue
<1>4. ASSUME NEW p \in Procs, Crash(p)
      PROVE  TypeInv'
    BY <1>4, ReadKeepsType
<1> QED BY <1>1, <1>2, <1>3, <1>4 DEF Next

\* Whatever calls race and die, the tables and what handlers hold keep their types.
THEOREM TypeCorrect == Spec => []TypeOK
<1>1. Init => TypeInv BY TypeInit
<1>2. TypeInv /\ [Next]_vars => TypeInv' BY TypeStep
<1>3. TypeInv => TypeOK BY DEF TypeInv
<1> QED BY <1>1, <1>2, <1>3, PTL DEF Spec

-----------------------------------------------------------------------------
(* The inductive invariant                                                 *)

Claimed(e) == claims[e] # None /\ claims[e].by # None

\* What a ticket, its ledger rows and the hub's weight say of each other.
TicketOK(e) ==
    LET ticket == claims[e]
        rows == ticketRows[e]
    IN /\ ~ Claimed(e) => rows = <<>>
       /\ ticket # None /\ ticket.by = None => ~ ticket.reconciled
       /\ Claimed(e) =>
            /\ events[e] = "clean"
            /\ rows[1].kind = "walkin"
            /\ rows[1].kg = ticket.kg
            /\ \A i \in 1..Len(rows) : rows[i].to = ticket.by
            /\ ~ ticket.reconciled => Len(rows) = 1
            /\ ticket.reconciled =>
                 /\ reweighs[e] # None
                 /\ AddsUpTo(rows, reweighs[e])
                 /\ Len(rows) = 2 => rows[2].kind = "adjustment"

\* What a handler has read about a ticket still stands when it writes.
ReadsStand(c) ==
    /\ c.at \in Claiming => claims[c.e] # None /\ events[c.e] = "clean"
    /\ c.at = "walkinCommit" =>
         IF c.verified THEN reweighs[c.e] # None /\ c.kg = reweighs[c.e] ELSE c.kg = ScaleKg[c.e]
    /\ c.at \in Reconciling => reweighs[c.e] = c.kg
    /\ c.at = "settleClaim" => TicketOwesSettlement(c.e)

\* A weigh-in is re-weighed once, so one call reconciles it.
OneReconciler ==
    \A p, q \in Procs :
        (/\ call[p].at \in Reconciling
         /\ call[q].at \in Reconciling
         /\ call[p].e = call[q].e) => p = q

TicketInv ==
    /\ \A e \in Events : TicketOK(e)
    /\ \A p \in Procs : ReadsStand(call[p])
    /\ OneReconciler

Inv == TypeInv /\ TicketInv

ticketTables == <<events, claims, reweighs, ticketRows>>

LEMMA IdleReads == ReadsStand(Idle) /\ Idle.at \notin Reconciling /\ Idle.at \notin Claiming
BY DEF ReadsStand, Idle, Claiming, Reconciling

LEMMA TicketInit == Init => TicketInv
<1> SUFFICES ASSUME Init PROVE TicketInv OBVIOUS
<1>1. \A e \in Events : TicketOK(e) BY DEF Init, TicketOK, Claimed
<1>2. \A p \in Procs : call[p] = Idle BY DEF Init
<1> QED BY <1>1, <1>2, IdleReads DEF TicketInv, OneReconciler

-----------------------------------------------------------------------------
(* Steps that write none of the ticket's tables                            *)

LEMMA TicketsStand ==
    ASSUME Inv, NEW p \in Procs, NEW c \in Call, call' = [call EXCEPT ![p] = c],
           UNCHANGED ticketTables, ReadsStand(c),
           c.at \in Reconciling => call[p].at \in Reconciling /\ c.e = call[p].e
    PROVE  TicketInv'
<1>1. \A q \in Procs : call'[q] = IF q = p THEN c ELSE call[q]
    BY DEF Inv, TypeInv, TypeOK
<1>2. \A e \in Events : TicketOK(e)'
    BY DEF Inv, TicketInv, TicketOK, Claimed, ticketTables
<1>3. ASSUME NEW q \in Procs PROVE ReadsStand(call[q])'
    <2>1. CASE q = p
        <3>1. call'[q] = c BY <1>1, <2>1
        <3> QED BY <3>1 DEF ReadsStand, TicketOwesSettlement, ticketTables
    <2>2. CASE q # p
        <3>1. call'[q] = call[q] /\ ReadsStand(call[q]) BY <1>1, <2>2 DEF Inv, TicketInv
        <3> QED BY <3>1 DEF ReadsStand, TicketOwesSettlement, ticketTables
    <2> QED BY <2>1, <2>2
<1>4. OneReconciler' BY <1>1 DEF Inv, TicketInv, OneReconciler
<1> QED BY <1>2, <1>3, <1>4 DEF TicketInv

\* A call that answers, or that begins or goes on where it has read nothing of a ticket.
LEMMA TicketsUntouched ==
    ASSUME Inv, NEW p \in Procs, NEW c \in Call, call' = [call EXCEPT ![p] = c],
           UNCHANGED ticketTables, c.at \notin Claiming \cup Reconciling
    PROVE  TicketInv'
BY TicketsStand DEF ReadsStand, Claiming, Reconciling

LEMMA FinishTickets ==
    ASSUME Inv, NEW p \in Procs, Finish(p), UNCHANGED ticketTables
    PROVE  TicketInv'
BY TicketsUntouched, IdleType, IdleReads DEF Finish

LEMMA GotoTickets ==
    ASSUME Inv, NEW p \in Procs, NEW phase \in Phase \ (Claiming \cup Reconciling), Goto(p, phase),
           UNCHANGED ticketTables
    PROVE  TicketInv'
<1>1. call[p] \in Call BY DEF Inv, TypeInv, TypeOK
<1>2. [call[p] EXCEPT !.at = phase] \in Call /\ [call[p] EXCEPT !.at = phase].at = phase
    BY <1>1 DEF Call
<1> QED BY <1>2, TicketsUntouched DEF Goto

LEMMA StartTickets ==
    ASSUME Inv, NEW p \in Procs,
           \/ \E r \in Requests : Create(p, r)
           \/ \E r \in Requests, c \in Collectors : Assign(p, r, c)
           \/ \E r \in Requests : Cancel(p, r) \/ Redeem(p, r)
           \/ \E r \in Requests, e \in Events : Collect(p, r, e) \/ Fulfill(p, r, e)
           \/ \E e \in Events : Submit(p, e)
           \/ \E e \in Events, q \in Requesters : ClaimWalkIn(p, e, q)
    PROVE  TicketInv'
<1> USE UnbookedType DEF Begin, Idle, Call, Phase, Claiming, Reconciling, tables, ticketTables
<1>0. \A r \in Requests : reqs[r] \in Request BY DEF Inv, TypeInv, TypeOK
<1>1. ASSUME NEW r \in Requests, Create(p, r)
      PROVE  TicketInv'
    BY <1>1 DEF Create, Inv, TicketInv, TicketOK, Claimed, ReadsStand, TicketOwesSettlement, OneReconciler
<1>2. ASSUME NEW r \in Requests, NEW k \in Collectors, Assign(p, r, k)
      PROVE  TicketInv'
    <2>1. [reqs[r] EXCEPT !.status = "assigned", !.collector = k] \in Request
        BY <1>0 DEF Request, Status
    <2> QED BY <1>2, <2>1, TicketsUntouched DEF Assign
<1>3. ASSUME NEW r \in Requests, Cancel(p, r)
      PROVE  TicketInv'
    <2>1. [reqs[r] EXCEPT !.status = "cancelled"] \in Request BY <1>0 DEF Request, Status
    <2> QED BY <1>3, <2>1, TicketsUntouched DEF Cancel
<1>4. ASSUME NEW r \in Requests, Redeem(p, r)
      PROVE  TicketInv'
    BY <1>0, <1>4, TicketsUntouched, PickupAssumption DEF Redeem
<1>5. ASSUME NEW r \in Requests, NEW e \in Events, Collect(p, r, e)
      PROVE  TicketInv'
    BY <1>5, TicketsUntouched DEF Collect
<1>6. ASSUME NEW r \in Requests, NEW e \in Events, Fulfill(p, r, e)
      PROVE  TicketInv'
    BY <1>6, TicketsUntouched DEF Fulfill
<1>7. ASSUME NEW e \in Events, Submit(p, e)
      PROVE  TicketInv'
    BY <1>7, TicketsUntouched DEF Submit
<1>8. ASSUME NEW e \in Events, NEW q \in Requesters, ClaimWalkIn(p, e, q)
      PROVE  TicketInv'
    <2> DEFINE c == [Idle EXCEPT !.at = "walkinLinked", !.e = e, !.who = q]
    <2>1. c \in Call /\ c.at = "walkinLinked" /\ c.e = e OBVIOUS
    <2>2. call' = [call EXCEPT ![p] = c] BY <1>8 DEF ClaimWalkIn
    <2> HIDE DEF c
    <2>3. ReadsStand(c) BY <1>8, <2>1 DEF ClaimWalkIn, Claimable, ReadsStand
    <2> QED BY <1>8, <2>1, <2>2, <2>3, TicketsStand DEF ClaimWalkIn
<1> QED BY <1>1, <1>2, <1>3, <1>4, <1>5, <1>6, <1>7, <1>8

LEMMA ReadTickets ==
    ASSUME Inv, NEW p \in Procs,
           \/ SaveReload(p) \/ SaveWrite(p) \/ IngestRead(p) \/ IngestRaced(p) \/ ClaimRead(p)
           \/ FulfillLinked(p) \/ FulfillClaim(p) \/ FulfillReweigh(p) \/ IssueCode(p) \/ IssueRaced(p)
           \/ RedeemWeigh(p) \/ RedeemCommit(p) \/ WalkInLinked(p) \/ WalkInWeigh(p)
           \/ ReconcileRequest(p) \/ ReconcileClaim(p) \/ SettleRequest(p) \/ Crash(p)
    PROVE  TicketInv'
<1> USE FinishTickets, GotoTickets DEF At, Phase, Claiming, Reconciling, tables, ticketTables
<1>0. call[p] \in Call /\ ArgsOK(call[p]) /\ ReadsStand(call[p])
    BY DEF Inv, TypeInv, CallsOK, TicketInv
<1>1. CASE SaveReload(p)
    <2> DEFINE c == [call[p] EXCEPT !.at = "write", !.base = reqs[call[p].r]]
    <2>1. call' = [call EXCEPT ![p] = c] BY <1>1 DEF SaveReload
    <2>2. call[p].r \in Requests BY <1>0, <1>1 DEF SaveReload, ArgsOK, HasRequest, Saving
    <2>3. reqs[call[p].r] \in Request BY <2>2 DEF Inv, TypeInv, TypeOK
    <2>4. c \in Call /\ c.at = "write" BY <1>0, <2>3 DEF Call
    <2> HIDE DEF c
    <2> QED BY <1>1, <2>1, <2>4, TicketsUntouched DEF SaveReload
<1>2. CASE SaveWrite(p) BY <1>2 DEF SaveWrite
<1>3. CASE IngestRead(p) BY <1>3 DEF IngestRead
<1>4. CASE IngestRaced(p) BY <1>4 DEF IngestRaced
<1>5. CASE ClaimRead(p) BY <1>5 DEF ClaimRead
<1>6. CASE FulfillLinked(p) BY <1>6 DEF FulfillLinked
<1>7. CASE FulfillClaim(p) BY <1>7 DEF FulfillClaim
<1>8. CASE FulfillReweigh(p) BY <1>8 DEF FulfillReweigh
<1>9. CASE IssueCode(p) BY <1>9 DEF IssueCode
<1>10. CASE IssueRaced(p)
    <2>1. CASE Finish(p) BY <1>10, <2>1 DEF IssueRaced
    <2>2. CASE call' = [call EXCEPT ![p].at = "issue", ![p].draws = @ + 1]
        <3>1. PICK c : c = [call[p] EXCEPT !.at = "issue", !.draws = @ + 1] OBVIOUS
        <3>2. call' = [call EXCEPT ![p] = c] BY <2>2, <3>1
        <3>3. c \in Call /\ c.at = "issue" BY <1>0, <3>1, RedrawHolds
        <3> QED BY <1>10, <3>2, <3>3, TicketsUntouched DEF IssueRaced
    <2> QED BY <1>10, <2>1, <2>2 DEF IssueRaced
<1>11. CASE RedeemWeigh(p)
    <2> DEFINE e == call[p].row.event
               c == [call[p] EXCEPT !.at = "redeemCommit", !.e = e, !.kg = BestKg(e),
                                    !.verified = HasReweigh(e)]
    <2>1. CASE e = None BY <1>11, <2>1 DEF RedeemWeigh
    <2>2. CASE e # None
        <3>1. call' = [call EXCEPT ![p] = c] BY <1>11, <2>2 DEF RedeemWeigh
        <3>2. e \in Events BY <1>0, <2>2 DEF Call, Request
        <3>3. BestKg(e) \in Weights BY <3>2, PickupAssumption DEF BestKg, Inv, TypeInv, TypeOK
        <3>4. HasReweigh(e) \in BOOLEAN BY DEF HasReweigh
        <3>5. c \in Call /\ c.at = "redeemCommit"
            BY <1>0, <3>2, <3>3, <3>4 DEF Call
        <3> HIDE DEF c, e
        <3> QED BY <1>11, <3>1, <3>5, TicketsUntouched DEF RedeemWeigh
    <2> QED BY <2>1, <2>2
<1>12. CASE RedeemCommit(p) BY <1>12 DEF RedeemCommit
<1>13. CASE WalkInLinked(p)
    <2>1. CASE Finish(p) BY <1>13, <2>1 DEF WalkInLinked
    <2>2. CASE Goto(p, "walkinWeigh")
        <3> DEFINE c == [call[p] EXCEPT !.at = "walkinWeigh"]
        <3>1. c \in Call /\ c.at = "walkinWeigh" /\ c.e = call[p].e BY <1>0 DEF Call
        <3>2. call' = [call EXCEPT ![p] = c] BY <2>2 DEF Goto
        <3> HIDE DEF c
        <3>3. ReadsStand(c) BY <1>0, <1>13, <3>1 DEF WalkInLinked, ReadsStand
        <3> QED BY <1>13, <3>1, <3>2, <3>3, TicketsStand DEF WalkInLinked
    <2> QED BY <1>13, <2>1, <2>2 DEF WalkInLinked
<1>14. CASE WalkInWeigh(p)
    <2> DEFINE e == call[p].e
               c == [call[p] EXCEPT !.at = "walkinCommit", !.kg = BestKg(e),
                                    !.verified = HasReweigh(e)]
    <2>1. call' = [call EXCEPT ![p] = c] BY <1>14 DEF WalkInWeigh
    <2>2. e \in Events BY <1>0, <1>14 DEF WalkInWeigh, ArgsOK, HasEvent
    <2>3. BestKg(e) \in Weights BY <2>2, PickupAssumption DEF BestKg, Inv, TypeInv, TypeOK
    <2>4. HasReweigh(e) \in BOOLEAN BY DEF HasReweigh
    <2>5. /\ c \in Call /\ c.at = "walkinCommit" /\ c.e = e /\ c.kg = BestKg(e)
          /\ c.verified = HasReweigh(e)
        BY <1>0, <2>2, <2>3, <2>4 DEF Call
    <2> HIDE DEF c
    <2>6. ReadsStand(c) BY <1>0, <1>14, <2>5 DEF WalkInWeigh, ReadsStand, BestKg, HasReweigh
    <2> QED BY <1>14, <2>1, <2>5, <2>6, TicketsStand DEF WalkInWeigh
<1>15. CASE ReconcileRequest(p)
    <2>1. CASE Finish(p) BY <1>15, <2>1 DEF ReconcileRequest
    <2>2. CASE Goto(p, "reconcileClaim")
        <3> DEFINE c == [call[p] EXCEPT !.at = "reconcileClaim"]
        <3>1. c \in Call /\ c.at = "reconcileClaim" /\ c.e = call[p].e /\ c.kg = call[p].kg
            BY <1>0 DEF Call
        <3>2. call' = [call EXCEPT ![p] = c] BY <2>2 DEF Goto
        <3> HIDE DEF c
        <3>3. ReadsStand(c) BY <1>0, <1>15, <3>1 DEF ReconcileRequest, ReadsStand
        <3> QED BY <1>15, <3>1, <3>2, <3>3, TicketsStand DEF ReconcileRequest
    <2>3. ASSUME NEW r \in Requests,
                 call' = [call EXCEPT ![p] = [call[p] EXCEPT !.at = "settleRequest", !.r = r,
                                                             !.row = reqs[r]]]
          PROVE  TicketInv'
        <3> DEFINE c == [call[p] EXCEPT !.at = "settleRequest", !.r = r, !.row = reqs[r]]
        <3>1. reqs[r] \in Request BY DEF Inv, TypeInv, TypeOK
        <3>2. c \in Call /\ c.at = "settleRequest" /\ c.e = call[p].e /\ c.kg = call[p].kg
            BY <1>0, <3>1 DEF Call
        <3>3. call' = [call EXCEPT ![p] = c] BY <2>3
        <3> HIDE DEF c
        <3>4. ReadsStand(c) BY <1>0, <1>15, <3>2 DEF ReconcileRequest, ReadsStand
        <3> QED BY <1>15, <3>2, <3>3, <3>4, TicketsStand DEF ReconcileRequest
    <2> QED BY <1>15, <2>1, <2>2, <2>3 DEF ReconcileRequest, LinkedTo
<1>16. CASE ReconcileClaim(p)
    <2>1. CASE Finish(p) BY <1>16, <2>1 DEF ReconcileClaim
    <2>2. CASE TicketOwesSettlement(call[p].e) /\ Goto(p, "settleClaim")
        <3> DEFINE c == [call[p] EXCEPT !.at = "settleClaim"]
        <3>1. c \in Call /\ c.at = "settleClaim" /\ c.e = call[p].e /\ c.kg = call[p].kg
            BY <1>0 DEF Call
        <3>2. call' = [call EXCEPT ![p] = c] BY <2>2 DEF Goto
        <3> HIDE DEF c
        <3>3. ReadsStand(c) BY <1>0, <1>16, <2>2, <3>1 DEF ReconcileClaim, ReadsStand
        <3> QED BY <1>16, <3>1, <3>2, <3>3, TicketsStand DEF ReconcileClaim
    <2> QED BY <1>16, <2>1, <2>2 DEF ReconcileClaim
<1>17. CASE SettleRequest(p) BY <1>17 DEF SettleRequest
<1>18. CASE Crash(p) BY <1>18 DEF Crash
<1> QED BY <1>1, <1>2, <1>3, <1>4, <1>5, <1>6, <1>7, <1>8, <1>9, <1>10, <1>11, <1>12, <1>13,
           <1>14, <1>15, <1>16, <1>17, <1>18

-----------------------------------------------------------------------------
(* Steps that write the ticket's tables                                    *)

\* A call that answers: the others read what they read, if it still stands.
LEMMA FinishReads ==
    ASSUME Inv, NEW p \in Procs, Finish(p),
           \A q \in Procs \ {p} : ReadsStand(call[q]) => ReadsStand(call[q])'
    PROVE  (\A q \in Procs : ReadsStand(call[q])') /\ OneReconciler'
<1>1. \A q \in Procs : call'[q] = IF q = p THEN Idle ELSE call[q]
    BY DEF Finish, Inv, TypeInv, TypeOK
<1>2. ASSUME NEW q \in Procs PROVE ReadsStand(call[q])'
    <2>1. CASE q = p
        <3>1. call'[q] = Idle BY <1>1, <2>1
        <3> QED BY <3>1, IdleReads DEF ReadsStand, Idle, Claiming, Reconciling
    <2>2. CASE q # p BY <2>2 DEF Inv, TicketInv
    <2> QED BY <2>1, <2>2
<1>3. OneReconciler' BY <1>1, IdleReads DEF Inv, TicketInv, OneReconciler
<1> QED BY <1>2, <1>3

LEMMA IngestSaveTickets ==
    ASSUME Inv, NEW p \in Procs, NEW verdict \in {"clean", "quarantined"}, IngestSave(p, verdict)
    PROVE  TicketInv'
<1> DEFINE e == call[p].e
<1>0. call[p] \in Call /\ ArgsOK(call[p]) BY DEF Inv, TypeInv, CallsOK
<1>1. e \in Events BY <1>0 DEF IngestSave, At, ArgsOK, HasEvent, Ingesting
<1>2. \A x \in Events : events[x] = "clean" => events'[x] = "clean"
    BY <1>1 DEF IngestSave, Inv, TypeInv, TypeOK
<1>3. UNCHANGED <<claims, reweighs, ticketRows>> BY DEF IngestSave
<1>4. \A x \in Events : TicketOK(x)'
    BY <1>2, <1>3 DEF TicketOK, Claimed, Inv, TicketInv
<1>5. PICK c \in Call : c.at \notin Claiming \cup Reconciling /\ call' = [call EXCEPT ![p] = c]
    <2>1. CASE Finish(p) BY <2>1, IdleType, IdleReads DEF Finish
    <2>2. ASSUME NEW phase \in {"claimRead", "issue"}, Goto(p, phase)
          PROVE  \E c \in Call : c.at \notin Claiming \cup Reconciling
                                 /\ call' = [call EXCEPT ![p] = c]
        <3>1. [call[p] EXCEPT !.at = phase] \in Call /\ [call[p] EXCEPT !.at = phase].at = phase
            BY <1>0 DEF Call, Phase
        <3> QED BY <2>2, <3>1 DEF Goto, Claiming, Reconciling
    <2> QED BY <2>1, <2>2 DEF IngestSave
<1>6. \A q \in Procs : call'[q] = IF q = p THEN c ELSE call[q]
    BY <1>5 DEF Inv, TypeInv, TypeOK
<1>7. ASSUME NEW q \in Procs PROVE ReadsStand(call[q])'
    <2>1. CASE q = p
        BY <1>5, <1>6, <2>1 DEF ReadsStand, Claiming, Reconciling
    <2>2. CASE q # p
        <3>1. call'[q] = call[q] /\ ReadsStand(call[q]) /\ ArgsOK(call[q])
            BY <1>6, <2>2 DEF Inv, TicketInv, TypeInv, CallsOK
        <3>2. call[q].at \in Claiming => call[q].e \in Events BY <3>1 DEF ArgsOK, HasEvent
        <3> QED BY <1>2, <1>3, <3>1, <3>2 DEF ReadsStand, TicketOwesSettlement
    <2> QED BY <2>1, <2>2
<1>8. OneReconciler' BY <1>5, <1>6 DEF Inv, TicketInv, OneReconciler
<1> QED BY <1>4, <1>7, <1>8 DEF TicketInv

LEMMA ClaimInsertTickets ==
    ASSUME Inv, NEW p \in Procs, ClaimInsert(p)
    PROVE  TicketInv'
<1> DEFINE e == call[p].e
<1>1. e \in Events BY DEF ClaimInsert, At, ArgsOK, HasEvent, Ticketing, Inv, TypeInv, CallsOK
<1>2. \A x \in Events :
        /\ claims[x] # None => claims'[x] = claims[x]
        /\ claims[x] = None => claims'[x] = None \/ claims'[x] = Unclaimed
    BY <1>1 DEF ClaimInsert, NewTicket, Inv, TypeInv, TypeOK
<1>3. UNCHANGED <<events, reweighs, ticketRows>> BY DEF ClaimInsert
<1>4. \A x \in Events : TicketOK(x)'
    BY <1>2, <1>3 DEF TicketOK, Claimed, Unclaimed, Inv, TicketInv
<1>5. ASSUME NEW q \in Procs \ {p}, ReadsStand(call[q])
      PROVE  ReadsStand(call[q])'
    <2>1. call'[q] = call[q] BY DEF ClaimInsert, Finish, Inv, TypeInv, TypeOK
    <2>2. call[q].at \in Claiming \cup Reconciling => call[q].e \in Events
        BY DEF ArgsOK, HasEvent, Inv, TypeInv, CallsOK
    <2> QED
        BY <1>2, <1>3, <1>5, <2>1, <2>2
        DEF ReadsStand, TicketOwesSettlement, Claiming, Reconciling
<1> QED BY <1>4, <1>5, FinishReads DEF ClaimInsert, TicketInv

\* A weigh-in not yet re-weighed has no reconciled ticket and nobody reconciling it.
LEMMA ReweighTickets ==
    ASSUME Inv, NEW p \in Procs, NEW e \in Events, NEW kg \in Weights, Reweigh(p, e, kg)
    PROVE  TicketInv'
<1> DEFINE c == [Idle EXCEPT !.at = "reconcile", !.e = e, !.kg = kg]
<1>1. c.at = "reconcile" /\ c.e = e /\ c.kg = kg BY DEF Idle
<1>2. \A q \in Procs : call'[q] = IF q = p THEN c ELSE call[q]
    BY DEF Reweigh, Begin, Inv, TypeInv, TypeOK
<1> HIDE DEF c
<1>3. reweighs[e] = None /\ reweighs'[e] = kg
    BY DEF Reweigh, Unweighed, Inv, TypeInv, TypeOK
<1>4. \A x \in Events \ {e} : reweighs'[x] = reweighs[x]
    BY DEF Reweigh, Inv, TypeInv, TypeOK
<1>5. UNCHANGED <<events, claims, ticketRows>> BY DEF Reweigh
<1>6. kg # None BY PickupAssumption
<1>7. \A x \in Events : TicketOK(x)'
    BY <1>3, <1>4, <1>5, <1>6 DEF TicketOK, Claimed, AddsUpTo, Inv, TicketInv
<1>8. ASSUME NEW q \in Procs, call[q].at \in Reconciling PROVE call[q].e # e
    <2>1. call[q].kg \in Weights /\ reweighs[call[q].e] = call[q].kg
        BY <1>8 DEF Inv, TypeInv, CallsOK, ArgsOK, HasWeight, TicketInv, ReadsStand
    <2> QED BY <1>3, <2>1, PickupAssumption
<1>9. ASSUME NEW q \in Procs PROVE ReadsStand(call[q])'
    <2>1. CASE q = p
        BY <1>1, <1>2, <1>3, <2>1 DEF ReadsStand, Claiming, Reconciling
    <2>2. CASE q # p
        <3>1. call'[q] = call[q] /\ ReadsStand(call[q]) BY <1>2, <2>2 DEF Inv, TicketInv
        <3>2. call[q].at \in Claiming \cup Reconciling => call[q].e \in Events
            BY DEF ArgsOK, HasEvent, Inv, TypeInv, CallsOK
        <3>3. call[q].at = "walkinCommit" /\ call[q].verified => call[q].e # e
            BY <1>3, <3>1 DEF ReadsStand
        <3> QED BY <1>4, <1>5, <1>8, <3>1, <3>2, <3>3
                DEF ReadsStand, TicketOwesSettlement, Claiming, Reconciling
    <2> QED BY <2>1, <2>2
<1>10. OneReconciler' BY <1>1, <1>2, <1>8 DEF Inv, TicketInv, OneReconciler
<1> QED BY <1>7, <1>9, <1>10 DEF TicketInv

\* A step that writes one ticket leaves the others as they were.
LEMMA OtherTickets ==
    ASSUME Inv, NEW e \in Events, UNCHANGED <<events, reweighs>>, TicketOK(e)',
           \A x \in Events \ {e} : claims'[x] = claims[x] /\ ticketRows'[x] = ticketRows[x]
    PROVE  \A x \in Events : TicketOK(x)'
<1> SUFFICES ASSUME NEW x \in Events, x # e PROVE TicketOK(x)'
    OBVIOUS
<1>1. TicketOK(x) BY DEF Inv, TicketInv
<1> QED BY <1>1 DEF TicketOK, Claimed

\* What the two writes of a ticket leave behind.
WalkInPaid(p) ==
    LET c == call[p]
    IN /\ c.e \in Events /\ c.who \in Requesters /\ c.kg \in Weights
       /\ claims[c.e] # None /\ ~ Claimed(c.e) /\ events[c.e] = "clean"
       /\ c.kg = IF c.verified THEN reweighs[c.e] ELSE ScaleKg[c.e]
       /\ c.verified => reweighs[c.e] # None
       /\ claims' = [claims EXCEPT ![c.e] = [by |-> c.who, kg |-> c.kg, reconciled |-> c.verified]]
       /\ ticketRows[c.e] = <<>>
       /\ ticketRows' = [ticketRows EXCEPT ![c.e] = <<WalkInCredit(c)>>]

LEMMA WalkInCommitPays ==
    ASSUME Inv, NEW p \in Procs, WalkInCommit(p)
    PROVE  WalkInPaid(p) \/ UNCHANGED <<claims, ticketRows>>
<1> DEFINE c == call[p]
<1>1. c \in Call /\ ArgsOK(c) /\ ReadsStand(c) /\ c.at = "walkinCommit"
    BY DEF Inv, TypeInv, CallsOK, TicketInv, WalkInCommit, At
<1>2. c.e \in Events /\ c.who \in Requesters /\ c.kg \in Weights
    BY <1>1 DEF ArgsOK, HasEvent, HasCaller, HasWeight, Claiming
<1>3. /\ claims[c.e] # None /\ events[c.e] = "clean"
      /\ c.kg = IF c.verified THEN reweighs[c.e] ELSE ScaleKg[c.e]
      /\ c.verified => reweighs[c.e] # None
    BY <1>1 DEF ReadsStand, Claiming
<1>4. CASE StillUnclaimed(c.e)
    <2>1. ~ Claimed(c.e) /\ ticketRows[c.e] = <<>>
        BY <1>2, <1>4 DEF StillUnclaimed, Claimed, Inv, TicketInv, TicketOK
    <2>2. ticketRows' = [ticketRows EXCEPT ![c.e] = Append(ticketRows[c.e], WalkInCredit(c))]
        BY <1>4, <1>2 DEF WalkInCommit, Inv, TypeInv, TypeOK
    <2>3. ticketRows' = [ticketRows EXCEPT ![c.e] = <<WalkInCredit(c)>>]
        BY <2>1, <2>2
    <2> QED BY <1>2, <1>3, <1>4, <2>1, <2>3 DEF WalkInCommit, WalkInPaid
<1>5. CASE ~ StillUnclaimed(c.e) BY <1>5 DEF WalkInCommit
<1> QED BY <1>4, <1>5

LEMMA WalkInCommitTickets ==
    ASSUME Inv, NEW p \in Procs, WalkInCommit(p)
    PROVE  TicketInv'
<1> DEFINE c == call[p]
<1>1. UNCHANGED <<events, reweighs>> /\ Finish(p) BY DEF WalkInCommit
<1>2. CASE UNCHANGED <<claims, ticketRows>>
    BY <1>1, <1>2, FinishTickets DEF ticketTables
<1>3. CASE WalkInPaid(p)
    <2>0. PICK e \in Events : e = c.e BY <1>3 DEF WalkInPaid
    <2>1. /\ claims'[e] = [by |-> c.who, kg |-> c.kg, reconciled |-> c.verified]
          /\ ticketRows'[e] = <<WalkInCredit(c)>>
        BY <1>3, <2>0 DEF WalkInPaid, Inv, TypeInv, TypeOK
    <2>2. \A x \in Events \ {e} : claims'[x] = claims[x] /\ ticketRows'[x] = ticketRows[x]
        BY <1>3, <2>0 DEF WalkInPaid, Inv, TypeInv, TypeOK
    <2>3. claims'[e] # None /\ claims'[e].by = c.who /\ c.who # None
            /\ claims'[e].kg = c.kg /\ claims'[e].reconciled = c.verified
        <3>1. c \in Call BY DEF Inv, TypeInv, TypeOK
        <3>2. claims'[e] \in Claim BY <1>3, <2>0, <2>1, <3>1 DEF WalkInPaid, Claim, Call
        <3> QED BY <1>3, <2>1, <3>2, NoRowAssumption, PickupAssumption DEF WalkInPaid
    <2>4. Len(ticketRows'[e]) = 1 /\ ticketRows'[e][1].kind = "walkin"
            /\ ticketRows'[e][1].kg = c.kg /\ ticketRows'[e][1].to = c.who
        BY <2>1 DEF WalkInCredit
    <2>5. TicketOK(e)'
        <3>1. \A i \in 1..Len(ticketRows'[e]) : ticketRows'[e][i].to = c.who
            BY <2>1, <2>4
        <3>2. c.verified => AddsUpTo(ticketRows'[e], reweighs[e])
            BY <1>3, <2>0, <2>4 DEF AddsUpTo, WalkInPaid
        <3>3. Claimed(e)' /\ events[e] = "clean" /\ (c.verified => reweighs[e] # None)
            BY <1>3, <2>0, <2>3 DEF Claimed, WalkInPaid
        <3> QED BY <1>1, <2>3, <2>4, <3>1, <3>2, <3>3 DEF TicketOK, AddsUpTo
    <2>6. \A x \in Events : TicketOK(x)'
        BY <1>1, <2>2, <2>5, OtherTickets
    <2>7. ASSUME NEW q \in Procs \ {p}, ReadsStand(call[q])
          PROVE  ReadsStand(call[q])'
        <3>1. call'[q] = call[q] BY <1>1 DEF Finish, Inv, TypeInv, TypeOK
        <3>2. call[q].at \in Claiming \cup Reconciling => call[q].e \in Events
            BY DEF ArgsOK, HasEvent, Inv, TypeInv, CallsOK
        <3>3. call[q].at = "settleClaim" => call[q].e # e
            BY <1>3, <2>0, <2>7 DEF ReadsStand, TicketOwesSettlement, WalkInPaid, Claimed
        <3> QED
            BY <1>1, <2>2, <2>3, <2>7, <3>1, <3>2, <3>3
            DEF ReadsStand, TicketOwesSettlement, Claiming, Reconciling
    <2> QED BY <1>1, <2>6, <2>7, FinishReads DEF TicketInv
<1> QED BY <1>2, <1>3, WalkInCommitPays

TicketSettled(p) ==
    LET c == call[p]
        delta == reweighs[c.e] - claims[c.e].kg
    IN /\ c.e \in Events /\ reweighs[c.e] \in Weights /\ claims[c.e].kg \in Weights
       /\ Claimed(c.e) /\ ~ claims[c.e].reconciled
       /\ Len(ticketRows[c.e]) = 1 /\ ticketRows[c.e][1].kg = claims[c.e].kg
       /\ claims' = [claims EXCEPT ![c.e] = [claims[c.e] EXCEPT !.reconciled = TRUE]]
       /\ ticketRows' = [ticketRows EXCEPT ![c.e] =
                            Settled(ticketRows[c.e], c.e, claims[c.e].by, delta)]

LEMMA SettleClaimSettles ==
    ASSUME Inv, NEW p \in Procs, SettleClaim(p)
    PROVE  TicketSettled(p)
<1> DEFINE c == call[p]
<1>1. ArgsOK(c) /\ ReadsStand(c) /\ c.at = "settleClaim"
    BY DEF Inv, TypeInv, CallsOK, TicketInv, SettleClaim, At
<1>2. c.e \in Events /\ c.kg \in Weights /\ reweighs[c.e] = c.kg
    BY <1>1 DEF ArgsOK, HasEvent, HasWeight, ReadsStand, Reconciling
<1>3. Claimed(c.e) /\ ~ claims[c.e].reconciled
    BY <1>1 DEF ReadsStand, TicketOwesSettlement, Claimed
<1>4. claims[c.e].kg \in Weights BY <1>2, <1>3 DEF Claimed, Inv, TypeInv, ClaimsOK, Paid
<1>5. Len(ticketRows[c.e]) = 1 /\ ticketRows[c.e][1].kg = claims[c.e].kg
    BY <1>2, <1>3 DEF Inv, TicketInv, TicketOK
<1>6. claims' = [claims EXCEPT ![c.e] = [claims[c.e] EXCEPT !.reconciled = TRUE]]
    BY <1>2 DEF SettleClaim, Inv, TypeInv, TypeOK
<1>7. ticketRows' = [ticketRows EXCEPT ![c.e] =
                        Settled(ticketRows[c.e], c.e, claims[c.e].by, c.kg - claims[c.e].kg)]
    BY <1>2 DEF SettleClaim, Difference, Inv, TypeInv, TypeOK
<1> QED BY <1>2, <1>3, <1>4, <1>5, <1>6, <1>7 DEF TicketSettled

LEMMA SecondRow ==
    ASSUME NEW S, NEW rows \in Seq(S), Len(rows) = 1, NEW row \in S
    PROVE  /\ Len(Append(rows, row)) = 2
           /\ Append(rows, row)[1] = rows[1]
           /\ Append(rows, row)[2] = row
BY AppendProperties

\* One more row, or none: the ledger's old rows stay.
LEMMA SettledAddsUp ==
    ASSUME NEW rows \in Seq(Entry), Len(rows) = 1, NEW e \in Events, NEW to \in Requesters,
           NEW delta \in Int
    PROVE  LET new == Settled(rows, e, to, delta)
           IN /\ delta = 0 => new = rows
              /\ delta # 0 => /\ Len(new) = 2 /\ new[1] = rows[1]
                              /\ new[2].kind = "adjustment" /\ new[2].event = e /\ new[2].to = to
                              /\ new[2].kg = delta
<1> DEFINE row == [kind |-> "adjustment", event |-> e, code |-> None, to |-> to, kg |-> delta]
<1>1. row \in Entry /\ row.kind = "adjustment" /\ row.event = e /\ row.to = to /\ row.kg = delta BY DEF Entry
<1>2. Settled(rows, e, to, delta) = IF delta = 0 THEN rows ELSE Append(rows, row)
    BY DEF Settled
<1> HIDE DEF row
<1>3. CASE delta = 0 BY <1>2, <1>3
<1>4. CASE delta # 0
    <2>1. Settled(rows, e, to, delta) = Append(rows, row) BY <1>2, <1>4
    <2>2. /\ Len(Append(rows, row)) = 2
          /\ Append(rows, row)[1] = rows[1] /\ Append(rows, row)[2] = row
        BY <1>1, SecondRow
    <2> QED BY <1>1, <1>4, <2>1, <2>2
<1> QED BY <1>3, <1>4

LEMMA SettleClaimTickets ==
    ASSUME Inv, NEW p \in Procs, SettleClaim(p)
    PROVE  TicketInv'
<1>0. PICK e \in Events : e = call[p].e
    BY SettleClaimSettles DEF TicketSettled
<1> DEFINE ticket == claims[e]
           rows == ticketRows[e]
           delta == reweighs[e] - ticket.kg
<1>1. UNCHANGED <<events, reweighs>> /\ Finish(p) BY DEF SettleClaim
<1>2. TicketSettled(p) BY SettleClaimSettles
<1>3. e \in Events /\ Paid(ticket) /\ ticket \in Claim /\ rows \in Seq(Entry)
    BY <1>0, <1>2 DEF TicketSettled, Claimed, Inv, TypeInv, TypeOK, ClaimsOK, Paid
<1>4. delta \in Int BY <1>0, <1>2, PickupAssumption DEF TicketSettled
<1>5. /\ claims'[e] = [ticket EXCEPT !.reconciled = TRUE]
      /\ ticketRows'[e] = Settled(rows, e, ticket.by, delta)
    BY <1>0, <1>2 DEF TicketSettled, Inv, TypeInv, TypeOK
<1>6. \A x \in Events \ {e} : claims'[x] = claims[x] /\ ticketRows'[x] = ticketRows[x]
    BY <1>0, <1>2 DEF TicketSettled, Inv, TypeInv, TypeOK
<1>7. claims'[e] # None /\ claims'[e].by = ticket.by /\ claims'[e].kg = ticket.kg
        /\ claims'[e].reconciled /\ ticket.by # None
    <2>1. claims'[e] \in Claim BY <1>3, <1>5 DEF Claim
    <2> QED BY <1>3, <1>5, <2>1, NoRowAssumption, PickupAssumption DEF Claim, Paid
<1>8. /\ delta = 0 => ticketRows'[e] = rows
      /\ delta # 0 => /\ Len(ticketRows'[e]) = 2 /\ ticketRows'[e][1] = rows[1]
                      /\ ticketRows'[e][2].kind = "adjustment"
                      /\ ticketRows'[e][2].to = ticket.by /\ ticketRows'[e][2].kg = delta
    BY <1>0, <1>2, <1>3, <1>4, <1>5, SettledAddsUp DEF Paid, TicketSettled
<1>9. /\ events[e] = "clean" /\ Len(rows) = 1 /\ rows[1].kind = "walkin"
      /\ rows[1].kg = ticket.kg /\ rows[1].to = ticket.by
    BY <1>0, <1>2, <1>3 DEF TicketSettled, Inv, TicketInv, TicketOK
<1>10. ticketRows'[e][1] = rows[1] /\ Len(ticketRows'[e]) \in {1, 2}
    BY <1>8, <1>9
<1>11. AddsUpTo(ticketRows'[e], reweighs[e])
    <2>1. reweighs[e] \in Int /\ ticket.kg \in Int BY <1>0, <1>2, PickupAssumption DEF TicketSettled
    <2>2. CASE delta = 0 BY <1>8, <1>9, <2>1, <2>2 DEF AddsUpTo
    <2>3. CASE delta # 0
        <3>1. ticketRows'[e][1].kg = ticket.kg /\ ticketRows'[e][2].kg = delta
            BY <1>8, <1>9, <2>3
        <3>2. ticket.kg + delta = reweighs[e] BY <2>1
        <3> QED BY <1>8, <2>3, <3>1, <3>2 DEF AddsUpTo
    <2> QED BY <2>2, <2>3
<1>12. \A i \in 1..Len(ticketRows'[e]) : ticketRows'[e][i].to = ticket.by
    BY <1>8, <1>9, <1>10
<1>13. reweighs[e] # None BY <1>0, <1>2, PickupAssumption DEF TicketSettled
<1> HIDE DEF ticket, rows, delta
<1>14. Len(ticketRows'[e]) = 2 => ticketRows'[e][2].kind = "adjustment"
    BY <1>8, <1>9
<1>15. TicketOK(e)'
    <2>1. Claimed(e)' BY <1>7 DEF Claimed
    <2>2. ticketRows'[e][1].kind = "walkin" /\ ticketRows'[e][1].kg = ticket.kg BY <1>9, <1>10
    <2> QED BY <1>1, <1>7, <1>9, <1>11, <1>12, <1>13, <1>14, <2>1, <2>2 DEF TicketOK, AddsUpTo
<1>16. \A x \in Events : TicketOK(x)'
    BY <1>1, <1>3, <1>6, <1>15, OtherTickets
<1>17. ASSUME NEW q \in Procs \ {p}, ReadsStand(call[q])
      PROVE  ReadsStand(call[q])'
    <2>1. call'[q] = call[q] BY <1>1 DEF Finish, Inv, TypeInv, TypeOK
    <2>2. call[q].at \in Claiming \cup Reconciling => call[q].e \in Events
        BY DEF ArgsOK, HasEvent, Inv, TypeInv, CallsOK
    <2>3. call[q].at = "settleClaim" => call[q].e # e
        BY <1>0 DEF SettleClaim, At, Reconciling, Inv, TicketInv, OneReconciler
    <2> QED
        BY <1>1, <1>6, <1>7, <1>17, <2>1, <2>2, <2>3
        DEF ReadsStand, TicketOwesSettlement, Claiming, Reconciling
<1> QED BY <1>1, <1>16, <1>17, FinishReads DEF TicketInv

LEMMA InvInit == Init => Inv
BY TypeInit, TicketInit DEF Inv

LEMMA InvStep == Inv /\ [Next]_vars => Inv'
<1> SUFFICES ASSUME Inv, [Next]_vars
             PROVE  TicketInv'
    BY TypeStep DEF Inv
<1>1. CASE UNCHANGED vars
    BY <1>1 DEF vars, Inv, TicketInv, TicketOK, Claimed, ReadsStand, TicketOwesSettlement, OneReconciler
<1>2. ASSUME NEW p \in Procs, Start(p)
      PROVE  TicketInv'
    BY <1>2, StartTickets, ReweighTickets DEF Start
<1>3. ASSUME NEW p \in Procs, Continue(p)
      PROVE  TicketInv'
    BY <1>3, ReadTickets, IngestSaveTickets, ClaimInsertTickets, WalkInCommitTickets,
       SettleClaimTickets
    DEF Continue
<1>4. ASSUME NEW p \in Procs, Crash(p)
      PROVE  TicketInv'
    BY <1>4, ReadTickets
<1> QED BY <1>1, <1>2, <1>3, <1>4 DEF Next

LEMMA InvHolds == Spec => []Inv
BY InvInit, InvStep, PTL DEF Spec

-----------------------------------------------------------------------------
(* The theorems                                                            *)

\* However many phones scan one QR at once, its weigh-in is credited to one of them,
\* once, for the weight the ticket records, and corrected at most once.
THEOREM TicketPaid == Spec => []TicketPaidOnce
<1>1. Inv => TicketPaidOnce
    <2> SUFFICES ASSUME Inv, NEW e \in Events, Claimed(e)
                 PROVE  /\ Len(ticketRows[e]) \in {1, 2}
                        /\ ticketRows[e][1].kind = "walkin"
                        /\ ticketRows[e][1].kg = claims[e].kg
                        /\ \A i \in 1..Len(ticketRows[e]) : ticketRows[e][i].to = claims[e].by
                        /\ Len(ticketRows[e]) = 2
                              => ticketRows[e][2].kind = "adjustment" /\ claims[e].reconciled
        BY DEF TicketPaidOnce, Inv, TicketInv, TicketOK, Claimed
    <2>1. TicketOK(e) BY DEF Inv, TicketInv
    <2>2. Len(ticketRows[e]) \in {1, 2} BY <2>1 DEF TicketOK, AddsUpTo
    <2>3. \A i \in 1..Len(ticketRows[e]) : ticketRows[e][i].to = claims[e].by
        BY <2>1 DEF TicketOK
    <2>4. Len(ticketRows[e]) = 2 => claims[e].reconciled
        BY <2>1, Claimed(e) DEF TicketOK
    <2> QED BY <2>1, <2>2, <2>3, <2>4 DEF TicketOK
<1> QED BY <1>1, InvHolds, PTL

\* A ticket marked as reconciled has been credited the hub's weight exactly.
THEOREM TicketExact == Spec => []ReconciledTicketIsExact
<1>1. Inv => ReconciledTicketIsExact
    BY DEF ReconciledTicketIsExact, Inv, TicketInv, TicketOK, Claimed
<1> QED BY <1>1, InvHolds, PTL

\* No wallet is ever credited with a quarantined walk-in.
THEOREM TicketClean == Spec => []QuarantinedTicketUnpaid
<1>1. Inv => QuarantinedTicketUnpaid
    BY DEF QuarantinedTicketUnpaid, Inv, TicketInv, TicketOK
<1> QED BY <1>1, InvHolds, PTL

-----------------------------------------------------------------------------
(* Claiming, re-weighing and reconciling implement CreditOnce              *)

ticketEntries == [e \in Events |-> Amounts(ticketRows[e])]

LEMMA AmountsOfOne == 
    /\ Amounts(<<>>) = <<>>
    /\ \A row : Amounts(<<row>>) = <<row.kg>>
BY DEF Amounts

LEMMA AmountsAppend ==
    ASSUME NEW rows \in Seq(Entry), NEW row \in Entry
    PROVE  Amounts(Append(rows, row)) = Append(Amounts(rows), row.kg)
BY AppendProperties DEF Amounts, Entry

LEMMA PayStep ==
    ASSUME Inv, NEW p \in Procs, WalkInCommit(p)
    PROVE  [Tickets!Next]_Tickets!vars
<1>1. reweighs' = reweighs BY DEF WalkInCommit
<1>2. CASE UNCHANGED <<claims, ticketRows>> BY <1>1, <1>2 DEF Tickets!vars
<1>3. CASE WalkInPaid(p)
    <2>1. PICK e \in Events, kg \in Weights : e = call[p].e /\ kg = call[p].kg
        BY <1>3 DEF WalkInPaid
    <2>2. kg = ScaleKg[e] \/ kg = reweighs[e] BY <1>3, <2>1 DEF WalkInPaid
    <2>3. Amounts(ticketRows[e]) = <<>> /\ Amounts(ticketRows'[e]) = <<kg>>
        <3>1. ticketRows[e] = <<>> /\ ticketRows'[e] = <<WalkInCredit(call[p])>>
            BY <1>3, <2>1 DEF WalkInPaid, Inv, TypeInv, TypeOK
        <3>2. WalkInCredit(call[p]).kg = kg BY <2>1 DEF WalkInCredit
        <3> QED BY <3>1, <3>2, AmountsOfOne
    <2>4. \A x \in Events \ {e} : ticketRows'[x] = ticketRows[x]
        BY <1>3, <2>1 DEF WalkInPaid, Inv, TypeInv, TypeOK
    <2>5. ticketEntries' = [ticketEntries EXCEPT ![e] = <<kg>>]
        BY <2>3, <2>4 DEF ticketEntries
    <2>6. Tickets!Pay(e, kg)
        BY <1>1, <2>2, <2>3, <2>5 DEF Tickets!Pay, ticketEntries
    <2> QED BY <2>1, <2>6 DEF Tickets!Next
<1> QED BY <1>2, <1>3, WalkInCommitPays

LEMMA CorrectStep ==
    ASSUME Inv, NEW p \in Procs, SettleClaim(p)
    PROVE  [Tickets!Next]_Tickets!vars
<1>1. reweighs' = reweighs BY DEF SettleClaim
<1>2. TicketSettled(p) BY SettleClaimSettles
<1>3. PICK e \in Events : e = call[p].e BY <1>2 DEF TicketSettled
<1> DEFINE rows == ticketRows[e]
           to == claims[e].by
           delta == reweighs[e] - claims[e].kg
           row == [kind |-> "adjustment", event |-> e, code |-> None, to |-> to, kg |-> delta]
<1>4. rows \in Seq(Entry) /\ to \in Requesters /\ delta \in Int /\ reweighs[e] \in Int
    BY <1>2, <1>3, PickupAssumption DEF TicketSettled, Claimed, Inv, TypeInv, TypeOK, ClaimsOK, Paid
<1>5. row \in Entry /\ row.kg = delta BY <1>4 DEF Entry
<1>6. Len(rows) = 1 /\ rows[1].kg = claims[e].kg /\ claims[e].kg \in Int
    BY <1>2, <1>3, PickupAssumption DEF TicketSettled
<1>7. \A x \in Events : ticketRows'[x] = IF x = e /\ delta # 0 THEN Append(rows, row) ELSE ticketRows[x]
    BY <1>2, <1>3 DEF TicketSettled, Settled, Inv, TypeInv, TypeOK
<1>8. CASE delta = 0
    BY <1>1, <1>7, <1>8 DEF Tickets!vars
<1>9. CASE delta # 0
    <2>1. Len(Amounts(rows)) = 1 /\ Amounts(rows)[1] = claims[e].kg
        BY <1>6 DEF Amounts
    <2>2. Amounts(ticketRows'[e]) = Append(Amounts(rows), delta)
        BY <1>4, <1>5, <1>7, <1>9, AmountsAppend
    <2>3. ticketEntries' = [ticketEntries EXCEPT ![e] = Append(@, delta)]
        BY <1>7, <2>2 DEF ticketEntries
    <2>4. reweighs[e] # None BY <1>2, <1>3, PickupAssumption DEF TicketSettled
    <2>5. claims[e].kg # reweighs[e] BY <1>9, <1>4, <1>6
    <2>6. Tickets!Correct(e)
        BY <1>1, <2>1, <2>3, <2>4, <2>5 DEF Tickets!Correct, ticketEntries
    <2> QED BY <2>6 DEF Tickets!Next
<1> QED BY <1>8, <1>9

\* Every step of every handler is one of the ledger's promises kept, or none of its business.
THEOREM TicketRefinement == Spec => TicketsImplementCreditOnce
<1>1. Init => Tickets!Init
    BY AmountsOfOne DEF Init, Tickets!Init
<1>2. Inv /\ [Next]_vars => [Tickets!Next]_Tickets!vars
    <2> SUFFICES ASSUME Inv, [Next]_vars
                 PROVE  [Tickets!Next]_Tickets!vars
        OBVIOUS
    <2> USE DEF Tickets!vars
    <2>1. CASE UNCHANGED vars BY <2>1 DEF vars
    <2>2. ASSUME NEW p \in Procs, NEW e \in Events, NEW kg \in Weights, Reweigh(p, e, kg)
          PROVE  Tickets!Verify(e, kg)
        BY <2>2 DEF Reweigh, Unweighed, Tickets!Verify
    <2>3. ASSUME NEW p \in Procs, Start(p)
          PROVE  \/ \E e \in Events, kg \in Weights : Tickets!Verify(e, kg)
                 \/ UNCHANGED <<reweighs, ticketRows>>
        BY <2>2, <2>3
        DEF Start, Create, Assign, Cancel, Redeem, Collect, Fulfill, Submit, ClaimWalkIn, tables
    <2>4. ASSUME NEW p \in Procs, Continue(p), ~ WalkInCommit(p), ~ SettleClaim(p)
          PROVE  UNCHANGED <<reweighs, ticketRows>>
        BY <2>4
        DEF Continue, SaveReload, SaveWrite, IngestRead, IngestRaced, ClaimRead, ClaimInsert,
            IngestSave, FulfillLinked, FulfillClaim, FulfillReweigh, IssueCode, IssueRaced,
            RedeemWeigh, RedeemCommit, WalkInLinked, WalkInWeigh, ReconcileRequest, ReconcileClaim,
            SettleRequest, tables
    <2>5. ASSUME NEW p \in Procs, Crash(p)
          PROVE  UNCHANGED <<reweighs, ticketRows>>
        BY <2>5 DEF Crash, tables
    <2> QED BY <2>1, <2>3, <2>4, <2>5, PayStep, CorrectStep DEF Next, Tickets!Next
<1> QED BY <1>1, <1>2, InvHolds, PTL DEF Spec, TicketsImplementCreditOnce, Tickets!Spec

-----------------------------------------------------------------------------
(* What a re-weigh corrects                                                 *)

Uncorrected(e) ==
    /\ Corrections(ticketRows[e], e) = {}
    /\ \A r \in Requests : Corrections(pickupRows[r], e) = {}

\* Nothing is corrected before the re-weigh, nor before the call that reconciles it
\* has settled.
CorrectionInv ==
    /\ OneCorrectionPerWeighIn
    /\ \A e \in Events : reweighs[e] = None => Uncorrected(e)
    /\ \A p \in Procs : call[p].at \in Reconciling => Uncorrected(call[p].e)

\* The ledger's rows after one more, or after none.
LEMMA RowsAfter ==
    ASSUME NEW rows \in Seq(Entry), NEW row \in Entry
    PROVE  /\ Append(rows, row) \in Seq(Entry)
           /\ \A i \in 1..Len(Append(rows, row)) :
                \/ i \in 1..Len(rows) /\ Append(rows, row)[i] = rows[i]
                \/ i = Len(rows) + 1 /\ Append(rows, row)[i] = row
           /\ \A i \in 1..Len(rows) : i \in 1..Len(Append(rows, row))
                                        /\ Append(rows, row)[i] = rows[i]
BY AppendProperties

-----------------------------------------------------------------------------
(* One correction per weigh-in                                             *)

corrected == <<reweighs, pickupRows, ticketRows>>

\* A call that goes on, answers or begins where there is nothing to reconcile, and
\* corrects nothing.
LEMMA CorrectionsStand ==
    ASSUME TypeInv, CorrectionInv, NEW p \in Procs, NEW c, call' = [call EXCEPT ![p] = c],
           c.at \in Reconciling => call[p].at \in Reconciling /\ c.e = call[p].e,
           reweighs' = reweighs,
           \A e \in Events : Corrections(ticketRows'[e], e) = Corrections(ticketRows[e], e),
           \A r \in Requests, e \in Events :
               Corrections(pickupRows'[r], e) = Corrections(pickupRows[r], e)
    PROVE  CorrectionInv'
<1>1. \A q \in Procs : call'[q] = IF q = p THEN c ELSE call[q] BY DEF TypeInv, TypeOK
<1>2. \A e \in Events : Uncorrected(e) => Uncorrected(e)' BY DEF Uncorrected
<1>3. \A e \in Events : reweighs'[e] = None => Uncorrected(e)'
    BY <1>2 DEF CorrectionInv
<1>4. ASSUME NEW q \in Procs, call'[q].at \in Reconciling
      PROVE  Uncorrected(call[q].e)'
    <2>1. call[q].at \in Reconciling /\ call'[q].e = call[q].e BY <1>1, <1>4
    <2>2. PICK e \in Events : e = call[q].e BY <2>1 DEF TypeInv, CallsOK, ArgsOK, HasEvent
    <2>3. Uncorrected(e) BY <2>1, <2>2 DEF CorrectionInv
    <2>4. Uncorrected(e)' BY <1>2, <2>3
    <2> QED BY <2>1, <2>2, <2>4 DEF Uncorrected
<1>5. OneCorrectionPerWeighIn'
    <2>1. ASSUME NEW e \in Events
          PROVE  \A i, j \in Corrections(ticketRows'[e], e) : i = j
        BY DEF CorrectionInv, OneCorrectionPerWeighIn
    <2>2. ASSUME NEW e \in Events, NEW r \in Requests
          PROVE  /\ \A i, j \in Corrections(pickupRows'[r], e) : i = j
                 /\ Corrections(pickupRows'[r], e) # {} =>
                       /\ Corrections(ticketRows'[e], e) = {}
                       /\ \A s \in Requests \ {r} : Corrections(pickupRows'[s], e) = {}
        <3>1. /\ \A i, j \in Corrections(pickupRows[r], e) : i = j
              /\ Corrections(pickupRows[r], e) # {} =>
                    /\ Corrections(ticketRows[e], e) = {}
                    /\ \A s \in Requests \ {r} : Corrections(pickupRows[s], e) = {}
            BY DEF CorrectionInv, OneCorrectionPerWeighIn
        <3> QED BY <3>1
    <2> QED BY <2>1, <2>2 DEF OneCorrectionPerWeighIn
<1> QED BY <1>3, <1>4, <1>5 DEF CorrectionInv

\* A row that is no correction.
LEMMA NoCorrection ==
    ASSUME NEW rows \in Seq(Entry), NEW row \in Entry, row.kind # "adjustment", NEW e
    PROVE  Corrections(Append(rows, row), e) = Corrections(rows, e)
<1> DEFINE new == Append(rows, row)
<1>1. \A i \in 1..Len(new) : (i \in 1..Len(rows) /\ new[i] = rows[i]) \/ new[i] = row
    BY RowsAfter
<1>2. \A i \in 1..Len(rows) : i \in 1..Len(new) /\ new[i] = rows[i] BY RowsAfter
<1> HIDE DEF new
<1> QED BY <1>1, <1>2 DEF Corrections

\* The calls that write neither a correction nor a re-weigh.
LEMMA OthersCorrectNothing ==
    ASSUME TypeInv, CorrectionInv, NEW p \in Procs,
           \/ \E r \in Requests : Create(p, r)
           \/ \E r \in Requests, c \in Collectors : Assign(p, r, c)
           \/ \E r \in Requests : Cancel(p, r) \/ Redeem(p, r)
           \/ \E r \in Requests, e \in Events : Collect(p, r, e) \/ Fulfill(p, r, e)
           \/ \E e \in Events : Submit(p, e)
           \/ \E e \in Events, q \in Requesters : ClaimWalkIn(p, e, q)
           \/ SaveReload(p) \/ SaveWrite(p) \/ IngestRead(p) \/ IngestRaced(p) \/ ClaimRead(p)
           \/ ClaimInsert(p) \/ \E verdict \in {"clean", "quarantined"} : IngestSave(p, verdict)
           \/ FulfillLinked(p) \/ FulfillClaim(p) \/ FulfillReweigh(p) \/ IssueCode(p) \/ IssueRaced(p)
           \/ RedeemWeigh(p) \/ WalkInLinked(p) \/ WalkInWeigh(p)
           \/ ReconcileRequest(p) \/ ReconcileClaim(p) \/ Crash(p)
    PROVE  CorrectionInv'
<1>0. call[p] \in Call BY DEF TypeInv, TypeOK
<1>1. UNCHANGED corrected
    BY DEF corrected, tables, Create, Assign, Cancel, Redeem, Collect, Fulfill, Submit, ClaimWalkIn,
       SaveReload, SaveWrite, IngestRead, IngestRaced, ClaimRead, ClaimInsert, IngestSave,
       FulfillLinked, FulfillClaim, FulfillReweigh, IssueCode, IssueRaced, RedeemWeigh, WalkInLinked,
       WalkInWeigh, ReconcileRequest, ReconcileClaim, Crash
<1>2. ASSUME NEW c, call' = [call EXCEPT ![p] = c],
             c.at \in Reconciling => call[p].at \in Reconciling /\ c.e = call[p].e
      PROVE  CorrectionInv'
    BY <1>1, <1>2, CorrectionsStand DEF corrected
<1>3. CASE Finish(p) BY <1>2, <1>3, IdleReads DEF Finish
<1>4. ASSUME NEW phase, Goto(p, phase), phase \in Reconciling => call[p].at \in Reconciling
      PROVE  CorrectionInv'
    <2> DEFINE c == [call[p] EXCEPT !.at = phase]
    <2>1. c.at = phase /\ c.e = call[p].e BY <1>0 DEF Call
    <2>2. call' = [call EXCEPT ![p] = c] BY <1>4 DEF Goto
    <2> HIDE DEF c
    <2> QED BY <1>2, <1>4, <2>1, <2>2
<1> USE DEF Reconciling, At
<1>5. CASE \/ \E r \in Requests : Create(p, r)
           \/ \E r \in Requests, c \in Collectors : Assign(p, r, c)
           \/ \E r \in Requests : Cancel(p, r) \/ Redeem(p, r)
           \/ \E r \in Requests, e \in Events : Collect(p, r, e) \/ Fulfill(p, r, e)
           \/ \E e \in Events : Submit(p, e)
           \/ \E e \in Events, q \in Requesters : ClaimWalkIn(p, e, q)
    <2>1. ASSUME NEW r \in Requests, Create(p, r)
          PROVE  CorrectionInv'
        <3>1. call' = [call EXCEPT ![p] = call[p]] BY <2>1 DEF Create, TypeInv, TypeOK
        <3> QED BY <1>2, <3>1
    <2>2. ASSUME NEW c, Begin(p, c), c.at \notin Reconciling
          PROVE  CorrectionInv'
        BY <1>2, <2>2 DEF Begin
    <2> QED BY <1>5, <2>1, <2>2
            DEF Assign, Cancel, Redeem, Collect, Fulfill, Submit, ClaimWalkIn, Idle
<1>6. CASE \/ SaveWrite(p) \/ IngestRead(p) \/ IngestRaced(p) \/ ClaimRead(p)
           \/ ClaimInsert(p) \/ \E verdict \in {"clean", "quarantined"} : IngestSave(p, verdict)
           \/ FulfillLinked(p) \/ FulfillClaim(p) \/ FulfillReweigh(p) \/ IssueCode(p)
           \/ WalkInLinked(p) \/ ReconcileClaim(p) \/ Crash(p)
    BY <1>3, <1>4, <1>6
    DEF SaveWrite, IngestRead, IngestRaced, ClaimRead, ClaimInsert, IngestSave, FulfillLinked,
        FulfillClaim, FulfillReweigh, IssueCode, WalkInLinked, ReconcileClaim, Crash
<1>7. CASE SaveReload(p)
    <2> DEFINE c == [call[p] EXCEPT !.at = "write", !.base = reqs[call[p].r]]
    <2>1. c.at = "write" BY <1>0 DEF Call
    <2>2. call' = [call EXCEPT ![p] = c] BY <1>7 DEF SaveReload
    <2> HIDE DEF c
    <2> QED BY <1>2, <2>1, <2>2
<1>8. CASE RedeemWeigh(p)
    <2> DEFINE e == call[p].row.event
               c == [call[p] EXCEPT !.at = "redeemCommit", !.e = e, !.kg = BestKg(e),
                                    !.verified = HasReweigh(e)]
    <2>1. c.at = "redeemCommit" BY <1>0 DEF Call
    <2>2. call' = [call EXCEPT ![p] = c] \/ Finish(p) BY <1>8 DEF RedeemWeigh
    <2> HIDE DEF c
    <2> QED BY <1>2, <1>3, <2>1, <2>2
<1>9. CASE WalkInWeigh(p)
    <2> DEFINE e == call[p].e
               c == [call[p] EXCEPT !.at = "walkinCommit", !.kg = BestKg(e),
                                    !.verified = HasReweigh(e)]
    <2>1. c.at = "walkinCommit" BY <1>0 DEF Call
    <2>2. call' = [call EXCEPT ![p] = c] BY <1>9 DEF WalkInWeigh
    <2> HIDE DEF c
    <2> QED BY <1>2, <2>1, <2>2
<1>10. CASE ReconcileRequest(p)
    <2>1. ASSUME NEW r,
                 call' = [call EXCEPT ![p] = [call[p] EXCEPT !.at = "settleRequest", !.r = r,
                                                             !.row = reqs[r]]]
          PROVE  CorrectionInv'
        <3> DEFINE c == [call[p] EXCEPT !.at = "settleRequest", !.r = r, !.row = reqs[r]]
        <3>1. c.at = "settleRequest" /\ c.e = call[p].e BY <1>0 DEF Call
        <3>2. call' = [call EXCEPT ![p] = c] BY <2>1
        <3> HIDE DEF c
        <3> QED BY <1>2, <1>10, <3>1, <3>2 DEF ReconcileRequest
    <2> QED BY <1>3, <1>4, <1>10, <2>1 DEF ReconcileRequest
<1>11. CASE IssueRaced(p)
    <2>1. PICK c : c = [call[p] EXCEPT !.at = "issue", !.draws = @ + 1] OBVIOUS
    <2>2. c.at = "issue" BY <1>0, <2>1, RedrawHolds
    <2>3. call' = [call EXCEPT ![p] = c] \/ Finish(p) BY <1>11, <2>1 DEF IssueRaced
    <2> QED BY <1>2, <1>3, <2>2, <2>3
<1> QED BY <1>5, <1>6, <1>7, <1>8, <1>9, <1>10, <1>11

\* A credit is no correction.
LEMMA CreditsCorrectNothing ==
    ASSUME TypeInv, CorrectionInv, NEW p \in Procs, RedeemCommit(p) \/ WalkInCommit(p)
    PROVE  CorrectionInv'
<1> DEFINE c == call[p]
<1>0. c \in Call /\ ArgsOK(c) /\ Weights \subseteq Int BY PickupAssumption DEF TypeInv, CallsOK
<1>1. call' = [call EXCEPT ![p] = Idle] /\ reweighs' = reweighs
    BY DEF RedeemCommit, WalkInCommit, Finish
<1>2. CASE RedeemCommit(p)
    <2>1. PICK r \in Requests : r = c.r BY <1>0, <1>2 DEF RedeemCommit, At, ArgsOK, HasRequest, Redeeming
    <2>2. c.e \in Events /\ c.who \in Requesters /\ c.kg \in Int
        BY <1>0, <1>2 DEF RedeemCommit, At, ArgsOK, HasEvent, HasCaller, HasWeight, Redeeming
    <2>3. PickupCredit(c) \in Entry /\ PickupCredit(c).kind # "adjustment"
        BY <1>0, <2>2 DEF PickupCredit, Entry, Call, Request
    <2>4. \A s \in Requests : pickupRows[s] \in Seq(Entry) BY DEF TypeInv, TypeOK
    <2>5. \A s \in Requests :
            pickupRows'[s] = IF s = r THEN Append(pickupRows[s], PickupCredit(c)) ELSE pickupRows[s]
        BY <1>2, <2>1 DEF RedeemCommit, TypeInv, TypeOK
    <2>6. \A s \in Requests, e \in Events :
            Corrections(pickupRows'[s], e) = Corrections(pickupRows[s], e)
        BY <2>3, <2>4, <2>5, NoCorrection
    <2>7. ticketRows' = ticketRows BY <1>2 DEF RedeemCommit
    <2> QED BY <1>1, <2>6, <2>7, IdleReads, CorrectionsStand
<1>3. CASE WalkInCommit(p)
    <2>1. c.e \in Events /\ c.who \in Requesters /\ c.kg \in Int
        BY <1>0, <1>3 DEF WalkInCommit, At, ArgsOK, HasEvent, HasCaller, HasWeight, Claiming
    <2>2. WalkInCredit(c) \in Entry /\ WalkInCredit(c).kind # "adjustment"
        BY <2>1 DEF WalkInCredit, Entry
    <2>3. \A e \in Events : ticketRows[e] \in Seq(Entry) BY DEF TypeInv, TypeOK
    <2>4. \A e \in Events : \/ ticketRows'[e] = Append(ticketRows[e], WalkInCredit(c))
                            \/ ticketRows'[e] = ticketRows[e]
        BY <1>3 DEF WalkInCommit, TypeInv, TypeOK
    <2>5. \A e \in Events : Corrections(ticketRows'[e], e) = Corrections(ticketRows[e], e)
        BY <2>2, <2>3, <2>4, NoCorrection
    <2>6. pickupRows' = pickupRows BY <1>3 DEF WalkInCommit
    <2> QED BY <1>1, <2>5, <2>6, IdleReads, CorrectionsStand
<1> QED BY <1>2, <1>3

\* A weigh-in that is re-weighed has not been corrected yet.
LEMMA ReweighCorrectsNothing ==
    ASSUME TypeInv, CorrectionInv, NEW p \in Procs, NEW e \in Events, NEW kg \in Weights,
           Reweigh(p, e, kg)
    PROVE  CorrectionInv'
<1> DEFINE c == [Idle EXCEPT !.at = "reconcile", !.e = e, !.kg = kg]
<1>1. c.e = e BY DEF Idle
<1>2. \A q \in Procs : call'[q] = IF q = p THEN c ELSE call[q]
    BY DEF Reweigh, Begin, TypeInv, TypeOK
<1> HIDE DEF c
<1>3. pickupRows' = pickupRows /\ ticketRows' = ticketRows BY DEF Reweigh
<1>4. Uncorrected(e) BY DEF Reweigh, Unweighed, CorrectionInv
<1>5. \A x \in Events : Uncorrected(x) => Uncorrected(x)' BY <1>3 DEF Uncorrected
<1>6. \A x \in Events : reweighs'[x] = None => Uncorrected(x)'
    BY <1>4, <1>5 DEF CorrectionInv, Reweigh, TypeInv, TypeOK
<1>7. ASSUME NEW q \in Procs, call'[q].at \in Reconciling
      PROVE  Uncorrected(call[q].e)'
    <2>1. CASE q = p BY <1>1, <1>2, <1>4, <1>5, <2>1 DEF Uncorrected
    <2>2. CASE q # p
        <3>1. call'[q] = call[q] /\ call[q].at \in Reconciling BY <1>2, <1>7, <2>2
        <3>2. PICK x \in Events : x = call[q].e BY <3>1 DEF TypeInv, CallsOK, ArgsOK, HasEvent
        <3>3. Uncorrected(x)' BY <1>5, <3>1, <3>2 DEF CorrectionInv
        <3> QED BY <3>1, <3>2, <3>3 DEF Uncorrected
    <2> QED BY <2>1, <2>2
<1>8. OneCorrectionPerWeighIn' BY <1>3 DEF CorrectionInv, OneCorrectionPerWeighIn
<1> QED BY <1>6, <1>7, <1>8 DEF CorrectionInv

\* The row that settles one weigh-in corrects that one only.
LEMMA SettledCorrects ==
    ASSUME NEW rows \in Seq(Entry), NEW e \in Events, NEW to \in Requesters, NEW delta \in Int
    PROVE  LET new == Settled(rows, e, to, delta)
           IN /\ \A x \in Events \ {e} : Corrections(new, x) = Corrections(rows, x)
              /\ Corrections(rows, e) = {} => \A i, j \in Corrections(new, e) : i = j
<1> DEFINE row == [kind |-> "adjustment", event |-> e, code |-> None, to |-> to, kg |-> delta]
           new == Append(rows, row)
<1>1. row \in Entry /\ row.event = e BY DEF Entry
<1>2. Settled(rows, e, to, delta) = IF delta = 0 THEN rows ELSE new BY DEF Settled
<1> HIDE DEF row
<1>3. \A i \in 1..Len(new) : \/ i \in 1..Len(rows) /\ new[i] = rows[i]
                             \/ i = Len(rows) + 1 /\ new[i] = row
    BY <1>1, RowsAfter
<1>4. \A i \in 1..Len(rows) : i \in 1..Len(new) /\ new[i] = rows[i] BY <1>1, RowsAfter
<1> HIDE DEF new
<1>5. \A x \in Events \ {e} : Corrections(new, x) = Corrections(rows, x)
    BY <1>1, <1>3, <1>4 DEF Corrections
<1>6. Corrections(rows, e) = {} => \A i \in Corrections(new, e) : i = Len(rows) + 1
    BY <1>3 DEF Corrections
<1>7. Corrections(rows, e) = {} => \A i, j \in Corrections(rows, e) : i = j OBVIOUS
<1>8. CASE delta = 0 BY <1>2, <1>7, <1>8
<1>9. CASE delta # 0 BY <1>2, <1>5, <1>6, <1>9
<1> QED BY <1>8, <1>9

\* The one call that reconciles a weigh-in writes its one correction, and is done.
LEMMA SettlingCorrectsOnce ==
    ASSUME Inv, CorrectionInv, NEW p \in Procs, SettleRequest(p) \/ SettleClaim(p)
    PROVE  CorrectionInv'
<1> DEFINE c == call[p]
<1>0. c \in Call /\ ArgsOK(c) /\ ReadsStand(c) /\ c.at \in Reconciling /\ Weights \subseteq Int
    BY PickupAssumption
    DEF Inv, TypeInv, CallsOK, TicketInv, SettleRequest, SettleClaim, At, Reconciling
<1>1. PICK e \in Events : e = c.e BY <1>0 DEF ArgsOK, HasEvent
<1>2. c.kg \in Int /\ c.kg \in Weights /\ reweighs[e] = c.kg
    BY <1>0, <1>1 DEF ArgsOK, HasWeight, ReadsStand
<1>3. reweighs[e] # None BY <1>2, PickupAssumption
<1>4. Uncorrected(e) BY <1>0, <1>1 DEF CorrectionInv
<1>5. \A q \in Procs : call'[q] = IF q = p THEN Idle ELSE call[q]
    BY DEF SettleRequest, SettleClaim, Finish, Inv, TypeInv, TypeOK
<1>6. reweighs' = reweighs BY DEF SettleRequest, SettleClaim
<1>7. ASSUME NEW q \in Procs, call'[q].at \in Reconciling
      PROVE  call'[q] = call[q] /\ call[q].at \in Reconciling /\ call[q].e # e
    BY <1>0, <1>1, <1>5, <1>7, IdleReads DEF Inv, TicketInv, OneReconciler
<1>8. \A s \in Requests : pickupRows[s] \in Seq(Entry) BY DEF Inv, TypeInv, TypeOK
<1>9. \A x \in Events : ticketRows[x] \in Seq(Entry) BY DEF Inv, TypeInv, TypeOK
\* Wherever the row went, the other weigh-ins' corrections are what they were, and
\* this one's are in one place.
<1>10. /\ \A x \in Events \ {e} : Corrections(ticketRows'[x], x) = Corrections(ticketRows[x], x)
       /\ \A s \in Requests, x \in Events \ {e} :
            Corrections(pickupRows'[s], x) = Corrections(pickupRows[s], x)
       /\ \A i, j \in Corrections(ticketRows'[e], e) : i = j
       /\ \A s \in Requests : \A i, j \in Corrections(pickupRows'[s], e) : i = j
       /\ \/ \A s \in Requests : Corrections(pickupRows'[s], e) = {}
          \/ /\ Corrections(ticketRows'[e], e) = {}
             /\ \E r \in Requests : \A s \in Requests \ {r} : Corrections(pickupRows'[s], e) = {}
    <2>1. CASE SettleRequest(p)
        <3>1. PICK r \in Requests : r = c.r BY <1>0, <2>1 DEF SettleRequest, At, ArgsOK, HasRequest
        <3>2. Booker[r] \in Requesters /\ c.row.kg \in Int
            BY <1>0, <2>1, PickupAssumption DEF SettleRequest, At, ArgsOK, HasWeight
        <3>3. Difference(c.kg, c.row.kg) \in Int BY <1>2, <3>2 DEF Difference
        <3>4. \A s \in Requests :
                pickupRows'[s] = IF s = r
                                 THEN Settled(pickupRows[r], e, Booker[r], Difference(c.kg, c.row.kg))
                                 ELSE pickupRows[s]
            BY <1>1, <2>1, <3>1 DEF SettleRequest, Inv, TypeInv, TypeOK
        <3>5. ticketRows' = ticketRows BY <2>1 DEF SettleRequest
        <3>6. \A s \in Requests, x \in Events \ {e} :
                Corrections(pickupRows'[s], x) = Corrections(pickupRows[s], x)
            BY <1>8, <3>2, <3>3, <3>4, SettledCorrects
        <3>7. \A i, j \in Corrections(pickupRows'[r], e) : i = j
            <4>1. Corrections(pickupRows[r], e) = {} BY <1>4 DEF Uncorrected
            <4>2. pickupRows'[r] = Settled(pickupRows[r], e, Booker[r], Difference(c.kg, c.row.kg))
                BY <3>4
            <4> HIDE DEF c
            <4> QED BY <1>8, <3>2, <3>3, <4>1, <4>2, SettledCorrects
        <3>8. \A s \in Requests \ {r} : Corrections(pickupRows'[s], e) = {}
            BY <1>4, <3>4 DEF Uncorrected
        <3> QED BY <1>4, <3>5, <3>6, <3>7, <3>8 DEF Uncorrected
    <2>2. CASE SettleClaim(p)
        <3>1. Paid(claims[e]) BY <1>1, <2>2 DEF SettleClaim, Inv, TypeInv, ClaimsOK
        <3>2. claims[e].by \in Requesters /\ claims[e].kg \in Int BY <1>0, <3>1 DEF Paid
        <3>3. Difference(c.kg, claims[e].kg) \in Int BY <1>2, <3>2 DEF Difference
        <3>4. \A x \in Events :
                ticketRows'[x] = IF x = e
                                 THEN Settled(ticketRows[e], e, claims[e].by,
                                              Difference(c.kg, claims[e].kg))
                                 ELSE ticketRows[x]
            BY <1>1, <2>2 DEF SettleClaim, Inv, TypeInv, TypeOK
        <3>5. pickupRows' = pickupRows BY <2>2 DEF SettleClaim
        <3>6. \A i, j \in Corrections(ticketRows'[e], e) : i = j
            BY <1>4, <1>9, <3>2, <3>3, <3>4, SettledCorrects DEF Uncorrected
        <3> QED BY <1>4, <3>4, <3>5, <3>6 DEF Uncorrected
    <2> QED BY <2>1, <2>2
<1>11. \A x \in Events \ {e} : Uncorrected(x) => Uncorrected(x)' BY <1>10 DEF Uncorrected
<1>12. \A x \in Events : reweighs'[x] = None => Uncorrected(x)'
    BY <1>3, <1>6, <1>11 DEF CorrectionInv
<1>13. ASSUME NEW q \in Procs, call'[q].at \in Reconciling
       PROVE  Uncorrected(call[q].e)'
    <2>1. PICK x \in Events : x = call[q].e
        BY <1>7, <1>13 DEF Inv, TypeInv, CallsOK, ArgsOK, HasEvent
    <2>2. Uncorrected(x)' BY <1>7, <1>11, <1>13, <2>1 DEF CorrectionInv
    <2> QED BY <1>7, <1>13, <2>1, <2>2 DEF Uncorrected
<1>14. OneCorrectionPerWeighIn'
    <2>1. ASSUME NEW x \in Events
          PROVE  \A i, j \in Corrections(ticketRows'[x], x) : i = j
        BY <1>10 DEF CorrectionInv, OneCorrectionPerWeighIn
    <2>2. ASSUME NEW x \in Events, NEW r \in Requests
          PROVE  /\ \A i, j \in Corrections(pickupRows'[r], x) : i = j
                 /\ Corrections(pickupRows'[r], x) # {} =>
                       /\ Corrections(ticketRows'[x], x) = {}
                       /\ \A s \in Requests \ {r} : Corrections(pickupRows'[s], x) = {}
        <3>1. CASE x = e BY <1>10, <3>1
        <3>2. CASE x # e
            <4>1. /\ \A i, j \in Corrections(pickupRows[r], x) : i = j
                  /\ Corrections(pickupRows[r], x) # {} =>
                        /\ Corrections(ticketRows[x], x) = {}
                        /\ \A s \in Requests \ {r} : Corrections(pickupRows[s], x) = {}
                BY DEF CorrectionInv, OneCorrectionPerWeighIn
            <4> QED BY <1>10, <3>2, <4>1
        <3> QED BY <3>1, <3>2
    <2> QED BY <2>1, <2>2 DEF OneCorrectionPerWeighIn
<1> QED BY <1>12, <1>13, <1>14 DEF CorrectionInv

LEMMA CorrectionInit == Init => CorrectionInv
<1> SUFFICES ASSUME Init PROVE CorrectionInv OBVIOUS
<1>1. \A e : Corrections(<<>>, e) = {} BY DEF Corrections
<1>2. \A p \in Procs : call[p] = Idle BY DEF Init
<1> QED BY <1>1, <1>2, IdleReads DEF Init, CorrectionInv, OneCorrectionPerWeighIn, Uncorrected

LEMMA CorrectionStep == Inv /\ CorrectionInv /\ [Next]_vars => CorrectionInv'
<1> SUFFICES ASSUME Inv, TypeInv, CorrectionInv, [Next]_vars
             PROVE  CorrectionInv'
    BY DEF Inv
<1>1. CASE UNCHANGED vars
    <2>1. UNCHANGED <<reweighs, pickupRows, ticketRows, call>> BY <1>1 DEF vars
    <2>2. OneCorrectionPerWeighIn' BY <2>1 DEF CorrectionInv, OneCorrectionPerWeighIn
    <2> QED BY <2>1, <2>2 DEF CorrectionInv, Uncorrected
<1>2. ASSUME NEW p \in Procs, Start(p)
      PROVE  CorrectionInv'
    BY <1>2, OthersCorrectNothing, ReweighCorrectsNothing DEF Start
<1>3. ASSUME NEW p \in Procs, Continue(p)
      PROVE  CorrectionInv'
    BY <1>3, OthersCorrectNothing, CreditsCorrectNothing, SettlingCorrectsOnce DEF Continue
<1>4. ASSUME NEW p \in Procs, Crash(p)
      PROVE  CorrectionInv'
    BY <1>4, OthersCorrectNothing
<1> QED BY <1>1, <1>2, <1>3, <1>4 DEF Next

\* However many calls race, a re-weigh corrects the ledger once, in one place.
THEOREM CorrectedOnce == Spec => []OneCorrectionPerWeighIn
<1>1. Init => Inv /\ CorrectionInv BY InvInit, CorrectionInit
<1>2. Inv /\ CorrectionInv /\ [Next]_vars => (Inv /\ CorrectionInv)' BY InvStep, CorrectionStep
<1>3. CorrectionInv => OneCorrectionPerWeighIn BY DEF CorrectionInv
<1> QED BY <1>1, <1>2, <1>3, PTL DEF Spec

-----------------------------------------------------------------------------
(* One call at a time                                                      *)

OneCall == \A p, q \in Procs : p = q

Linked(row) == row.status \in {"collected", "redeemed"}

\* What a request's row and its ledger say of each other.
RowOK(r) ==
    LET row == reqs[r]
        rows == pickupRows[r]
    IN /\ Linked(row) => row.event \in Events /\ row.code # None
       /\ ~ Linked(row) => row.event = None /\ row.code = None
       /\ row.status # "redeemed" => rows = <<>> /\ ~ row.reconciled
       /\ row.status = "redeemed" =>
            /\ row.kg \in Weights
            /\ rows[1].kind = "pickup" /\ rows[1].event = row.event /\ rows[1].kg = row.kg
            /\ rows[1].code = row.code
            /\ ~ row.reconciled => Len(rows) = 1
            /\ row.reconciled => reweighs[row.event] # None /\ AddsUpTo(rows, reweighs[row.event])
            /\ Len(rows) = 2 => rows[2].kind = "adjustment" /\ rows[2].event = row.event

\* No two requests have the same code.
CodesApart == \A r, s \in Requests : reqs[r].code # None /\ reqs[r].code = reqs[s].code => r = s

\* A weigh-in stands behind one request, or a claimed ticket, or neither; only those
\* sent with a claim code have a ticket.
LinkOK(e) ==
    /\ \A r, s \in LinkedTo(e) : r = s
    /\ Claimed(e) => LinkedTo(e) = {}
    /\ claims[e] # None => e \in Walkins

\* What a call has read still stands when it writes.
Stands(c) ==
    /\ c.at \in Saving =>
         /\ Open(c.r)
         /\ c.row.status \in {"assigned", "cancelled"}
         /\ c.row.event = None /\ c.row.code = None /\ ~ c.row.reconciled
    /\ c.at = "write" => c.base = reqs[c.r]
    /\ c.at \in Ingesting => IF c.r = None THEN c.e \in Walkins ELSE Open(c.r) /\ c.e \notin Walkins
    /\ c.at \in Ticketing => c.e \in Walkins
    /\ c.at \in Issuing => Open(c.r)
    /\ c.at \in {"reweighed", "issue", "raced"} => ~ Claimed(c.e)
    /\ c.at \in Redeeming => reqs[c.r].status = "collected" /\ c.row = reqs[c.r]
    /\ c.at = "redeemCommit" =>
         /\ c.e = reqs[c.r].event
         /\ c.verified = HasReweigh(c.e)
         /\ c.kg = IF c.verified THEN reweighs[c.e] ELSE ScaleKg[c.e]
    /\ c.at \in {"walkinWeigh", "walkinCommit"} => LinkedTo(c.e) = {}
    /\ c.at = "walkinCommit" => c.verified = HasReweigh(c.e)
    /\ c.at = "reconcileClaim" => LinkedTo(c.e) = {}
    /\ c.at = "settleRequest" =>
         c.row = reqs[c.r] /\ OwesSettlement(reqs[c.r]) /\ reqs[c.r].event = c.e

\* A re-weighed weigh-in was credited at the scale's weight.
Owed(e) ==
    /\ HasReweigh(e)
    /\ \/ TicketOwesSettlement(e)
       \/ \E r \in LinkedTo(e) : reqs[r].status = "redeemed" /\ ~ reqs[r].reconciled

\* Unless a call died, whatever is owed is being settled.
OwedIsUnderWay ==
    ~ died => \A e \in Events : Owed(e) =>
        \E p \in Procs : call[p].at \in Reconciling /\ call[p].e = e

SerialInv ==
    /\ \A r \in Requests : RowOK(r)
    /\ \A e \in Events : LinkOK(e)
    /\ CodesApart
    /\ \A p \in Procs : Stands(call[p])
    /\ OwedIsUnderWay

LEMMA SerialInit == MCInit => SerialInv
<1> SUFFICES ASSUME MCInit PROVE SerialInv OBVIOUS
<1>1. \A r \in Requests : reqs[r] = Unbooked /\ pickupRows[r] = <<>> BY DEF MCInit, Init
<1>2. \A e \in Events : claims[e] = None /\ reweighs[e] = None BY DEF MCInit, Init
<1>3. \A p \in Procs : call[p] = Idle BY DEF MCInit, Init
<1>4. \A e \in Events : LinkedTo(e) = {} BY <1>1, PickupAssumption DEF LinkedTo, Unbooked
<1>5. Stands(Idle)
    BY DEF Stands, Idle, Saving, Ingesting, Ticketing, Issuing, Redeeming, Claiming, Reconciling
<1>6. /\ Unbooked.status = "unbooked" /\ Unbooked.event = None /\ Unbooked.code = None
      /\ Unbooked.reconciled = FALSE
    BY DEF Unbooked
<1>7. \A r \in Requests : RowOK(r) BY <1>1, <1>6 DEF RowOK, Linked
<1>8. CodesApart BY <1>1, <1>6 DEF CodesApart
<1> QED BY <1>2, <1>3, <1>4, <1>5, <1>7, <1>8
        DEF SerialInv, LinkOK, Claimed, OwedIsUnderWay, Owed, HasReweigh

\* A step that issues no code.
LEMMA CodesStayApart ==
    ASSUME SerialInv, \A s \in Requests : reqs'[s].code = reqs[s].code
    PROVE  CodesApart'
BY DEF SerialInv, CodesApart

\* What the one call holds next.
LEMMA TheCall ==
    ASSUME OneCall, Inv, NEW p \in Procs, NEW c, call' = [call EXCEPT ![p] = c]
    PROVE  \A q \in Procs : call'[q] = c
BY DEF OneCall, Inv, TypeInv, TypeOK

\* A call that writes nothing, and does not walk away from what it settles.
LEMMA SerialReads ==
    ASSUME OneCall, Inv, SerialInv, NEW p \in Procs, NEW c, call' = [call EXCEPT ![p] = c],
           UNCHANGED tables, Stands(c),
           \/ died'
           \/ /\ died' = died
              /\ call[p].at \in Reconciling /\ Owed(call[p].e) =>
                     c.at \in Reconciling /\ c.e = call[p].e
    PROVE  SerialInv'
<1>1. \A q \in Procs : call'[q] = c BY TheCall
<1>2. /\ reqs' = reqs /\ pickupRows' = pickupRows /\ reweighs' = reweighs /\ claims' = claims
    BY DEF tables
<1>3. \A r \in Requests : RowOK(r)' BY <1>2 DEF SerialInv, RowOK
<1>4. \A e \in Events : LinkOK(e)' BY <1>2 DEF SerialInv, LinkOK, LinkedTo, Claimed
<1>5. Stands(c)'
    BY <1>2 DEF Stands, Open, LinkedTo, HasReweigh, Claimed
<1>6. \A q \in Procs : Stands(call[q])'
    BY <1>1, <1>5 DEF Stands, Open, LinkedTo, HasReweigh, Claimed
<1>7. \A e : Owed(e)' => Owed(e)
    BY <1>2 DEF Owed, LinkedTo, TicketOwesSettlement, HasReweigh
<1>8. OwedIsUnderWay'
    <2> SUFFICES ASSUME ~ died, died' = died, NEW e \in Events, Owed(e)
                 PROVE  c.at \in Reconciling /\ c.e = e
        BY <1>1, <1>7 DEF OwedIsUnderWay
    <2>1. PICK q \in Procs : call[q].at \in Reconciling /\ call[q].e = e
        BY DEF SerialInv, OwedIsUnderWay
    <2>2. q = p BY DEF OneCall
    <2> QED BY <2>1, <2>2
<1>9. CodesApart' BY <1>2, CodesStayApart
<1> QED BY <1>3, <1>4, <1>6, <1>8, <1>9 DEF SerialInv

LEMMA IdleStands == Stands(Idle)
BY DEF Stands, Idle, Saving, Ingesting, Ticketing, Issuing, Redeeming, Claiming, Reconciling

\* A call that answers with nothing left to settle, or dies.
LEMMA SerialFinish ==
    ASSUME OneCall, Inv, SerialInv, NEW p \in Procs, Finish(p), UNCHANGED tables,
           \/ died'
           \/ died' = died /\ (call[p].at \in Reconciling => ~ Owed(call[p].e))
    PROVE  SerialInv'
BY IdleStands, SerialReads DEF Finish

\* A call that goes on.
LEMMA SerialGoto ==
    ASSUME OneCall, Inv, SerialInv, NEW p \in Procs, NEW phase, Goto(p, phase), UNCHANGED <<tables, died>>,
           Stands([call[p] EXCEPT !.at = phase]),
           call[p].at \in Reconciling => phase \in Reconciling
    PROVE  SerialInv'
<1> DEFINE c == [call[p] EXCEPT !.at = phase]
<1>1. call[p] \in Call BY DEF Inv, TypeInv, TypeOK
<1>2. c.at = phase /\ c.e = call[p].e BY <1>1 DEF Call
<1>3. call' = [call EXCEPT ![p] = c] BY DEF Goto
<1>4. Stands(c) /\ tables' = tables /\ died' = died OBVIOUS
<1> HIDE DEF c
<1> QED BY <1>2, <1>3, <1>4, SerialReads

LEMMA SerialStarts ==
    ASSUME OneCall, Inv, SerialInv, NEW p \in Procs, died' = died,
           \/ \E r \in Requests, c \in Collectors : Assign(p, r, c)
           \/ \E r \in Requests : Cancel(p, r) \/ Redeem(p, r)
           \/ \E r \in Requests, e \in Events : Collect(p, r, e) \/ Fulfill(p, r, e)
           \/ \E e \in Events : Submit(p, e)
           \/ \E e \in Events, q \in Requesters : ClaimWalkIn(p, e, q)
    PROVE  SerialInv'
<1> USE DEF Begin, Idle, Saving, Ingesting, Ticketing, Issuing, Redeeming, Claiming
<1>0. \A r \in Requests : reqs[r] \in Request /\ RowOK(r) BY DEF Inv, TypeInv, TypeOK, SerialInv
<1>1. ASSUME NEW c, Begin(p, c), UNCHANGED tables, Stands(c)
      PROVE  SerialInv'
    BY <1>1, SerialReads DEF At, Reconciling
<1>2. ASSUME NEW r \in Requests, NEW k \in Collectors, Assign(p, r, k)
      PROVE  SerialInv'
    <2> DEFINE row == [reqs[r] EXCEPT !.status = "assigned", !.collector = k]
               c == [Idle EXCEPT !.at = "reload", !.r = r, !.row = row]
    <2>1. /\ row.status = "assigned" /\ row.event = reqs[r].event /\ row.code = reqs[r].code
          /\ row.reconciled = reqs[r].reconciled
        BY <1>0 DEF Request
    <2>2. reqs[r].status = "requested" BY <1>2 DEF Assign
    <2>3. row.event = None /\ row.code = None /\ ~ row.reconciled
        BY <1>0, <2>1, <2>2 DEF RowOK, Linked
    <2>4. c.at = "reload" /\ c.r = r /\ c.row = row OBVIOUS
    <2>5. Begin(p, c) /\ UNCHANGED tables BY <1>2 DEF Assign
    <2> HIDE DEF row, c
    <2>6. Stands(c) BY <2>1, <2>2, <2>3, <2>4 DEF Stands, Open
    <2> QED BY <1>1, <2>5, <2>6
<1>3. ASSUME NEW r \in Requests, Cancel(p, r)
      PROVE  SerialInv'
    <2> DEFINE row == [reqs[r] EXCEPT !.status = "cancelled"]
               c == [Idle EXCEPT !.at = "reload", !.r = r, !.row = row]
    <2>1. /\ row.status = "cancelled" /\ row.event = reqs[r].event /\ row.code = reqs[r].code
          /\ row.reconciled = reqs[r].reconciled
        BY <1>0 DEF Request
    <2>2. Open(r) BY <1>3 DEF Cancel
    <2>3. row.event = None /\ row.code = None /\ ~ row.reconciled
        BY <1>0, <2>1, <2>2 DEF RowOK, Linked, Open
    <2>4. c.at = "reload" /\ c.r = r /\ c.row = row OBVIOUS
    <2>5. Begin(p, c) /\ UNCHANGED tables BY <1>3 DEF Cancel
    <2> HIDE DEF row, c
    <2>6. Stands(c) BY <2>1, <2>2, <2>3, <2>4 DEF Stands
    <2> QED BY <1>1, <2>5, <2>6
<1>4. ASSUME NEW r \in Requests, Redeem(p, r)
      PROVE  SerialInv'
    <2> DEFINE c == [Idle EXCEPT !.at = "redeemWeigh", !.r = r, !.who = Booker[r], !.row = reqs[r]]
    <2>1. c.at = "redeemWeigh" /\ c.r = r /\ c.row = reqs[r] OBVIOUS
    <2>2. Begin(p, c) /\ UNCHANGED tables /\ reqs[r].status = "collected" BY <1>4 DEF Redeem
    <2> HIDE DEF c
    <2>3. Stands(c) BY <2>1, <2>2 DEF Stands
    <2> QED BY <1>1, <2>2, <2>3
<1>5. ASSUME NEW r \in Requests, NEW e \in Events, Collect(p, r, e)
      PROVE  SerialInv'
    <2> DEFINE c == [Idle EXCEPT !.at = "ingestRead", !.r = r, !.e = e]
    <2>1. c.at = "ingestRead" /\ c.r = r /\ c.e = e OBVIOUS
    <2>2. Begin(p, c) /\ UNCHANGED tables /\ Open(r) /\ e \notin Walkins
        BY <1>5 DEF Collect, MayCollect
    <2> HIDE DEF c
    <2>3. Stands(c) BY <2>1, <2>2, PickupAssumption DEF Stands
    <2> QED BY <1>1, <2>2, <2>3
<1>6. ASSUME NEW r \in Requests, NEW e \in Events, Fulfill(p, r, e)
      PROVE  SerialInv'
    <2> DEFINE c == [Idle EXCEPT !.at = "linked", !.r = r, !.e = e]
    <2>1. c.at = "linked" /\ c.r = r /\ c.e = e OBVIOUS
    <2>2. Begin(p, c) /\ UNCHANGED tables /\ Open(r) BY <1>6 DEF Fulfill
    <2> HIDE DEF c
    <2>3. Stands(c) BY <2>1, <2>2 DEF Stands
    <2> QED BY <1>1, <2>2, <2>3
<1>7. ASSUME NEW e \in Events, Submit(p, e)
      PROVE  SerialInv'
    <2> DEFINE c == [Idle EXCEPT !.at = "ingestRead", !.e = e]
    <2>1. c.at = "ingestRead" /\ c.r = None /\ c.e = e OBVIOUS
    <2>2. Begin(p, c) /\ UNCHANGED tables /\ e \in Walkins BY <1>7 DEF Submit
    <2> HIDE DEF c
    <2>3. Stands(c) BY <2>1, <2>2 DEF Stands
    <2> QED BY <1>1, <2>2, <2>3
<1>8. ASSUME NEW e \in Events, NEW q \in Requesters, ClaimWalkIn(p, e, q)
      PROVE  SerialInv'
    <2> DEFINE c == [Idle EXCEPT !.at = "walkinLinked", !.e = e, !.who = q]
    <2>1. c.at = "walkinLinked" OBVIOUS
    <2>2. Begin(p, c) /\ UNCHANGED tables BY <1>8 DEF ClaimWalkIn
    <2> HIDE DEF c
    <2>3. Stands(c) BY <2>1 DEF Stands
    <2> QED BY <1>1, <2>2, <2>3
<1> QED BY <1>2, <1>3, <1>4, <1>5, <1>6, <1>7, <1>8

\* What a handler holds in its next phase: a phase, and otherwise what it held.
LEMMA GotoHolds ==
    ASSUME NEW c \in Call, NEW phase
    PROVE  LET d == [c EXCEPT !.at = phase]
           IN /\ d.at = phase /\ d.r = c.r /\ d.e = c.e /\ d.row = c.row /\ d.base = c.base
              /\ d.kg = c.kg /\ d.verified = c.verified
BY DEF Call

LEMMA SerialReadsOnly ==
    ASSUME OneCall, Inv, SerialInv, NEW p \in Procs, died' = died,
           \/ SaveReload(p) \/ IngestRead(p) \/ IngestRaced(p) \/ ClaimRead(p)
           \/ FulfillLinked(p) \/ FulfillClaim(p) \/ FulfillReweigh(p) \/ IssueRaced(p)
           \/ RedeemWeigh(p) \/ WalkInLinked(p) \/ WalkInWeigh(p)
    PROVE  SerialInv'
<1> DEFINE c == call[p]
<1>0. c \in Call /\ ArgsOK(c) /\ Stands(c)
    BY DEF Inv, TypeInv, CallsOK, SerialInv
<1>1. ASSUME Finish(p), UNCHANGED tables, c.at \notin Reconciling
      PROVE  SerialInv'
    BY <1>1, SerialFinish
<1>2. ASSUME NEW phase, Goto(p, phase), UNCHANGED tables, Stands([c EXCEPT !.at = phase]),
             c.at \notin Reconciling
      PROVE  SerialInv'
    BY <1>2, SerialGoto
<1>3. ASSUME NEW d, call' = [call EXCEPT ![p] = d], UNCHANGED tables, Stands(d),
             c.at \notin Reconciling
      PROVE  SerialInv'
    BY <1>3, SerialReads
<1> HIDE DEF c
<1>c. c = call[p] BY DEF c
<1> USE DEF Reconciling, Saving, Ingesting, Ticketing, Issuing, Redeeming, Claiming
<1>4. CASE SaveReload(p)
    <2> DEFINE d == [c EXCEPT !.at = "write", !.base = reqs[c.r]]
    <2>1. c.at = "reload" /\ UNCHANGED tables /\ call' = [call EXCEPT ![p] = d]
        BY <1>4, <1>c DEF SaveReload, At
    <2>2. d.at = "write" /\ d.base = reqs[c.r] /\ d.r = c.r /\ d.row = c.row BY <1>0 DEF Call
    <2> HIDE DEF d
    <2>3. Stands(d) BY <1>0, <2>1, <2>2 DEF Stands
    <2> QED BY <1>3, <2>1, <2>3
<1>5. CASE IngestRead(p)
    <2>1. c.at = "ingestRead" /\ UNCHANGED tables BY <1>5, <1>c DEF IngestRead, At
    <2>2. CASE Finish(p) BY <1>1, <2>1, <2>2
    <2>3. CASE Goto(p, "ingestSave")
        <3>1. Stands([c EXCEPT !.at = "ingestSave"]) BY <1>0, <2>1, GotoHolds DEF Stands
        <3> QED BY <1>2, <2>1, <2>3, <3>1
    <2>4. CASE Goto(p, "claimRead") /\ ~ Doorstep(p)
        <3>1. Stands([c EXCEPT !.at = "claimRead"])
            BY <1>0, <1>c, <2>1, <2>4, GotoHolds DEF Stands, Doorstep
        <3> QED BY <1>2, <2>1, <2>4, <3>1
    <2> QED BY <1>5, <2>2, <2>3, <2>4 DEF IngestRead
<1>6. CASE IngestRaced(p)
    BY <1>1, <1>6, <1>c DEF IngestRaced, At
<1>7. CASE ClaimRead(p)
    <2>1. c.at = "claimRead" /\ UNCHANGED tables BY <1>7, <1>c DEF ClaimRead, At
    <2>2. Stands([c EXCEPT !.at = "claimInsert"]) BY <1>0, <2>1, GotoHolds DEF Stands
    <2> QED BY <1>1, <1>2, <1>7, <2>1, <2>2 DEF ClaimRead
<1>8. CASE FulfillLinked(p)
    <2>1. c.at = "linked" /\ UNCHANGED tables BY <1>8, <1>c DEF FulfillLinked, At
    <2>2. Stands([c EXCEPT !.at = "claimed"]) BY <1>0, <2>1, GotoHolds DEF Stands
    <2> QED BY <1>1, <1>2, <1>8, <2>1, <2>2 DEF FulfillLinked
<1>9. CASE FulfillClaim(p)
    <2>1. c.at = "claimed" /\ UNCHANGED tables BY <1>9, <1>c DEF FulfillClaim, At
    <2>2. CASE ~ ClaimedAlready(c.e) /\ Goto(p, "reweighed")
        <3>1. Stands([c EXCEPT !.at = "reweighed"])
            BY <1>0, <2>1, <2>2, GotoHolds DEF Stands, ClaimedAlready, Claimed
        <3> QED BY <1>2, <2>1, <2>2, <3>1
    <2> QED BY <1>1, <1>9, <1>c, <2>1, <2>2 DEF FulfillClaim
<1>10. CASE FulfillReweigh(p)
    <2>1. c.at = "reweighed" /\ UNCHANGED tables BY <1>10, <1>c DEF FulfillReweigh, At
    <2>2. Stands([c EXCEPT !.at = "issue"]) BY <1>0, <2>1, GotoHolds DEF Stands
    <2> QED BY <1>1, <1>2, <1>10, <2>1, <2>2 DEF FulfillReweigh
<1>11. CASE IssueRaced(p)
    <2>1. c.at = "raced" /\ UNCHANGED tables BY <1>11, <1>c DEF IssueRaced, At
    <2>2. PICK d : d = [c EXCEPT !.at = "issue", !.draws = @ + 1] OBVIOUS
    <2>3. d.at = "issue" /\ d.r = c.r /\ d.e = c.e BY <1>0, <2>2, RedrawHolds
    <2>4. Stands(d) BY <1>0, <2>1, <2>3 DEF Stands
    <2>5. call' = [call EXCEPT ![p] = d] \/ Finish(p) BY <1>11, <1>c, <2>2 DEF IssueRaced
    <2> QED BY <1>1, <1>3, <2>1, <2>4, <2>5
<1>12. CASE RedeemWeigh(p)
    <2> DEFINE e == c.row.event
               d == [c EXCEPT !.at = "redeemCommit", !.e = e, !.kg = BestKg(e),
                              !.verified = HasReweigh(e)]
    <2>1. c.at = "redeemWeigh" /\ UNCHANGED tables /\ (Finish(p) \/ call' = [call EXCEPT ![p] = d])
        BY <1>12, <1>c DEF RedeemWeigh, At
    <2>2. /\ d.at = "redeemCommit" /\ d.e = e /\ d.kg = BestKg(e) /\ d.verified = HasReweigh(e)
          /\ d.r = c.r /\ d.row = c.row
        BY <1>0 DEF Call
    <2>3. e = reqs[c.r].event BY <1>0, <2>1 DEF Stands
    <2> HIDE DEF d, e
    <2>4. Stands(d) BY <1>0, <2>1, <2>2, <2>3 DEF Stands, BestKg, HasReweigh
    <2> QED BY <1>1, <1>3, <2>1, <2>4
<1>13. CASE WalkInLinked(p)
    <2>1. c.at = "walkinLinked" /\ UNCHANGED tables BY <1>13, <1>c DEF WalkInLinked, At
    <2>2. CASE LinkedTo(c.e) = {} /\ Goto(p, "walkinWeigh")
        <3>1. Stands([c EXCEPT !.at = "walkinWeigh"]) BY <2>2, <1>0, GotoHolds DEF Stands
        <3> QED BY <1>2, <2>1, <2>2, <3>1
    <2> QED BY <1>1, <1>13, <1>c, <2>1, <2>2 DEF WalkInLinked
<1>14. CASE WalkInWeigh(p)
    <2> DEFINE d == [c EXCEPT !.at = "walkinCommit", !.kg = BestKg(c.e),
                              !.verified = HasReweigh(c.e)]
    <2>1. c.at = "walkinWeigh" /\ UNCHANGED tables /\ call' = [call EXCEPT ![p] = d]
        BY <1>14, <1>c DEF WalkInWeigh, At
    <2>2. d.at = "walkinCommit" /\ d.e = c.e /\ d.verified = HasReweigh(c.e)
        BY <1>0 DEF Call
    <2> HIDE DEF d
    <2>3. Stands(d) BY <1>0, <2>1, <2>2 DEF Stands
    <2> QED BY <1>3, <2>1, <2>3
<1> QED BY <1>4, <1>5, <1>6, <1>7, <1>8, <1>9, <1>10, <1>11, <1>12, <1>13, <1>14

\* Reconciling asks the request behind the weigh-in first, and then the ticket.
LEMMA SerialReconciles ==
    ASSUME OneCall, Inv, SerialInv, NEW p \in Procs, died' = died,
           ReconcileRequest(p) \/ ReconcileClaim(p)
    PROVE  SerialInv'
<1> DEFINE c == call[p]
<1>0. c \in Call /\ c.at \in {"reconcile", "reconcileClaim"} /\ c.at \in Reconciling
    BY DEF Inv, TypeInv, TypeOK, ReconcileRequest, ReconcileClaim, At, Reconciling
<1>1. PICK e \in Events : e = c.e
    BY <1>0 DEF Inv, TypeInv, CallsOK, ArgsOK, HasEvent
<1>2. Stands(c) /\ LinkOK(e) BY DEF SerialInv
<1>3. CASE ReconcileRequest(p)
    <2>1. CASE LinkedTo(e) = {} /\ Goto(p, "reconcileClaim")
        <3>1. Stands([c EXCEPT !.at = "reconcileClaim"])
            BY <1>0, <1>1, <2>1, GotoHolds
            DEF Stands, Saving, Ingesting, Ticketing, Issuing, Redeeming
        <3> QED BY <1>3, <2>1, <3>1, SerialGoto DEF ReconcileRequest, Reconciling
    <2>2. ASSUME NEW r \in LinkedTo(e), ~ OwesSettlement(reqs[r]), Finish(p)
          PROVE  SerialInv'
        <3>1. \A s \in LinkedTo(e) : s = r BY <1>2 DEF LinkOK
        <3>2. RowOK(r) /\ None \notin Weights BY PickupAssumption DEF SerialInv, LinkedTo
        <3>3. ~ (reqs[r].status = "redeemed" /\ ~ reqs[r].reconciled)
            BY <2>2, <3>2 DEF OwesSettlement, RowOK
        <3>4. ~ TicketOwesSettlement(e) BY <1>2 DEF LinkOK, TicketOwesSettlement, Claimed
        <3>5. ~ Owed(e) BY <3>1, <3>3, <3>4 DEF Owed
        <3> QED BY <1>1, <1>3, <2>2, <3>5, SerialFinish DEF ReconcileRequest
    <2>3. ASSUME NEW r \in LinkedTo(e), OwesSettlement(reqs[r]),
                 call' = [call EXCEPT ![p] = [call[p] EXCEPT !.at = "settleRequest", !.r = r,
                                                             !.row = reqs[r]]]
          PROVE  SerialInv'
        <3> DEFINE d == [c EXCEPT !.at = "settleRequest", !.r = r, !.row = reqs[r]]
        <3>1. d.at = "settleRequest" /\ d.r = r /\ d.e = c.e /\ d.row = reqs[r] BY <1>0 DEF Call
        <3>2. call' = [call EXCEPT ![p] = d] BY <2>3
        <3> HIDE DEF d
        <3>3. Stands(d)
            BY <1>1, <2>3, <3>1
            DEF Stands, LinkedTo, Saving, Ingesting, Ticketing, Issuing, Redeeming
        <3> QED BY <1>3, <3>1, <3>2, <3>3, SerialReads DEF ReconcileRequest, Reconciling
    <2> QED BY <1>1, <1>3, <2>1, <2>2, <2>3 DEF ReconcileRequest
<1>4. CASE ReconcileClaim(p)
    <2>1. LinkedTo(e) = {} BY <1>1, <1>2, <1>4 DEF ReconcileClaim, At, Stands
    <2>2. CASE ~ TicketOwesSettlement(e) /\ Finish(p)
        <3>1. ~ Owed(e) BY <2>1, <2>2 DEF Owed
        <3> QED BY <1>1, <1>4, <2>2, <3>1, SerialFinish DEF ReconcileClaim
    <2>3. CASE Goto(p, "settleClaim")
        <3>1. Stands([c EXCEPT !.at = "settleClaim"])
            BY <1>0, GotoHolds DEF Stands, Saving, Ingesting, Ticketing, Issuing, Redeeming
        <3> QED BY <1>4, <2>3, <3>1, SerialGoto DEF ReconcileClaim, Reconciling
    <2> QED BY <1>1, <1>4, <2>2, <2>3 DEF ReconcileClaim
<1> QED BY <1>3, <1>4

\* With nothing being reconciled, nothing is owed.
LEMMA NothingOwed ==
    ASSUME OneCall, SerialInv, NEW p \in Procs, call[p].at \notin Reconciling, ~ died
    PROVE  \A e \in Events : ~ Owed(e)
BY DEF OneCall, SerialInv, OwedIsUnderWay

\* A write, with which the call answers.
LEMMA SerialWrites ==
    ASSUME OneCall, Inv, NEW p \in Procs, Finish(p),
           \A r \in Requests : RowOK(r)',
           \A e \in Events : LinkOK(e)',
           CodesApart',
           ~ died' => \A e \in Events : ~ Owed(e)'
    PROVE  SerialInv'
<1>1. \A q \in Procs : call'[q] = Idle BY TheCall DEF Finish
<1>2. \A q \in Procs : Stands(call[q])'
    <2>1. ASSUME NEW q \in Procs, call'[q] = Idle PROVE Stands(call[q])'
        BY <2>1 DEF Stands, Idle, Saving, Ingesting, Ticketing, Issuing, Redeeming, Claiming, Reconciling
    <2> QED BY <1>1, <2>1
<1> QED BY <1>2 DEF SerialInv, OwedIsUnderWay

\* A row that stands while others are written.
LEMMA RowsStand ==
    ASSUME SerialInv, NEW r \in Requests, reqs'[r] = reqs[r], pickupRows'[r] = pickupRows[r],
           reweighs' = reweighs
    PROVE  RowOK(r)'
BY DEF SerialInv, RowOK

\* Writes of requests that link nothing.
LEMMA LinksStand ==
    ASSUME SerialInv, \A r \in Requests : reqs'[r].event = reqs[r].event,
           \A e \in Events : Claimed(e)' = Claimed(e) /\ (claims'[e] = None <=> claims[e] = None)
    PROVE  \A e \in Events : LinkedTo(e)' = LinkedTo(e) /\ LinkOK(e)'
<1>1. \A e : LinkedTo(e)' = LinkedTo(e) BY DEF LinkedTo
<1> QED BY <1>1 DEF SerialInv, LinkOK

\* What was not owed is not owed after a write that credits nothing on it.
LEMMA StillNotOwed ==
    ASSUME NEW e \in Events, ~ Owed(e), reweighs'[e] = reweighs[e],
           TicketOwesSettlement(e)' => TicketOwesSettlement(e),
           \A s \in Requests :
               /\ reqs'[s].event = e /\ reqs'[s].status = "redeemed" /\ ~ reqs'[s].reconciled
               => reqs[s].event = e /\ reqs[s].status = "redeemed" /\ ~ reqs[s].reconciled
    PROVE  ~ Owed(e)'
BY DEF Owed, HasReweigh, LinkedTo

LEMMA SerialCreate ==
    ASSUME OneCall, Inv, SerialInv, NEW p \in Procs, NEW r \in Requests, Create(p, r), died' = died
    PROVE  SerialInv'
<1>0. reqs[r] = Unbooked /\ call[p].at = "idle" BY DEF Create, At
<1>1. /\ Unbooked.status = "unbooked" /\ Unbooked.event = None /\ Unbooked.code = None
      /\ Unbooked.reconciled = FALSE
    BY DEF Unbooked
<1>2. reqs'[r] = [Unbooked EXCEPT !.status = "requested"]
    BY <1>0 DEF Create, Inv, TypeInv, TypeOK
<1>3. /\ reqs'[r].status = "requested" /\ reqs'[r].event = None /\ reqs'[r].code = None
      /\ reqs'[r].reconciled = FALSE
    BY <1>2 DEF Unbooked
<1>4. \A s \in Requests \ {r} : reqs'[s] = reqs[s] BY DEF Create, Inv, TypeInv, TypeOK
<1>5. UNCHANGED <<claims, reweighs, pickupRows, call>> BY DEF Create
<1>6. \A s \in Requests : RowOK(s)'
    <2>1. pickupRows[r] = <<>> BY <1>0, <1>1 DEF SerialInv, RowOK
    <2>2. RowOK(r)' BY <1>3, <1>5, <2>1 DEF RowOK, Linked
    <2> QED BY <1>4, <1>5, <2>2, RowsStand
<1>7. \A e \in Events : LinkedTo(e)' = LinkedTo(e) /\ LinkOK(e)'
    <2>1. \A s \in Requests : reqs'[s].event = reqs[s].event BY <1>0, <1>1, <1>3, <1>4
    <2> QED BY <1>5, <2>1, LinksStand DEF Claimed
<1>8. \A q \in Procs : Stands(call[q])'
    <2>1. \A q \in Procs : call'[q].at = "idle" BY <1>0, <1>5 DEF OneCall
    <2> QED BY <2>1 DEF Stands, Saving, Ingesting, Ticketing, Issuing, Redeeming
<1>9. ASSUME ~ died', NEW e \in Events PROVE ~ Owed(e)'
    <2>1. ~ Owed(e) BY <1>0, <1>9, NothingOwed DEF Reconciling
    <2> QED BY <1>3, <1>4, <1>5, <2>1, StillNotOwed DEF TicketOwesSettlement
<1>10. CodesApart'
    <2>1. \A s \in Requests : reqs'[s].code = reqs[s].code BY <1>0, <1>1, <1>3, <1>4
    <2> QED BY <2>1, CodesStayApart
<1> QED BY <1>6, <1>7, <1>8, <1>9, <1>10 DEF SerialInv, OwedIsUnderWay

\* Assigning or cancelling saves over a row nothing else has written.
LEMMA SerialSaves ==
    ASSUME OneCall, Inv, SerialInv, NEW p \in Procs, SaveWrite(p), died' = died
    PROVE  SerialInv'
<1> DEFINE c == call[p]
<1>0. ArgsOK(c) /\ Stands(c) /\ c.at = "write"
    BY DEF Inv, TypeInv, CallsOK, SerialInv, SaveWrite, At
<1>1. PICK r \in Requests : r = c.r BY <1>0 DEF ArgsOK, HasRequest, Saving
<1>2. /\ Open(r) /\ c.base = reqs[r]
      /\ c.row.status \in {"assigned", "cancelled"}
      /\ c.row.event = None /\ c.row.code = None /\ ~ c.row.reconciled
    BY <1>0, <1>1 DEF Stands, Saving
<1>3. RowOK(r) /\ reqs[r] \in Request /\ c.row \in Request
    BY <1>1 DEF SerialInv, Inv, TypeInv, TypeOK, Call
<1>4. /\ reqs[r].event = None /\ reqs[r].code = None /\ ~ reqs[r].reconciled
      /\ pickupRows[r] = <<>>
    BY <1>2, <1>3 DEF RowOK, Linked, Open
<1>5. reqs' = [reqs EXCEPT ![r] = Merged(reqs[r], c.base, c.row)]
    BY <1>1 DEF SaveWrite, Inv, TypeInv, TypeOK
<1>6. UNCHANGED <<claims, reweighs, pickupRows>> /\ Finish(p) BY DEF SaveWrite
<1> HIDE DEF c
<1>7. /\ reqs'[r].status = c.row.status /\ reqs'[r].event = None /\ reqs'[r].code = None
      /\ ~ reqs'[r].reconciled
    BY <1>2, <1>3, <1>4, <1>5 DEF Merged, Overwrite, Inv, TypeInv, TypeOK, Request
<1>8. \A s \in Requests \ {r} : reqs'[s] = reqs[s] BY <1>5 DEF Inv, TypeInv, TypeOK
<1>9. \A s \in Requests : RowOK(s)'
    <2>1. RowOK(r)' BY <1>2, <1>4, <1>6, <1>7 DEF RowOK, Linked
    <2> QED BY <1>6, <1>8, <2>1, RowsStand
<1>10. \A e \in Events : LinkOK(e)'
    <2>1. \A s \in Requests : reqs'[s].event = reqs[s].event BY <1>4, <1>7, <1>8
    <2> QED BY <1>6, <2>1, LinksStand DEF Claimed
<1>11. ASSUME ~ died', NEW e \in Events PROVE ~ Owed(e)'
    <2>1. ~ Owed(e)
        BY <1>0, <1>11, NothingOwed DEF Reconciling, c
    <2>2. reqs'[r].status # "redeemed" BY <1>2, <1>7
    <2> QED BY <1>6, <1>8, <2>1, <2>2, StillNotOwed DEF TicketOwesSettlement
<1>12. CodesApart'
    <2>1. \A s \in Requests : reqs'[s].code = reqs[s].code BY <1>4, <1>7, <1>8
    <2> QED BY <2>1, CodesStayApart
<1> QED BY <1>6, <1>9, <1>10, <1>11, <1>12, SerialWrites

LEMMA SerialIngests ==
    ASSUME OneCall, Inv, SerialInv, NEW p \in Procs, died' = died,
           NEW verdict \in {"clean", "quarantined"}, IngestSave(p, verdict)
    PROVE  SerialInv'
<1> DEFINE c == call[p]
<1>0. c \in Call /\ ArgsOK(c) /\ Stands(c) /\ c.at = "ingestSave"
    BY DEF Inv, TypeInv, CallsOK, SerialInv, IngestSave, At
<1>1. PICK e \in Events : e = c.e BY <1>0 DEF ArgsOK, HasEvent, Ingesting
<1>2. UNCHANGED <<reqs, claims, reweighs, pickupRows>> BY DEF IngestSave
<1>3. \A r \in Requests : RowOK(r)' BY <1>2, RowsStand
<1>4. \A x \in Events : LinkOK(x)' BY <1>2, LinksStand DEF Claimed
<1>5. ASSUME ~ died', NEW x \in Events PROVE ~ Owed(x)'
    <2>1. ~ Owed(x) BY <1>0, <1>5, NothingOwed DEF Reconciling
    <2> QED BY <1>2, <2>1, StillNotOwed DEF TicketOwesSettlement
<1>6. CodesApart' BY <1>2, CodesStayApart
<1>7. CASE Finish(p) BY <1>3, <1>4, <1>5, <1>7, <1>6, SerialWrites
<1>8. ASSUME NEW phase, Goto(p, phase),
             \/ phase = "claimRead" /\ c.r = None
             \/ phase = "issue" /\ c.r # None
      PROVE  SerialInv'
    <2>0. PICK d : d = [c EXCEPT !.at = phase] OBVIOUS
    <2>1. \A q \in Procs : call'[q] = d BY <1>8, <2>0, TheCall DEF Goto
    <2>2. d.at = phase /\ d.r = c.r /\ d.e = c.e BY <1>0, <2>0, GotoHolds
    <2>3. ASSUME NEW q \in Procs, call'[q] = d PROVE Stands(call[q])'
        <3>1. CASE phase = "claimRead"
            BY <1>0, <1>8, <2>2, <2>3, <3>1
            DEF Stands, Saving, Ingesting, Ticketing, Issuing, Redeeming
        <3>2. CASE phase = "issue"
            <4>1. Open(c.r) /\ e \notin Walkins
                BY <1>0, <1>1, <1>8, <3>2 DEF Stands, Ingesting
            <4>2. claims[e] = None BY <4>1 DEF SerialInv, LinkOK
            <4>3. Open(d.r)' /\ ~ Claimed(d.e)'
                BY <1>1, <1>2, <2>2, <4>1, <4>2 DEF Open, Claimed
            <4> QED
                BY <2>2, <2>3, <3>2, <4>3
                DEF Stands, Open, Claimed, Saving, Ingesting, Ticketing, Issuing, Redeeming
        <3> QED BY <1>8, <3>1, <3>2
    <2> QED BY <1>3, <1>4, <1>5, <1>6, <2>1, <2>3 DEF SerialInv, OwedIsUnderWay
<1> QED BY <1>7, <1>8 DEF IngestSave, Doorstep

\* A new ticket is nobody's.
LEMMA SerialTickets ==
    ASSUME OneCall, Inv, SerialInv, NEW p \in Procs, ClaimInsert(p), died' = died
    PROVE  SerialInv'
<1> DEFINE c == call[p]
<1>0. ArgsOK(c) /\ Stands(c) /\ c.at = "claimInsert"
    BY DEF Inv, TypeInv, CallsOK, SerialInv, ClaimInsert, At
<1>1. PICK e \in Events : e = c.e /\ e \in Walkins
    BY <1>0 DEF ArgsOK, HasEvent, Stands, Ticketing
<1>2. UNCHANGED <<reqs, reweighs, pickupRows>> /\ Finish(p) BY DEF ClaimInsert
<1>3. \A x \in Events : \/ claims'[x] = claims[x]
                        \/ x = e /\ claims[x] = None /\ claims'[x] = Unclaimed
    BY <1>1 DEF ClaimInsert, NewTicket, Inv, TypeInv, TypeOK
<1>4. Unclaimed.by = None BY DEF Unclaimed
<1>5. \A x \in Events : Claimed(x)' = Claimed(x)
    BY <1>3, <1>4 DEF Claimed
<1>6. \A r \in Requests : RowOK(r)' BY <1>2, RowsStand
<1>7. \A x : LinkedTo(x)' = LinkedTo(x) BY <1>2 DEF LinkedTo
<1>8. \A x \in Events : LinkOK(x)'
    BY <1>1, <1>3, <1>5, <1>7 DEF SerialInv, LinkOK
<1>9. ASSUME ~ died', NEW x \in Events PROVE ~ Owed(x)'
    <2>1. ~ Owed(x) BY <1>0, <1>9, NothingOwed DEF Reconciling
    <2> QED BY <1>2, <1>3, <1>4, <2>1, StillNotOwed DEF TicketOwesSettlement
<1>10. CodesApart' BY <1>2, CodesStayApart
<1> QED BY <1>2, <1>6, <1>8, <1>9, <1>10, SerialWrites

\* A code that no other request has is issued to a request that had none, for a weigh-in
\* that nobody was paid for.
LEMMA SerialIssues ==
    ASSUME OneCall, Inv, SerialInv, NEW p \in Procs, IssueCode(p), died' = died
    PROVE  SerialInv'
<1> DEFINE c == call[p]
<1>0. c \in Call /\ ArgsOK(c) /\ Stands(c) /\ c.at = "issue"
    BY DEF Inv, TypeInv, CallsOK, SerialInv, IssueCode, At
<1>1. PICK e \in Events, r \in Requests : e = c.e /\ r = c.r
    BY <1>0 DEF ArgsOK, HasEvent, HasRequest, Issuing
<1>2. Open(r) /\ ~ Claimed(e) BY <1>0, <1>1 DEF Stands, Issuing
<1>3. UNCHANGED <<claims, events, reweighs, pickupRows, ticketRows>> BY DEF IssueCode
<1>4. CASE Goto(p, "raced") /\ UNCHANGED reqs
    <2>1. Stands([c EXCEPT !.at = "raced"])
        BY <1>0, <1>2, GotoHolds DEF Stands, Saving, Ingesting, Ticketing, Issuing, Redeeming
    <2> QED BY <1>0, <1>3, <1>4, <2>1, SerialGoto DEF tables, Reconciling
<1>5. ASSUME NEW code \in Codes, ~ HeldByAnother(e, r), ~ InUse(code, r),
             reqs' = [reqs EXCEPT ![r].event = e, ![r].code = code, ![r].status = "collected"],
             Finish(p)
      PROVE  SerialInv'
    <2>1. /\ reqs'[r].event = e /\ reqs'[r].code = code /\ reqs'[r].status = "collected"
          /\ reqs'[r].reconciled = reqs[r].reconciled
        BY <1>5 DEF Inv, TypeInv, TypeOK, Request
    <2>2. \A s \in Requests \ {r} : reqs'[s] = reqs[s] BY <1>5 DEF Inv, TypeInv, TypeOK
    <2>3. code # None BY PickupAssumption
    <2>4. RowOK(r)'
        <3>1. pickupRows[r] = <<>> /\ ~ reqs[r].reconciled
            BY <1>2 DEF SerialInv, RowOK, Open
        <3> QED BY <1>3, <2>1, <2>3, <3>1 DEF RowOK, Linked
    <2>5. \A s \in Requests : RowOK(s)' BY <1>3, <2>2, <2>4, RowsStand
    <2>6. ASSUME NEW x \in Events
          PROVE  LinkOK(x)'
        <3>1. LinkOK(x) BY DEF SerialInv
        <3>2. CASE x = e
            <4>1. LinkedTo(e)' \subseteq {r} BY <1>5, <2>2 DEF HeldByAnother, LinkedTo
            <4> QED BY <1>2, <1>3, <3>1, <3>2, <4>1 DEF LinkOK, Claimed
        <3>3. CASE x # e
            <4>1. LinkedTo(x)' \subseteq LinkedTo(x) BY <2>1, <2>2, <3>3 DEF LinkedTo
            <4> QED BY <1>3, <3>1, <4>1 DEF LinkOK, Claimed
        <3> QED BY <3>2, <3>3
    <2>7. ASSUME ~ died', NEW x \in Events PROVE ~ Owed(x)'
        <3>1. ~ Owed(x) BY <1>0, <2>7, NothingOwed DEF Reconciling
        <3> QED BY <1>3, <2>1, <2>2, <3>1, StillNotOwed DEF TicketOwesSettlement
    <2>8. CodesApart'
        <3>1. \A s \in Requests \ {r} : reqs'[s].code = reqs[s].code /\ reqs[s].code # code
            BY <1>5, <2>2 DEF InUse
        <3>2. reqs'[r].code = code BY <2>1
        <3>3. CodesApart BY DEF SerialInv
        <3> QED BY <3>1, <3>2, <3>3 DEF CodesApart
    <2> QED BY <1>5, <2>5, <2>6, <2>7, <2>8, SerialWrites
<1> QED BY <1>1, <1>4, <1>5 DEF IssueCode

\* The first credit of a request, at the hub's weight if there is one.
LEMMA SerialRedeems ==
    ASSUME OneCall, Inv, SerialInv, NEW p \in Procs, RedeemCommit(p), died' = died
    PROVE  SerialInv'
<1> DEFINE c == call[p]
           row == PickupCredit(c)
<1>0. c \in Call /\ ArgsOK(c) /\ Stands(c) /\ c.at = "redeemCommit"
    BY DEF Inv, TypeInv, CallsOK, SerialInv, RedeemCommit, At
<1>1. PICK r \in Requests : r = c.r BY <1>0 DEF ArgsOK, HasRequest, Redeeming
<1>2. /\ reqs[r].status = "collected" /\ c.e = reqs[r].event /\ c.kg \in Weights
      /\ c.verified = HasReweigh(c.e) /\ (c.verified => c.kg = reweighs[c.e])
    BY <1>0, <1>1 DEF Stands, Redeeming, ArgsOK, HasWeight
<1>3. RowOK(r) /\ reqs[r] \in Request BY DEF SerialInv, Inv, TypeInv, TypeOK
<1>4. reqs[r].event \in Events /\ reqs[r].code # None /\ pickupRows[r] = <<>>
    BY <1>2, <1>3 DEF RowOK, Linked
<1>5. UNCHANGED <<claims, reweighs>> /\ Finish(p) BY DEF RedeemCommit
<1>6. /\ reqs'[r].status = "redeemed" /\ reqs'[r].event = reqs[r].event
      /\ reqs'[r].code = reqs[r].code /\ reqs'[r].kg = c.kg /\ reqs'[r].reconciled = c.verified
    BY <1>1, <1>3 DEF RedeemCommit, RedeemedRow, Inv, TypeInv, TypeOK, Request
<1>7. pickupRows'[r] = Append(pickupRows[r], row)
    BY <1>1 DEF RedeemCommit, Inv, TypeInv, TypeOK
<1>8. pickupRows'[r] = <<row>> BY <1>4, <1>7
<1>9. /\ row.kind = "pickup" /\ row.event = c.e /\ row.kg = c.kg
      /\ row.code = reqs[r].code
    BY <1>0, <1>1 DEF PickupCredit, Stands, Redeeming
<1>10. \A s \in Requests \ {r} : reqs'[s] = reqs[s] /\ pickupRows'[s] = pickupRows[s]
    BY <1>1 DEF RedeemCommit, Inv, TypeInv, TypeOK
<1> HIDE DEF row
<1>11. RowOK(r)'
    <2>1. Len(pickupRows'[r]) = 1 /\ pickupRows'[r][1] = row BY <1>8
    <2>2. c.verified => reweighs'[reqs'[r].event] # None /\ AddsUpTo(pickupRows'[r], reweighs'[reqs'[r].event])
        BY <1>2, <1>5, <1>6, <1>9, <2>1 DEF HasReweigh, AddsUpTo
    <2> QED BY <1>2, <1>4, <1>6, <1>9, <2>1, <2>2 DEF RowOK, Linked
<1>12. \A s \in Requests : RowOK(s)' BY <1>5, <1>10, <1>11, RowsStand
<1>13. \A x \in Events : LinkOK(x)'
    <2>1. \A s \in Requests : reqs'[s].event = reqs[s].event BY <1>6, <1>10
    <2> QED BY <1>5, <2>1, LinksStand DEF Claimed
<1>14. ASSUME ~ died', NEW x \in Events PROVE ~ Owed(x)'
    <2>1. ~ Owed(x) BY <1>0, <1>14, NothingOwed DEF Reconciling
    <2>2. CASE HasReweigh(x)
        <3>1. reqs'[r].event = x => reqs'[r].reconciled BY <1>2, <1>6, <2>2
        <3> QED BY <1>5, <1>10, <2>1, <3>1, StillNotOwed DEF TicketOwesSettlement
    <2>3. CASE ~ HasReweigh(x) BY <1>5, <2>3 DEF Owed, HasReweigh
    <2> QED BY <2>2, <2>3
<1>15. CodesApart'
    <2>1. \A s \in Requests : reqs'[s].code = reqs[s].code BY <1>6, <1>10
    <2> QED BY <2>1, CodesStayApart
<1> QED BY <1>5, <1>12, <1>13, <1>14, <1>15, SerialWrites

\* The claim of a ticket, at the hub's weight if there is one.
LEMMA SerialClaims ==
    ASSUME OneCall, Inv, SerialInv, NEW p \in Procs, WalkInCommit(p), died' = died
    PROVE  SerialInv'
<1> DEFINE c == call[p]
<1>0. Stands(c) /\ c.at = "walkinCommit" BY DEF SerialInv, WalkInCommit, At
<1>1. UNCHANGED <<events, reqs, reweighs, pickupRows>> /\ Finish(p) BY DEF WalkInCommit
<1>2. CASE UNCHANGED <<claims, ticketRows>>
    BY <1>0, <1>1, <1>2, SerialFinish DEF tables, Reconciling
<1>3. CASE WalkInPaid(p)
    <2>1. PICK e \in Events : e = c.e BY <1>3 DEF WalkInPaid
    <2>2. LinkedTo(e) = {} /\ c.verified = HasReweigh(e) BY <1>0, <2>1 DEF Stands
    <2>3. /\ claims'[e] = [by |-> c.who, kg |-> c.kg, reconciled |-> c.verified]
          /\ claims[e] # None
        BY <1>3, <2>1 DEF WalkInPaid, Inv, TypeInv, TypeOK
    <2>4. \A x \in Events \ {e} : claims'[x] = claims[x]
        BY <1>3, <2>1 DEF WalkInPaid, Inv, TypeInv, TypeOK
    <2>5. claims'[e].reconciled = c.verified BY <2>3
    <2>6. \A r \in Requests : RowOK(r)' BY <1>1, RowsStand
    <2>7. \A x : LinkedTo(x)' = LinkedTo(x) BY <1>1 DEF LinkedTo
    <2>8. ASSUME NEW x \in Events
          PROVE  LinkOK(x)'
        <3>1. LinkOK(x) BY DEF SerialInv
        <3>2. CASE x = e BY <2>2, <2>3, <2>7, <3>1, <3>2 DEF LinkOK
        <3>3. CASE x # e BY <2>4, <2>7, <3>1, <3>3 DEF LinkOK, Claimed
        <3> QED BY <3>2, <3>3
    <2>9. ASSUME ~ died', NEW x \in Events PROVE ~ Owed(x)'
        <3>1. ~ Owed(x) BY <1>0, <2>9, NothingOwed DEF Reconciling
        <3>2. CASE HasReweigh(x)
            <4>1. x = e => claims'[x].reconciled BY <2>2, <2>5, <3>2
            <4> QED BY <1>1, <2>4, <3>1, <4>1, StillNotOwed DEF TicketOwesSettlement
        <3>3. CASE ~ HasReweigh(x) BY <1>1, <3>3 DEF Owed, HasReweigh
        <3> QED BY <3>2, <3>3
    <2>10. CodesApart' BY <1>1, CodesStayApart
    <2> QED BY <1>1, <2>6, <2>8, <2>9, <2>10, SerialWrites
<1> QED BY <1>2, <1>3, WalkInCommitPays

\* A re-weigh makes what was credited at the scale's weight owed, and sets out to settle it.
LEMMA SerialReweighs ==
    ASSUME OneCall, Inv, SerialInv, NEW p \in Procs, NEW e \in Events, NEW kg \in Weights,
           Reweigh(p, e, kg), died' = died
    PROVE  SerialInv'
<1>0. PICK c : c = [Idle EXCEPT !.at = "reconcile", !.e = e, !.kg = kg] OBVIOUS
<1>1. \A q \in Procs : call'[q] = c BY <1>0, TheCall DEF Reweigh, Begin
<1>2. c.at = "reconcile" /\ c.e = e BY <1>0 DEF Idle
<1>3. UNCHANGED <<reqs, claims, pickupRows>> /\ reweighs[e] = None /\ call[p].at = "idle"
    BY DEF Reweigh, Unweighed, Begin, At
<1>4. \A x \in Events \ {e} : reweighs'[x] = reweighs[x]
    BY DEF Reweigh, Inv, TypeInv, TypeOK
<1>5. ASSUME NEW r \in Requests
      PROVE  RowOK(r)'
    <2>1. RowOK(r) BY DEF SerialInv
    <2>2. reqs[r].reconciled => reqs[r].status = "redeemed" /\ reqs[r].event \in Events
        BY <2>1 DEF RowOK, Linked
    <2>3. reqs[r].reconciled => reqs[r].event # e BY <1>3, <2>1, <2>2 DEF RowOK
    <2> QED BY <1>3, <1>4, <2>1, <2>2, <2>3 DEF RowOK
<1>6. \A x \in Events : LinkOK(x)' BY <1>3, LinksStand DEF Claimed
<1>7. ASSUME NEW q \in Procs, call'[q] = c PROVE Stands(call[q])'
    BY <1>2, <1>7 DEF Stands, Saving, Ingesting, Ticketing, Issuing, Redeeming
<1>8. ASSUME ~ died', NEW x \in Events \ {e} PROVE ~ Owed(x)'
    <2>1. ~ Owed(x) BY <1>3, <1>8, NothingOwed DEF Reconciling
    <2> QED BY <1>3, <1>4, <2>1, StillNotOwed DEF TicketOwesSettlement
<1>9. OwedIsUnderWay' BY <1>1, <1>2, <1>8 DEF OwedIsUnderWay, Reconciling
<1>10. CodesApart' BY <1>3, CodesStayApart
<1> QED BY <1>1, <1>5, <1>6, <1>7, <1>9, <1>10 DEF SerialInv

\* The call that settles one weigh-in was the only one with anything owed.
LEMMA OnlyItsOwn ==
    ASSUME OneCall, SerialInv, NEW p \in Procs, ~ died, NEW x \in Events, x # call[p].e
    PROVE  ~ Owed(x)
BY DEF OneCall, SerialInv, OwedIsUnderWay

LEMMA SerialSettles ==
    ASSUME OneCall, Inv, SerialInv, NEW p \in Procs, SettleRequest(p), died' = died
    PROVE  SerialInv'
<1> DEFINE c == call[p]
<1>0. c \in Call /\ ArgsOK(c) /\ Stands(c) /\ ReadsStand(c) /\ c.at = "settleRequest"
    BY DEF Inv, TypeInv, CallsOK, TicketInv, SerialInv, SettleRequest, At
<1>1. PICK e \in Events, r \in Requests : e = c.e /\ r = c.r
    BY <1>0 DEF ArgsOK, HasEvent, HasRequest, Reconciling
<1>2. /\ c.row = reqs[r] /\ reqs[r].status = "redeemed" /\ ~ reqs[r].reconciled
      /\ reqs[r].event = e
    BY <1>0, <1>1 DEF Stands, OwesSettlement
<1>3. c.kg \in Weights /\ reweighs[e] = c.kg /\ c.kg # None /\ Weights \subseteq Int
    BY <1>0, <1>1, PickupAssumption DEF ArgsOK, HasWeight, ReadsStand, Reconciling
<1>4. RowOK(r) /\ reqs[r] \in Request /\ LinkOK(e) /\ pickupRows[r] \in Seq(Entry)
    BY DEF SerialInv, Inv, TypeInv, TypeOK
<1>5. /\ reqs[r].kg \in Weights /\ reqs[r].code # None
      /\ pickupRows[r][1].kind = "pickup" /\ pickupRows[r][1].event = e
      /\ pickupRows[r][1].kg = reqs[r].kg /\ pickupRows[r][1].code = reqs[r].code
      /\ Len(pickupRows[r]) = 1
    BY <1>2, <1>4 DEF RowOK, Linked
<1> DEFINE delta == c.kg - reqs[r].kg
<1>6. pickupRows'[r] = Settled(pickupRows[r], e, Booker[r], delta)
    BY <1>1, <1>2 DEF SettleRequest, Difference, Inv, TypeInv, TypeOK
<1>7. /\ reqs'[r].status = "redeemed" /\ reqs'[r].event = e /\ reqs'[r].code = reqs[r].code
      /\ reqs'[r].kg = reqs[r].kg /\ reqs'[r].reconciled = TRUE
    BY <1>1, <1>2, <1>4 DEF SettleRequest, Inv, TypeInv, TypeOK, Request
<1>8. \A s \in Requests \ {r} : reqs'[s] = reqs[s] /\ pickupRows'[s] = pickupRows[s]
    BY <1>1 DEF SettleRequest, Inv, TypeInv, TypeOK
<1>9. UNCHANGED <<claims, reweighs>> /\ Finish(p) BY DEF SettleRequest
<1>i. reqs[r].kg \in Int /\ c.kg \in Int BY <1>3, <1>5
<1>10. delta \in Int /\ reqs[r].kg + delta = c.kg BY <1>i
<1>11. /\ delta = 0 => pickupRows'[r] = pickupRows[r]
       /\ delta # 0 => /\ Len(pickupRows'[r]) = 2 /\ pickupRows'[r][1] = pickupRows[r][1]
                       /\ pickupRows'[r][2].kind = "adjustment" /\ pickupRows'[r][2].event = e
                       /\ pickupRows'[r][2].kg = delta
    BY <1>4, <1>5, <1>6, <1>10, SettledAddsUp, PickupAssumption
<1> HIDE DEF delta
<1>12. pickupRows'[r][1] = pickupRows[r][1] /\ AddsUpTo(pickupRows'[r], c.kg)
    <2>1. CASE delta = 0
        <3>1. reqs[r].kg = c.kg BY <1>i, <1>10, <2>1
        <3> QED BY <1>5, <1>11, <2>1, <3>1 DEF AddsUpTo
    <2>2. CASE delta # 0 BY <1>5, <1>10, <1>11, <2>2 DEF AddsUpTo
    <2> QED BY <1>10, <2>1, <2>2
<1>13. RowOK(r)'
    <2>1. Len(pickupRows'[r]) = 2 => pickupRows'[r][2].kind = "adjustment" /\ pickupRows'[r][2].event = e
        BY <1>5, <1>11
    <2>2. AddsUpTo(pickupRows'[r], reweighs'[e]) /\ reweighs'[e] # None BY <1>3, <1>9, <1>12
    <2> QED BY <1>5, <1>7, <1>12, <2>1, <2>2 DEF RowOK, Linked
<1>14. \A s \in Requests : RowOK(s)' BY <1>8, <1>9, <1>13, RowsStand
<1>15. \A x \in Events : LinkOK(x)'
    <2>1. \A s \in Requests : reqs'[s].event = reqs[s].event BY <1>2, <1>7, <1>8
    <2> QED BY <1>9, <2>1, LinksStand DEF Claimed
<1>16. ASSUME ~ died', NEW x \in Events PROVE ~ Owed(x)'
    <2>1. CASE x # e
        <3>1. ~ Owed(x) BY <1>1, <1>16, <2>1, OnlyItsOwn
        <3> QED BY <1>7, <1>8, <1>9, <3>1, StillNotOwed DEF TicketOwesSettlement
    <2>2. CASE x = e
        <3>1. ~ TicketOwesSettlement(e)' BY <1>2, <1>4, <1>9 DEF LinkOK, LinkedTo, TicketOwesSettlement, Claimed
        <3>2. \A s \in Requests : reqs[s].event = e => s = r BY <1>2, <1>4 DEF LinkOK, LinkedTo
        <3>3. \A s \in Requests : reqs'[s].event = e => reqs'[s].reconciled BY <1>7, <1>8, <3>2
        <3> QED BY <2>2, <3>1, <3>3 DEF Owed, LinkedTo
    <2> QED BY <2>1, <2>2
<1>17. CodesApart'
    <2>1. \A s \in Requests : reqs'[s].code = reqs[s].code BY <1>7, <1>8
    <2> QED BY <2>1, CodesStayApart
<1> QED BY <1>9, <1>14, <1>15, <1>16, <1>17, SerialWrites

LEMMA SerialSettlesTicket ==
    ASSUME OneCall, Inv, SerialInv, NEW p \in Procs, SettleClaim(p), died' = died
    PROVE  SerialInv'
<1>1. TicketSettled(p) BY SettleClaimSettles
<1>2. PICK e \in Events : e = call[p].e BY <1>1 DEF TicketSettled
<1>3. UNCHANGED <<reqs, reweighs, pickupRows>> /\ Finish(p) BY DEF SettleClaim
<1>4. claims[e] \in Claim /\ Claimed(e) BY <1>1, <1>2 DEF TicketSettled, Claimed, Inv, TypeInv, TypeOK
<1>5. claims'[e] = [claims[e] EXCEPT !.reconciled = TRUE]
    BY <1>1, <1>2 DEF TicketSettled, Inv, TypeInv, TypeOK
<1>6. claims'[e] \in Claim /\ claims'[e].reconciled /\ claims'[e].by = claims[e].by
    BY <1>4, <1>5 DEF Claim
<1>7. \A x \in Events \ {e} : claims'[x] = claims[x]
    BY <1>1, <1>2 DEF TicketSettled, Inv, TypeInv, TypeOK
<1>8. \A r \in Requests : RowOK(r)' BY <1>3, RowsStand
<1>9. \A x \in Events : LinkOK(x)'
    <2>1. \A x \in Events : Claimed(x)' = Claimed(x) /\ (claims'[x] = None <=> claims[x] = None)
        BY <1>4, <1>6, <1>7, NoRowAssumption DEF Claimed
    <2> QED BY <1>3, <2>1, LinksStand
<1>10. ASSUME ~ died', NEW x \in Events PROVE ~ Owed(x)'
    <2>1. CASE x # e
        <3>1. ~ Owed(x) BY <1>2, <1>10, <2>1, OnlyItsOwn
        <3> QED BY <1>3, <1>7, <2>1, <3>1, StillNotOwed DEF TicketOwesSettlement
    <2>2. CASE x = e
        <3>1. LinkedTo(e) = {} BY <1>4 DEF SerialInv, LinkOK
        <3>2. LinkedTo(e)' = {} BY <1>3, <3>1 DEF LinkedTo
        <3> QED BY <1>6, <2>2, <3>2 DEF Owed, TicketOwesSettlement
    <2> QED BY <2>1, <2>2
<1>11. CodesApart' BY <1>3, CodesStayApart
<1> QED BY <1>3, <1>8, <1>9, <1>10, <1>11, SerialWrites

LEMMA SerialStep ==
    ASSUME OneCall, Inv, SerialInv, [MCNext]_<<vars, died>>
    PROVE  SerialInv'
<1>1. CASE UNCHANGED <<vars, died>>
    <2>1. UNCHANGED <<reqs, claims, reweighs, pickupRows, call, died>> BY <1>1 DEF vars
    <2>2. \A r \in Requests : RowOK(r)' BY <2>1, RowsStand
    <2>3. \A e \in Events : LinkOK(e)' BY <2>1, LinksStand DEF Claimed
    <2>4. \A e : Owed(e)' = Owed(e)
        BY <2>1 DEF Owed, LinkedTo, TicketOwesSettlement, HasReweigh
    <2>5. OwedIsUnderWay' BY <2>1, <2>4 DEF SerialInv, OwedIsUnderWay
    <2>6. \A q \in Procs : Stands(call[q])'
        <3>1. ASSUME NEW q \in Procs PROVE Stands(call[q])'
            <4>1. Stands(call[q]) /\ call'[q] = call[q] BY <2>1 DEF SerialInv
            <4> QED BY <2>1, <4>1 DEF Stands, Open, LinkedTo, HasReweigh, Claimed
        <3> QED BY <3>1
    <2>7. CodesApart' BY <2>1, CodesStayApart
    <2> QED BY <2>2, <2>3, <2>5, <2>6, <2>7 DEF SerialInv
<1>2. ASSUME NEW p \in Procs, Start(p), died' = died
      PROVE  SerialInv'
    BY <1>2, SerialStarts, SerialCreate, SerialReweighs DEF Start
<1>3. ASSUME NEW p \in Procs, Continue(p), died' = died
      PROVE  SerialInv'
    BY <1>3, SerialReadsOnly, SerialReconciles, SerialSaves, SerialIngests, SerialTickets,
       SerialIssues, SerialRedeems, SerialClaims, SerialSettles, SerialSettlesTicket
    DEF Continue
<1>4. ASSUME NEW p \in Procs, Crash(p), died'
      PROVE  SerialInv'
    BY <1>4, SerialFinish DEF Crash
<1> QED BY <1>1, <1>2, <1>3, <1>4 DEF MCNext, Serve

AllInv == Inv /\ SerialInv

LEMMA AllInvHolds ==
    ASSUME OneCall
    PROVE  MCSpec => []AllInv
<1>1. MCInit => AllInv BY InvInit, SerialInit DEF MCInit, AllInv
<1>2. AllInv /\ [MCNext]_<<vars, died>> => AllInv'
    <2> SUFFICES ASSUME AllInv, [MCNext]_<<vars, died>>
                 PROVE  AllInv'
        OBVIOUS
    <2>1. [Next]_vars BY DEF MCNext, Serve, Next
    <2>2. Inv' BY <2>1, InvStep DEF AllInv
    <2>3. SerialInv' BY SerialStep DEF AllInv
    <2> QED BY <2>2, <2>3 DEF AllInv
<1> QED BY <1>1, <1>2, PTL DEF MCSpec

\* A redeemed request's ledger: one credit, and at most one correction.
LEMMA LedgerOfRow ==
    ASSUME SerialInv, NEW r \in Requests
    PROVE  /\ RowOK(r)
           /\ reqs[r].status = "redeemed" => Len(pickupRows[r]) \in {1, 2}
BY DEF SerialInv, RowOK, AddsUpTo

\* "Each code redeems exactly once", while calls do not overlap: even when one of them
\* dies half-way.
THEOREM CodesRedeemOnce ==
    ASSUME OneCall
    PROVE  MCSpec => []CodeRedeemsOnce
<1>1. AllInv => CodeRedeemsOnce
    <2> SUFFICES ASSUME AllInv, NEW r \in Requests,
                        NEW i \in 1..Len(pickupRows[r]), NEW j \in 1..Len(pickupRows[r]),
                        pickupRows[r][i].kind = "pickup", pickupRows[r][j].kind = "pickup"
                 PROVE  i = j
        BY DEF CodeRedeemsOnce
    <2>1. RowOK(r) /\ (reqs[r].status = "redeemed" => Len(pickupRows[r]) \in {1, 2})
        BY LedgerOfRow DEF AllInv
    <2>2. pickupRows[r] # <<>> BY DEF AllInv, Inv, TypeInv, TypeOK
    <2>3. reqs[r].status = "redeemed" BY <2>1, <2>2 DEF RowOK
    <2>4. Len(pickupRows[r]) = 2 => pickupRows[r][2].kind # "pickup" BY <2>1, <2>3 DEF RowOK
    <2>5. i = 1 /\ j = 1 BY <2>1, <2>3, <2>4
    <2> QED BY <2>5
<1> QED BY <1>1, AllInvHolds, PTL

\* A code pays only the booking whose row has it, however often a draw meets a code in use:
\* the row keeps the code it was credited for, so that the unique index refuses it to others.
THEOREM CodesPayTheirOwn ==
    ASSUME OneCall
    PROVE  MCSpec => []CodePaysItsOwnBooking
<1>1. AllInv => CodePaysItsOwnBooking
    <2>1. ASSUME AllInv, NEW r \in Requests, NEW i \in 1..Len(pickupRows[r]),
                 pickupRows[r][i].kind = "pickup"
          PROVE  pickupRows[r][i].code = reqs[r].code /\ reqs[r].code # None
        <3>1. RowOK(r) /\ (reqs[r].status = "redeemed" => Len(pickupRows[r]) \in {1, 2})
            BY <2>1, LedgerOfRow DEF AllInv
        <3>2. pickupRows[r] # <<>> BY <2>1 DEF AllInv, Inv, TypeInv, TypeOK
        <3>3. reqs[r].status = "redeemed" BY <3>1, <3>2 DEF RowOK
        <3>4. i = 1 BY <2>1, <3>1, <3>3 DEF RowOK
        <3> QED BY <3>1, <3>3, <3>4 DEF RowOK, Linked
    <2> QED BY <2>1 DEF CodePaysItsOwnBooking, AllInv, SerialInv, CodesApart
<1> QED BY <1>1, AllInvHolds, PTL

\* A weigh-in is credited through one request, or as a walk-in, never both ways.
THEOREM WeighInsCreditOnce ==
    ASSUME OneCall
    PROVE  MCSpec => []OneWeighInOneCredit
<1>1. AllInv => OneWeighInOneCredit
    <2>1. ASSUME AllInv, NEW e \in Events, NEW r \in Requests, CreditsFor(r, e) # {}
          PROVE  r \in LinkedTo(e)
        <3>1. PICK i \in 1..Len(pickupRows[r]) :
                pickupRows[r][i].kind = "pickup" /\ pickupRows[r][i].event = e
            BY <2>1 DEF CreditsFor
        <3>2. RowOK(r) /\ (reqs[r].status = "redeemed" => Len(pickupRows[r]) \in {1, 2})
            BY <2>1, LedgerOfRow DEF AllInv
        <3>3. reqs[r].status = "redeemed" BY <2>1, <3>1, <3>2 DEF RowOK, AllInv, Inv, TypeInv, TypeOK
        <3>4. i = 1 BY <3>1, <3>2, <3>3 DEF RowOK
        <3> QED BY <3>1, <3>2, <3>3, <3>4 DEF RowOK, LinkedTo
    <2> SUFFICES ASSUME AllInv, NEW e \in Events, NEW r \in Requests, CreditsFor(r, e) # {}
                 PROVE  /\ ticketRows[e] = <<>>
                        /\ \A s \in Requests \ {r} : CreditsFor(s, e) = {}
        BY DEF OneWeighInOneCredit
    <2>2. r \in LinkedTo(e) /\ LinkOK(e) BY <2>1 DEF AllInv, SerialInv
    <2>3. ~ Claimed(e) BY <2>2 DEF LinkOK
    <2>4. ticketRows[e] = <<>> BY <2>3 DEF AllInv, Inv, TicketInv, TicketOK
    <2> QED BY <2>1, <2>2, <2>4 DEF LinkOK
<1> QED BY <1>1, AllInvHolds, PTL

\* A request's row and its ledger agree: what was credited is what the row says, and
\* what the row calls reconciled adds up to the hub's weight.
THEOREM RequestsMatchLedger ==
    ASSUME OneCall
    PROVE  MCSpec => []RequestMatchesLedger
<1>1. AllInv => RequestMatchesLedger
    <2> SUFFICES ASSUME AllInv, NEW r \in Requests
                 PROVE  /\ (reqs[r].status \in {"collected", "redeemed"})
                              = (reqs[r].event # None /\ reqs[r].code # None)
                        /\ reqs[r].status = "redeemed" <=> pickupRows[r] # <<>>
                        /\ reqs[r].status = "redeemed" =>
                              /\ pickupRows[r][1].event = reqs[r].event
                              /\ pickupRows[r][1].kg = reqs[r].kg
                        /\ reqs[r].reconciled =>
                              /\ reweighs[reqs[r].event] # None
                              /\ AddsUpTo(pickupRows[r], reweighs[reqs[r].event])
        BY DEF RequestMatchesLedger
    <2>1. RowOK(r) /\ (reqs[r].status = "redeemed" => Len(pickupRows[r]) \in {1, 2})
        BY LedgerOfRow DEF AllInv
    <2>2. (reqs[r].status \in {"collected", "redeemed"}) = (reqs[r].event # None /\ reqs[r].code # None)
        BY <2>1, PickupAssumption DEF RowOK, Linked
    <2>3. reqs[r].status = "redeemed" <=> pickupRows[r] # <<>> BY <2>1 DEF RowOK
    <2> QED BY <2>1, <2>2, <2>3 DEF RowOK
<1> QED BY <1>1, AllInvHolds, PTL

\* As long as no call died, with none under way, whatever was credited on a re-weighed
\* weigh-in is the hub's weight.
THEOREM NothingLeftUnlessDied ==
    ASSUME OneCall
    PROVE  MCSpec => []NothingLeftToSettleUnlessDied
<1>1. AllInv => NothingLeftToSettleUnlessDied
    <2> SUFFICES ASSUME AllInv, ~ died, \A p \in Procs : call[p].at = "idle",
                        NEW e \in Events, reweighs[e] # None
                 PROVE  /\ ticketRows[e] # <<>> => AddsUpTo(ticketRows[e], reweighs[e])
                        /\ \A r \in LinkedTo(e) :
                             reqs[r].status = "redeemed" => AddsUpTo(pickupRows[r], reweighs[e])
        BY DEF NothingLeftToSettleUnlessDied, NothingLeftToSettle, Quiet, At
    <2>1. ~ Owed(e) BY DEF AllInv, SerialInv, OwedIsUnderWay, Reconciling
    <2>2. TicketOK(e) BY DEF AllInv, Inv, TicketInv
    <2>3. ticketRows[e] # <<>> => AddsUpTo(ticketRows[e], reweighs[e])
        BY <2>1, <2>2 DEF Owed, HasReweigh, TicketOwesSettlement, TicketOK, Claimed
    <2>4. ASSUME NEW r \in LinkedTo(e), reqs[r].status = "redeemed"
          PROVE  AddsUpTo(pickupRows[r], reweighs[e])
        <3>1. RowOK(r) /\ reqs[r].event = e BY DEF AllInv, SerialInv, LinkedTo
        <3>2. reqs[r].reconciled BY <2>1, <2>4 DEF Owed, HasReweigh
        <3> QED BY <2>4, <3>1, <3>2 DEF RowOK
    <2> QED BY <2>3, <2>4
<1> QED BY <1>1, AllInvHolds, PTL

-----------------------------------------------------------------------------
(* The ledger as a whole, one call at a time                               *)

\* What is credited on a weigh-in is what its ticket and each request credit, end to end.
Concatenate(base, f) == FoldFunction(LAMBDA credits, soFar : soFar \o credits, base, f)

\* All that is credited on e, as such a concatenation.
LEMMA CreditedIsConcatenated ==
    ASSUME NEW e
    PROVE  CreditedOn(e) = Concatenate(Amounts(ticketRows[e]), [r \in Requests |-> CreditsOn(e, pickupRows[r])])
BY DEF CreditedOn, Concatenate

\* At most one of some sequences has anything in it: end to end they are that one.
LEMMA OnlyOneIsNotEmpty ==
    ASSUME NEW S, IsFiniteSet(S), NEW V, NEW base \in Seq(V), NEW f \in [S -> Seq(V)],
           NEW x, \A y \in S \ {x} : f[y] = <<>>
    PROVE  Concatenate(base, f) = IF x \in S THEN base \o f[x] ELSE base
<1> DEFINE Is(g) == g = [s \in SUBSET S |-> IF s = {} THEN base ELSE g[s \ {First(s)}] \o f[First(s)]]
<1>1. Concatenate(base, f) = (CHOOSE g : Is(g))[S]
  <2>1. DOMAIN f = S OBVIOUS
  <2> QED BY <2>1 DEF Concatenate, FoldFunction, FoldFunctionOnSet, MapThenFoldSet, First
<1>2. \E g : Is(g)
  <2>1. PICK pick : pick = [s \in SUBSET S |-> First(s)] OBVIOUS
  <2>2. PICK step : step = [s \in SUBSET S |-> [v \in Seq(V) |-> IF s = {} THEN v ELSE v \o f[First(s)]]] OBVIOUS
  <2>3. \A s \in SUBSET S : s # {} => First(s) \in s /\ pick[s] = First(s) /\ f[First(s)] \in Seq(V)
    BY <2>1, FirstIn
  <2>4. step \in [SUBSET S -> [Seq(V) -> Seq(V)]]
    <3>1. \A s \in SUBSET S, v \in Seq(V) : (IF s = {} THEN v ELSE v \o f[First(s)]) \in Seq(V)
      BY <2>3, ConcatProperties
    <3> QED BY <2>2, <3>1
  <2>5. PICK g \in [SUBSET S -> Seq(V)] : Folds(g, base, step, pick, S)
    <3>1. Picks(pick, S) BY <2>3 DEF Picks
    <3>2. Steps(step, S, Seq(V)) BY <2>4 DEF Steps
    <3> QED BY <3>1, <3>2, FoldsExist
  <2>6. \A s \in SUBSET S : s # {} => step[s][g[s \ {pick[s]}]] = g[s \ {First(s)}] \o f[First(s)]
    <3> TAKE s \in SUBSET S
    <3>1. s \ {First(s)} \in SUBSET S OBVIOUS
    <3>2. g[s \ {First(s)}] \in Seq(V) BY <3>1
    <3> QED BY <2>2, <2>3, <3>2
  <2>7. \A s \in SUBSET S : g[s] = IF s = {} THEN base ELSE g[s \ {First(s)}] \o f[First(s)]
    BY <2>5, <2>6 DEF Folds
  <2> QED BY <2>7
<1>3. PICK g : g = (CHOOSE h : Is(h)) OBVIOUS
<1>4. Is(g) BY <1>2, <1>3
<1> DEFINE P == {s \in SUBSET S : g[s] = IF x \in s THEN base \o f[x] ELSE base}
<1>5. {} \in P BY <1>4
<1>6. ASSUME NEW s \in SUBSET S, s # {}, \A y \in s : s \ {y} \in P PROVE s \in P
  <2>1. PICK y \in s : y = First(s) BY <1>6, FirstIn
  <2>2. PICK t : t = s \ {y} OBVIOUS
  <2>3. t \in P /\ g[s] = g[t] \o f[y] BY <1>4, <1>6, <2>1, <2>2
  <2>4. CASE y = x
    <3>1. g[t] = base BY <2>2, <2>3, <2>4
    <3> QED BY <2>1, <2>3, <2>4, <3>1
  <2>5. CASE y # x
    <3>1. f[y] = <<>> /\ g[t] \in Seq(V)
      <4>1. x \in t => f[x] \in Seq(V) /\ base \o f[x] \in Seq(V) BY <2>2, ConcatProperties
      <4> QED BY <2>1, <2>3, <2>5, <4>1
    <3>2. g[s] = g[t] BY <2>3, <3>1
    <3>3. x \in s <=> x \in t BY <2>2, <2>5
    <3> QED BY <2>3, <3>2, <3>3
  <2> QED BY <2>4, <2>5
<1>7. S \in P
  <2> HIDE DEF P
  <2> QED BY <1>5, <1>6, FiniteDescent, S \in SUBSET S
<1> QED BY <1>1, <1>3, <1>7

\* One row more.
OneRow(e, soFar, row) == IF row.event = e THEN Append(soFar, row.kg) ELSE soFar

\* g credits on e what the first rows do, for any of them.
RowsTaken(g, e, rows) ==
    g = [s \in SUBSET DOMAIN rows |-> IF s = {} THEN <<>> ELSE OneRow(e, g[s \ {Max(s)}], rows[Max(s)])]

\* CreditsOn, with the function it folds by.
LEMMA CreditsOnDef ==
    ASSUME NEW e, NEW rows
    PROVE  CreditsOn(e, rows) = (CHOOSE g : RowsTaken(g, e, rows))[DOMAIN rows]
BY DEF CreditsOn, FoldLeft, MapThenFoldSet, RowsTaken, OneRow

\* The greatest of some numbers is one of them.
LEMMA MaxIn ==
    ASSUME NEW n \in Nat, NEW s, s \subseteq 1..n, s # {}
    PROVE  Max(s) \in s
<1>1. PICK T : T = {m \in Nat : \A x \in s : x <= m} OBVIOUS
<1>2. T \subseteq Nat /\ n \in T BY <1>1
<1>3. PICK m \in T : \A k \in T : m <= k BY <1>2, LeastNat
<1>4. m \in Nat /\ \A x \in s : x <= m BY <1>1
<1>5. m \in s
  <2> SUFFICES ASSUME m \notin s PROVE FALSE OBVIOUS
  <2>1. \A x \in s : x \in Nat /\ x >= 1 /\ x <= m /\ x # m BY <1>4
  <2>2. m - 1 \in Nat
    <3>1. PICK x : x \in s OBVIOUS
    <3> QED BY <1>4, <2>1, <3>1
  <2>3. \A x \in s : x <= m - 1 BY <1>4, <2>1
  <2>4. m <= m - 1 BY <1>1, <1>3, <2>2, <2>3
  <2> QED BY <1>4, <2>4
<1>6. \E x \in s : \A y \in s : x >= y
  <2>1. \A y \in s : m >= y BY <1>4
  <2> QED BY <1>5, <2>1
<1> QED BY <1>6 DEF Max

\* The last of the first i + 1 numbers, and what is before it.
LEMMA MaxOfFirst ==
    ASSUME NEW i \in Nat
    PROVE  Max(1..(i + 1)) = i + 1 /\ 1..(i + 1) # {} /\ (1..(i + 1)) \ {i + 1} = 1..i
<1>1. PICK m : m = Max(1..(i + 1)) OBVIOUS
<1>2. \E x \in 1..(i + 1) : \A y \in 1..(i + 1) : x >= y
  <2>1. i + 1 \in 1..(i + 1) /\ \A y \in 1..(i + 1) : i + 1 >= y OBVIOUS
  <2> QED BY <2>1
<1>3. m \in 1..(i + 1) /\ \A y \in 1..(i + 1) : m >= y BY <1>1, <1>2 DEF Max
<1>4. i + 1 \in 1..(i + 1) OBVIOUS
<1>5. m = i + 1 BY <1>3, <1>4
<1> QED BY <1>1, <1>5

\* The function a fold from the left is made of.
LEMMA RowsTakenExist ==
    ASSUME NEW e, NEW rows \in Seq(Entry)
    PROVE  \E g : RowsTaken(g, e, rows)
<1>1. PICK S : S = DOMAIN rows OBVIOUS
<1>2. PICK n \in Nat : n = Len(rows) /\ S = 1..n BY <1>1, LenProperties
<1>3. IsFiniteSet(S) BY <1>2, FS_Interval
<1>4. \A s \in SUBSET S : s # {} => Max(s) \in s BY <1>2, MaxIn
<1>5. PICK pick : pick = [s \in SUBSET S |-> Max(s)] OBVIOUS
<1>6. PICK step : step = [s \in SUBSET S |-> [v \in Seq(Int) |-> IF s = {} THEN v ELSE OneRow(e, v, rows[Max(s)])]]
  OBVIOUS
<1>7. \A s \in SUBSET S, v \in Seq(Int) : s # {} => OneRow(e, v, rows[Max(s)]) \in Seq(Int)
  <2> TAKE s \in SUBSET S, v \in Seq(Int)
  <2> HAVE s # {}
  <2>1. Max(s) \in 1..n BY <1>2, <1>4
  <2>2. rows[Max(s)] \in Entry BY <1>2, <2>1, ElementOfSeq
  <2>3. rows[Max(s)].kg \in Int BY <2>2 DEF Entry
  <2> QED BY <2>3, AppendProperties DEF OneRow
<1>8. PICK g \in [SUBSET S -> Seq(Int)] : Folds(g, <<>>, step, pick, S)
  <2>1. Picks(pick, S) BY <1>4, <1>5 DEF Picks
  <2>2. Steps(step, S, Seq(Int)) BY <1>6, <1>7 DEF Steps
  <2>3. <<>> \in Seq(Int) OBVIOUS
  <2> QED BY <1>3, <2>1, <2>2, <2>3, FoldsExist
<1>9. \A s \in SUBSET S : s # {} => step[s][g[s \ {pick[s]}]] = OneRow(e, g[s \ {Max(s)}], rows[Max(s)])
  <2> TAKE s \in SUBSET S
  <2>1. s \ {Max(s)} \in SUBSET S OBVIOUS
  <2>2. g[s \ {Max(s)}] \in Seq(Int) BY <2>1
  <2> QED BY <1>5, <1>6, <2>2
<1>10. \A s \in SUBSET S : g[s] = IF s = {} THEN <<>> ELSE OneRow(e, g[s \ {Max(s)}], rows[Max(s)])
  BY <1>8, <1>9 DEF Folds
<1> QED BY <1>1, <1>10 DEF RowsTaken

\* Row by row.
LEMMA RowByRow ==
    ASSUME NEW e, NEW rows \in Seq(Entry)
    PROVE  \E g : /\ CreditsOn(e, rows) = g[1..Len(rows)]
                  /\ g[1..0] = <<>>
                  /\ \A i \in 0..(Len(rows) - 1) : g[1..(i + 1)] = OneRow(e, g[1..i], rows[i + 1])
<1>1. PICK n \in Nat : n = Len(rows) /\ DOMAIN rows = 1..n BY LenProperties
<1>2. PICK g : g = (CHOOSE h : RowsTaken(h, e, rows)) OBVIOUS
<1>3. RowsTaken(g, e, rows) BY <1>2, RowsTakenExist
<1>4. \A s \in SUBSET (1..n) : g[s] = IF s = {} THEN <<>> ELSE OneRow(e, g[s \ {Max(s)}], rows[Max(s)])
  BY <1>1, <1>3 DEF RowsTaken
<1>5. CreditsOn(e, rows) = g[1..n] BY <1>1, <1>2, CreditsOnDef
<1>6. g[1..0] = <<>>
  <2>1. 1..0 = {} /\ {} \in SUBSET (1..n) OBVIOUS
  <2> QED BY <1>4, <2>1
<1>7. ASSUME NEW i \in 0..(n - 1) PROVE g[1..(i + 1)] = OneRow(e, g[1..i], rows[i + 1])
  <2>1. PICK s : s = 1..(i + 1) OBVIOUS
  <2>2. s \in SUBSET (1..n) /\ i \in Nat BY <2>1
  <2>3. Max(s) = i + 1 /\ s # {} /\ s \ {i + 1} = 1..i BY <2>1, <2>2, MaxOfFirst
  <2> QED BY <1>4, <2>1, <2>2, <2>3
<1> QED BY <1>1, <1>5, <1>6, <1>7

\* No rows, no credits.
LEMMA CreditsOfNone == \A e : CreditsOn(e, <<>>) = <<>>
<1> TAKE e
<1>0. <<>> \in Seq(Entry) OBVIOUS
<1>1. PICK none : none = <<>> /\ none \in Seq(Entry) BY <1>0
<1>2. Len(none) = 0 BY <1>1
<1>3. PICK g : CreditsOn(e, none) = g[1..Len(none)] /\ g[1..0] = <<>> BY <1>1, RowByRow
<1> QED BY <1>1, <1>2, <1>3

\* Rows about something else credit nothing on it.
LEMMA CreditsOfOthers ==
    ASSUME NEW e, NEW rows \in Seq(Entry), \A i \in 1..Len(rows) : rows[i].event # e
    PROVE  CreditsOn(e, rows) = <<>>
<1>1. PICK n \in Nat : n = Len(rows) BY LenProperties
<1>2. PICK g : /\ CreditsOn(e, rows) = g[1..n]
               /\ g[1..0] = <<>>
               /\ \A i \in 0..(n - 1) : g[1..(i + 1)] = OneRow(e, g[1..i], rows[i + 1])
  BY <1>1, RowByRow
<1> DEFINE N == {i \in Nat : i <= n => g[1..i] = <<>>}
<1>3. 0 \in N BY <1>2
<1>4. ASSUME NEW i \in Nat, i \in N PROVE i + 1 \in N
  <2>1. CASE i + 1 <= n
    <3>1. i \in 0..(n - 1) /\ i + 1 \in 1..n /\ i <= n BY <2>1
    <3>2. g[1..(i + 1)] = OneRow(e, g[1..i], rows[i + 1]) BY <1>2, <3>1
    <3>3. rows[i + 1].event # e BY <1>1, <3>1
    <3>4. g[1..i] = <<>> BY <1>4, <3>1
    <3> QED BY <3>2, <3>3, <3>4 DEF OneRow
  <2> QED BY <2>1
<1>5. Nat \subseteq N
  <2> HIDE DEF N
  <2> QED BY <1>3, <1>4, SetInduction
<1> QED BY <1>2, <1>5

\* The same rows and one more.
LEMMA CreditsOfOneMore ==
    ASSUME NEW e, NEW rows \in Seq(Entry), NEW row \in Entry
    PROVE  CreditsOn(e, Append(rows, row)) = OneRow(e, CreditsOn(e, rows), row)
<1>1. PICK n \in Nat : n = Len(rows) BY LenProperties
<1>2. PICK more : more = Append(rows, row) OBVIOUS
<1>3. more \in Seq(Entry) /\ Len(more) = n + 1 /\ more[n + 1] = row /\ \A i \in 1..n : more[i] = rows[i]
  BY <1>1, <1>2, AppendProperties
<1>4. PICK g : /\ CreditsOn(e, rows) = g[1..n]
               /\ g[1..0] = <<>>
               /\ \A i \in 0..(n - 1) : g[1..(i + 1)] = OneRow(e, g[1..i], rows[i + 1])
  BY <1>1, RowByRow
<1>5. PICK h : /\ CreditsOn(e, more) = h[1..(n + 1)]
               /\ h[1..0] = <<>>
               /\ \A i \in 0..n : h[1..(i + 1)] = OneRow(e, h[1..i], more[i + 1])
  <2>1. (n + 1) - 1 = n OBVIOUS
  <2> QED BY <1>3, <2>1, RowByRow
<1> DEFINE N == {i \in Nat : i <= n => g[1..i] = h[1..i]}
<1>6. 0 \in N BY <1>4, <1>5
<1>7. ASSUME NEW i \in Nat, i \in N PROVE i + 1 \in N
  <2>1. CASE i + 1 <= n
    <3>1. i \in 0..(n - 1) /\ i \in 0..n /\ i + 1 \in 1..n /\ i <= n BY <2>1
    <3>2. g[1..(i + 1)] = OneRow(e, g[1..i], rows[i + 1]) BY <1>4, <3>1
    <3>3. h[1..(i + 1)] = OneRow(e, h[1..i], more[i + 1]) BY <1>5, <3>1
    <3>4. more[i + 1] = rows[i + 1] BY <1>3, <3>1
    <3>5. g[1..i] = h[1..i] BY <1>7, <3>1
    <3> QED BY <3>2, <3>3, <3>4, <3>5
  <2> QED BY <2>1
<1>8. Nat \subseteq N
  <2> HIDE DEF N
  <2> QED BY <1>6, <1>7, SetInduction
<1>9. g[1..n] = h[1..n] BY <1>8
<1>10. h[1..(n + 1)] = OneRow(e, h[1..n], row)
  <2>1. n \in 0..n OBVIOUS
  <2> QED BY <1>3, <1>5, <2>1
<1> QED BY <1>2, <1>4, <1>5, <1>9, <1>10

\* What is credited on a weigh-in are numbers.
LEMMA CreditsType ==
    ASSUME NEW e, NEW rows \in Seq(Entry)
    PROVE  CreditsOn(e, rows) \in Seq(Int)
<1>1. PICK n \in Nat : n = Len(rows) BY LenProperties
<1>2. PICK g : /\ CreditsOn(e, rows) = g[1..n]
               /\ g[1..0] = <<>>
               /\ \A i \in 0..(n - 1) : g[1..(i + 1)] = OneRow(e, g[1..i], rows[i + 1])
  BY <1>1, RowByRow
<1> DEFINE N == {i \in Nat : i <= n => g[1..i] \in Seq(Int)}
<1>3. 0 \in N
  <2>1. <<>> \in Seq(Int) OBVIOUS
  <2> QED BY <1>2, <2>1
<1>4. ASSUME NEW i \in Nat, i \in N PROVE i + 1 \in N
  <2>1. CASE i + 1 <= n
    <3>1. i \in 0..(n - 1) /\ i + 1 \in 1..n /\ i <= n BY <2>1
    <3>2. g[1..(i + 1)] = OneRow(e, g[1..i], rows[i + 1]) BY <1>2, <3>1
    <3>3. rows[i + 1] \in Entry BY <1>1, <3>1, ElementOfSeq
    <3>4. rows[i + 1].kg \in Int BY <3>3 DEF Entry
    <3>5. g[1..i] \in Seq(Int) BY <1>4, <3>1
    <3>6. g[1..(i + 1)] \in Seq(Int) BY <3>2, <3>4, <3>5, AppendProperties DEF OneRow
    <3> QED BY <3>6
  <2> QED BY <2>1
<1>5. Nat \subseteq N
  <2> HIDE DEF N
  <2> QED BY <1>3, <1>4, SetInduction
<1> QED BY <1>2, <1>5

\* So are what a ticket is credited.
LEMMA AmountsType ==
    ASSUME NEW rows \in Seq(Entry)
    PROVE  Amounts(rows) \in Seq(Int)
<1>1. PICK n \in Nat : n = Len(rows) BY LenProperties
<1>2. \A i \in 1..n : rows[i].kg \in Int
  <2> TAKE i \in 1..n
  <2>1. rows[i] \in Entry BY <1>1, ElementOfSeq
  <2> QED BY <2>1 DEF Entry
<1>3. Amounts(rows) \in [1..n -> Int] BY <1>1, <1>2 DEF Amounts
<1> QED BY <1>3

\* What each request credits on e; none but x's credits anything.
EachCredits(e, rows) == [r \in Requests |-> CreditsOn(e, rows[r])]
NoneBut(e, rows, x) == \A r \in Requests \ {x} : CreditsOn(e, rows[r]) = <<>>

\* All that is credited on e where one request at most has anything about it.
LEMMA CreditedThrough ==
    ASSUME NEW e, NEW rows \in [Requests -> Seq(Entry)], NEW ticket \in Seq(Entry), NEW x, NoneBut(e, rows, x)
    PROVE  Concatenate(Amounts(ticket), EachCredits(e, rows))
               = IF x \in Requests THEN Amounts(ticket) \o CreditsOn(e, rows[x]) ELSE Amounts(ticket)
<1>1. PICK f : f = EachCredits(e, rows) OBVIOUS
<1>2. PICK base : base = Amounts(ticket) OBVIOUS
<1>3. f \in [Requests -> Seq(Int)] BY <1>1, CreditsType DEF EachCredits
<1>4. base \in Seq(Int) BY <1>2, AmountsType
<1>5. \A y \in Requests \ {x} : f[y] = <<>> BY <1>1 DEF EachCredits, NoneBut
<1>0. IsFiniteSet(Requests) BY PickupAssumption
<1>6. Concatenate(base, f) = IF x \in Requests THEN base \o f[x] ELSE base
  <2> HIDE <1>1, <1>2
  <2> QED BY <1>0, <1>3, <1>4, <1>5, OnlyOneIsNotEmpty
<1>7. x \in Requests => f[x] = CreditsOn(e, rows[x]) BY <1>1 DEF EachCredits
<1> QED BY <1>1, <1>2, <1>6, <1>7

\* What is credited on e changes with the rows about it alone.
LEMMA CreditedSame ==
    ASSUME NEW e, \A r \in Requests : CreditsOn(e, pickupRows'[r]) = CreditsOn(e, pickupRows[r]),
           Amounts(ticketRows'[e]) = Amounts(ticketRows[e])
    PROVE  CreditedOn(e)' = CreditedOn(e)
<1>1. [r \in Requests |-> CreditsOn(e, pickupRows'[r])] = [r \in Requests |-> CreditsOn(e, pickupRows[r])]
  OBVIOUS
<1>2. CreditedOn(e)' = Concatenate(Amounts(ticketRows'[e]), [r \in Requests |-> CreditsOn(e, pickupRows'[r])])
  BY DEF CreditedOn, Concatenate, FoldFunction, FoldFunctionOnSet, MapThenFoldSet, CreditsOn, FoldLeft, Amounts
<1>3. CreditedOn(e) = Concatenate(Amounts(ticketRows[e]), [r \in Requests |-> CreditsOn(e, pickupRows[r])])
  BY DEF CreditedOn, Concatenate
<1> QED BY <1>1, <1>2, <1>3

\* A request credits nothing on a weigh-in it is not linked to.
LEMMA CreditsElsewhere ==
    ASSUME Inv, SerialInv, NEW r \in Requests, NEW e, reqs[r].event # e
    PROVE  CreditsOn(e, pickupRows[r]) = <<>>
<1>1. RowOK(r) /\ pickupRows[r] \in Seq(Entry) BY DEF SerialInv, Inv, TypeInv, TypeOK
<1>2. CASE reqs[r].status # "redeemed" BY <1>1, <1>2, CreditsOfNone DEF RowOK
<1>3. CASE reqs[r].status = "redeemed"
  <2>1. Len(pickupRows[r]) \in {1, 2} BY <1>3, LedgerOfRow
  <2>2. pickupRows[r][1].event = reqs[r].event /\ (Len(pickupRows[r]) = 2 => pickupRows[r][2].event = reqs[r].event)
    BY <1>1, <1>3 DEF RowOK
  <2>3. \A i \in 1..Len(pickupRows[r]) : i = 1 \/ (i = 2 /\ Len(pickupRows[r]) = 2)
    <3>1. CASE Len(pickupRows[r]) = 1 BY <3>1
    <3>2. CASE Len(pickupRows[r]) = 2 BY <3>2
    <3> QED BY <2>1, <3>1, <3>2
  <2>4. \A i \in 1..Len(pickupRows[r]) : pickupRows[r][i].event # e BY <2>2, <2>3
  <2> QED BY <1>1, <2>4, CreditsOfOthers
<1> QED BY <1>2, <1>3

\* A ticket without rows adds nothing.
LEMMA AmountsOfNothing == \A credits \in Seq(Int) : Amounts(<<>>) \o credits = credits
BY AmountsOfOne, ConcatProperties

\* A weigh-in behind a request is credited through it alone.
LEMMA ThroughARequest ==
    ASSUME Inv, SerialInv, NEW e \in Events, NEW r \in Requests, reqs[r].event = e
    PROVE  /\ CreditedOn(e) = CreditsOn(e, pickupRows[r])
           /\ \A s \in Requests \ {r} : CreditsOn(e, pickupRows[s]) = <<>>
           /\ ticketRows[e] = <<>>
<1>1. LinkOK(e) /\ TicketOK(e) BY DEF SerialInv, Inv, TicketInv
<1>2. ticketRows[e] = <<>> BY <1>1 DEF LinkOK, LinkedTo, TicketOK
<1>3. \A s \in Requests \ {r} : reqs[s].event # e BY <1>1 DEF LinkOK, LinkedTo
<1>4. \A s \in Requests \ {r} : CreditsOn(e, pickupRows[s]) = <<>> BY <1>3, CreditsElsewhere
<1>5. pickupRows \in [Requests -> Seq(Entry)] /\ ticketRows[e] \in Seq(Entry) BY DEF Inv, TypeInv, TypeOK
<1>6. CreditedOn(e) = Amounts(ticketRows[e]) \o CreditsOn(e, pickupRows[r])
  <2>1. PICK rows : rows = pickupRows OBVIOUS
  <2>2. PICK ticket : ticket = ticketRows[e] OBVIOUS
  <2>3. rows \in [Requests -> Seq(Entry)] BY <1>5, <2>1
  <2>4. ticket \in Seq(Entry) BY <1>5, <2>2
  <2>5. NoneBut(e, rows, r) BY <1>4, <2>1 DEF NoneBut
  <2>6. Concatenate(Amounts(ticket), EachCredits(e, rows))
            = IF r \in Requests THEN Amounts(ticket) \o CreditsOn(e, rows[r]) ELSE Amounts(ticket)
    <3> HIDE <2>1, <2>2
    <3> QED BY <2>3, <2>4, <2>5, CreditedThrough
  <2> QED BY <2>1, <2>2, <2>6, CreditedIsConcatenated DEF EachCredits
<1>7. CreditsOn(e, pickupRows[r]) \in Seq(Int) BY <1>5, CreditsType
<1> QED BY <1>2, <1>4, <1>6, <1>7, AmountsOfNothing

\* One behind none through its ticket.
LEMMA ThroughItsTicket ==
    ASSUME Inv, SerialInv, NEW e \in Events, LinkedTo(e) = {}
    PROVE  CreditedOn(e) = Amounts(ticketRows[e])
<1>1. \A r \in Requests : CreditsOn(e, pickupRows[r]) = <<>> BY CreditsElsewhere DEF LinkedTo
<1>2. pickupRows \in [Requests -> Seq(Entry)] /\ ticketRows[e] \in Seq(Entry) BY DEF Inv, TypeInv, TypeOK
<1>3. None \notin Requests BY PickupAssumption
<1>4. PICK rows : rows = pickupRows OBVIOUS
<1>5. PICK ticket : ticket = ticketRows[e] OBVIOUS
<1>6. rows \in [Requests -> Seq(Entry)] BY <1>2, <1>4
<1>7. ticket \in Seq(Entry) BY <1>2, <1>5
<1>8. NoneBut(e, rows, None) BY <1>1, <1>4 DEF NoneBut
<1>9. Concatenate(Amounts(ticket), EachCredits(e, rows))
          = IF None \in Requests THEN Amounts(ticket) \o CreditsOn(e, rows[None]) ELSE Amounts(ticket)
  <2> HIDE <1>4, <1>5
  <2> QED BY <1>6, <1>7, <1>8, CreditedThrough
<1> QED BY <1>3, <1>4, <1>5, <1>9, CreditedIsConcatenated DEF EachCredits

\* All that is credited on each weigh-in.
weighEntries == [e \in Events |-> CreditedOn(e)]

\* After a step, all that is credited on e is what the rows then add up to.
LEMMA CreditedNext ==
    ASSUME NEW e
    PROVE  CreditedOn(e)' = Concatenate(Amounts(ticketRows'[e]), EachCredits(e, pickupRows'))
BY DEF CreditedOn, Concatenate, FoldFunction, FoldFunctionOnSet, MapThenFoldSet, CreditsOn, FoldLeft, Amounts,
       EachCredits

\* No row, no credit.
LEMMA NothingCredited ==
    ASSUME UNCHANGED <<pickupRows, ticketRows>>
    PROVE  weighEntries' = weighEntries
<1>1. \A e \in Events : CreditedOn(e)' = CreditedOn(e)
  <2> TAKE e \in Events
  <2>1. \A r \in Requests : CreditsOn(e, pickupRows'[r]) = CreditsOn(e, pickupRows[r]) OBVIOUS
  <2>2. Amounts(ticketRows'[e]) = Amounts(ticketRows[e]) OBVIOUS
  <2> QED BY <2>1, <2>2, CreditedSame
<1> QED BY <1>1 DEF weighEntries

\* A row about e changes what is credited on e alone.
LEMMA OneMoreCredit ==
    ASSUME NEW e \in Events, NEW credits, CreditedOn(e)' = credits,
           \A x \in Events \ {e} : CreditedOn(x)' = CreditedOn(x)
    PROVE  weighEntries' = [weighEntries EXCEPT ![e] = credits]
BY DEF weighEntries

\* A row about the weigh-in behind a request.
LEMMA RequestCredited ==
    ASSUME Inv, SerialInv, NEW r \in Requests, NEW e \in Events, reqs[r].event = e,
           NEW row \in Entry, row.event = e,
           pickupRows' = [pickupRows EXCEPT ![r] = Append(@, row)], ticketRows' = ticketRows
    PROVE  /\ weighEntries[e] = CreditsOn(e, pickupRows[r])
           /\ weighEntries' = [weighEntries EXCEPT ![e] = Append(CreditsOn(e, pickupRows[r]), row.kg)]
<1>1. /\ CreditedOn(e) = CreditsOn(e, pickupRows[r])
      /\ \A s \in Requests \ {r} : CreditsOn(e, pickupRows[s]) = <<>>
      /\ ticketRows[e] = <<>>
  BY ThroughARequest
<1>2. pickupRows \in [Requests -> Seq(Entry)] BY DEF Inv, TypeInv, TypeOK
<1>3. PICK rows : rows = pickupRows OBVIOUS
<1>4. PICK more : more = pickupRows' OBVIOUS
<1>5. more = [rows EXCEPT ![r] = Append(@, row)] /\ rows \in [Requests -> Seq(Entry)] BY <1>2, <1>3, <1>4
<1>6. rows[r] \in Seq(Entry) /\ more[r] = Append(rows[r], row) /\ \A s \in Requests \ {r} : more[s] = rows[s]
  BY <1>5
<1>7. more[r] \in Seq(Entry) BY <1>6, AppendProperties
<1>8. more \in [Requests -> Seq(Entry)] BY <1>5, <1>6, <1>7
<1>9. \A x : CreditsOn(x, more[r]) = OneRow(x, CreditsOn(x, rows[r]), row) BY <1>6, CreditsOfOneMore
<1>10. CreditsOn(e, more[r]) = Append(CreditsOn(e, rows[r]), row.kg) BY <1>9 DEF OneRow
<1>11. CreditedOn(e)' = Append(CreditsOn(e, pickupRows[r]), row.kg)
  <2>1. NoneBut(e, more, r) BY <1>1, <1>3, <1>6 DEF NoneBut
  <2>2. <<>> \in Seq(Entry) OBVIOUS
  <2>3. Concatenate(Amounts(<<>>), EachCredits(e, more))
            = IF r \in Requests THEN Amounts(<<>>) \o CreditsOn(e, more[r]) ELSE Amounts(<<>>)
    <3> HIDE <1>3, <1>4
    <3> QED BY <1>8, <2>1, <2>2, CreditedThrough
  <2>4. CreditsOn(e, more[r]) \in Seq(Int) BY <1>7, CreditsType
  <2>5. Concatenate(Amounts(<<>>), EachCredits(e, more)) = CreditsOn(e, more[r])
    BY <2>3, <2>4, AmountsOfNothing
  <2>6. CreditedOn(e)' = Concatenate(Amounts(ticketRows'[e]), EachCredits(e, pickupRows')) BY CreditedNext
  <2>7. ticketRows'[e] = <<>> BY <1>1
  <2>8. CreditedOn(e)' = CreditsOn(e, more[r]) BY <1>4, <2>5, <2>6, <2>7
  <2> QED BY <1>3, <1>10, <2>8
<1>12. ASSUME NEW x \in Events \ {e} PROVE CreditedOn(x)' = CreditedOn(x)
  <2>1. CreditsOn(x, more[r]) = CreditsOn(x, rows[r]) BY <1>9 DEF OneRow
  <2>2. \A s \in Requests : CreditsOn(x, pickupRows'[s]) = CreditsOn(x, pickupRows[s])
    BY <1>3, <1>4, <1>6, <2>1
  <2>3. Amounts(ticketRows'[x]) = Amounts(ticketRows[x]) OBVIOUS
  <2> QED BY <2>2, <2>3, CreditedSame
<1>13. weighEntries[e] = CreditsOn(e, pickupRows[r]) BY <1>1 DEF weighEntries
<1>14. weighEntries' = [weighEntries EXCEPT ![e] = Append(CreditsOn(e, pickupRows[r]), row.kg)]
  <2>1. PICK credits : credits = Append(CreditsOn(e, pickupRows[r]), row.kg) OBVIOUS
  <2>2. CreditedOn(e)' = credits BY <1>11, <2>1
  <2> QED BY <1>12, <2>1, <2>2, OneMoreCredit
<1> QED BY <1>13, <1>14

\* A row about a weigh-in behind no request.
LEMMA TicketCredited ==
    ASSUME Inv, SerialInv, NEW e \in Events, LinkedTo(e) = {}, NEW row \in Entry,
           ticketRows' = [ticketRows EXCEPT ![e] = Append(@, row)], pickupRows' = pickupRows
    PROVE  /\ weighEntries[e] = Amounts(ticketRows[e])
           /\ weighEntries' = [weighEntries EXCEPT ![e] = Append(Amounts(ticketRows[e]), row.kg)]
<1>1. CreditedOn(e) = Amounts(ticketRows[e]) BY ThroughItsTicket
<1>2. \A r \in Requests : CreditsOn(e, pickupRows[r]) = <<>> BY CreditsElsewhere DEF LinkedTo
<1>3. pickupRows \in [Requests -> Seq(Entry)] /\ ticketRows \in [Events -> Seq(Entry)]
  BY DEF Inv, TypeInv, TypeOK
<1>4. PICK rows : rows = pickupRows OBVIOUS
<1>5. PICK ticket : ticket = ticketRows'[e] OBVIOUS
<1>6. ticketRows[e] \in Seq(Entry) /\ ticket = Append(ticketRows[e], row) BY <1>3, <1>5
<1>7. ticket \in Seq(Entry) BY <1>6, AppendProperties
<1>8. rows \in [Requests -> Seq(Entry)] BY <1>3, <1>4
<1>9. NoneBut(e, rows, None) BY <1>2, <1>4 DEF NoneBut
<1>10. Concatenate(Amounts(ticket), EachCredits(e, rows))
          = IF None \in Requests THEN Amounts(ticket) \o CreditsOn(e, rows[None]) ELSE Amounts(ticket)
  <2> HIDE <1>4, <1>5
  <2> QED BY <1>7, <1>8, <1>9, CreditedThrough
<1>11. CreditedOn(e)' = Amounts(ticket)
  <2>1. CreditedOn(e)' = Concatenate(Amounts(ticketRows'[e]), EachCredits(e, pickupRows')) BY CreditedNext
  <2>2. None \notin Requests BY PickupAssumption
  <2> QED BY <1>4, <1>5, <1>10, <2>1, <2>2
<1>12. Amounts(ticket) = Append(Amounts(ticketRows[e]), row.kg) BY <1>6, AmountsAppend
<1>13. ASSUME NEW x \in Events \ {e} PROVE CreditedOn(x)' = CreditedOn(x)
  <2>1. \A s \in Requests : CreditsOn(x, pickupRows'[s]) = CreditsOn(x, pickupRows[s]) OBVIOUS
  <2>2. Amounts(ticketRows'[x]) = Amounts(ticketRows[x]) BY <1>3
  <2> QED BY <2>1, <2>2, CreditedSame
<1>14. weighEntries[e] = Amounts(ticketRows[e]) BY <1>1 DEF weighEntries
<1>15. weighEntries' = [weighEntries EXCEPT ![e] = Append(Amounts(ticketRows[e]), row.kg)]
  <2>1. PICK credits : credits = Append(Amounts(ticketRows[e]), row.kg) OBVIOUS
  <2>2. CreditedOn(e)' = credits BY <1>11, <1>12, <2>1
  <2> QED BY <1>13, <2>1, <2>2, OneMoreCredit
<1> QED BY <1>14, <1>15

\* One row about e.
LEMMA CreditsOfOne ==
    ASSUME NEW e, NEW rows \in Seq(Entry), Len(rows) = 1, rows[1].event = e
    PROVE  CreditsOn(e, rows) = <<rows[1].kg>>
<1>1. PICK row \in Entry : row = rows[1] BY ElementOfSeq
<1>2. <<>> \in Seq(Entry) OBVIOUS
<1>3. rows = Append(<<>>, row) BY <1>1
<1>4. CreditsOn(e, Append(<<>>, row)) = OneRow(e, CreditsOn(e, <<>>), row) BY <1>2, CreditsOfOneMore
<1>5. OneRow(e, <<>>, row) = <<row.kg>> BY <1>1 DEF OneRow
<1> QED BY <1>1, <1>3, <1>4, <1>5, CreditsOfNone

\* A code's redemption is the weigh-in's one credit.
LEMMA RedeemPays ==
    ASSUME Inv, SerialInv, NEW p \in Procs, RedeemCommit(p)
    PROVE  \E e \in Events, kg \in Weights : WeighIns!Pay(e, kg)
<1> DEFINE c == call[p]
<1>0. c \in Call /\ ArgsOK(c) /\ Stands(c) /\ c.at = "redeemCommit"
    BY DEF Inv, TypeInv, CallsOK, SerialInv, RedeemCommit, At
<1>1. PICK r \in Requests, e \in Events, kg \in Weights : r = c.r /\ e = c.e /\ kg = c.kg
    BY <1>0 DEF ArgsOK, HasRequest, HasEvent, HasWeight, Redeeming
<1>2. /\ reqs[r].status = "collected" /\ reqs[r].event = e
      /\ kg = IF c.verified THEN reweighs[e] ELSE ScaleKg[e]
    BY <1>0, <1>1 DEF Stands, Redeeming
<1>3. RowOK(r) BY DEF SerialInv
<1>4. pickupRows[r] = <<>> BY <1>2, <1>3 DEF RowOK
<1>5. PICK row : row = PickupCredit(c) OBVIOUS
<1>6. row \in Entry /\ row.event = e /\ row.kg = kg
  <2>1. c.row.code \in Codes \cup {None} /\ c.who \in Requesters
    BY <1>0 DEF Call, Request, ArgsOK, HasCaller, Redeeming
  <2>2. kg \in Int BY PickupAssumption
  <2> QED BY <1>1, <1>5, <2>1, <2>2 DEF PickupCredit, Entry
<1>7. pickupRows' = [pickupRows EXCEPT ![r] = Append(@, row)] /\ ticketRows' = ticketRows /\ reweighs' = reweighs
  BY <1>1, <1>5 DEF RedeemCommit
<1>8. /\ weighEntries[e] = CreditsOn(e, pickupRows[r])
      /\ weighEntries' = [weighEntries EXCEPT ![e] = Append(CreditsOn(e, pickupRows[r]), row.kg)]
  BY <1>2, <1>6, <1>7, RequestCredited
<1>9. CreditsOn(e, pickupRows[r]) = <<>> BY <1>4, CreditsOfNone
<1>10. weighEntries[e] = <<>> /\ weighEntries' = [weighEntries EXCEPT ![e] = <<kg>>]
  BY <1>6, <1>8, <1>9
<1>11. kg = ScaleKg[e] \/ kg = reweighs[e] BY <1>2
<1>12. WeighIns!Pay(e, kg) BY <1>7, <1>10, <1>11 DEF WeighIns!Pay, weighEntries
<1> QED BY <1>12

\* So is a ticket's claim.
LEMMA ClaimPays ==
    ASSUME Inv, SerialInv, NEW p \in Procs, WalkInCommit(p)
    PROVE  \/ \E e \in Events, kg \in Weights : WeighIns!Pay(e, kg)
           \/ UNCHANGED <<reweighs, weighEntries>>
<1>0. reweighs' = reweighs /\ pickupRows' = pickupRows BY DEF WalkInCommit
<1>1. CASE UNCHANGED <<claims, ticketRows>> BY <1>0, <1>1, NothingCredited
<1>2. CASE WalkInPaid(p)
  <2>1. PICK e \in Events, kg \in Weights : e = call[p].e /\ kg = call[p].kg BY <1>2 DEF WalkInPaid
  <2>2. LinkedTo(e) = {}
    <3>1. Stands(call[p]) /\ call[p].at = "walkinCommit" BY DEF SerialInv, WalkInCommit, At
    <3> QED BY <2>1, <3>1 DEF Stands
  <2>3. PICK row : row = WalkInCredit(call[p]) OBVIOUS
  <2>4. row \in Entry /\ row.kg = kg
    <3>1. call[p].who \in Requesters /\ kg \in Int BY <1>2, PickupAssumption DEF WalkInPaid
    <3> QED BY <2>1, <2>3, <3>1 DEF WalkInCredit, Entry
  <2>5. ticketRows[e] = <<>> BY <1>2, <2>1 DEF WalkInPaid
  <2>6. ticketRows' = [ticketRows EXCEPT ![e] = Append(@, row)]
    <3>1. ticketRows' = [ticketRows EXCEPT ![e] = <<row>>] BY <1>2, <2>1, <2>3 DEF WalkInPaid
    <3>2. Append(ticketRows[e], row) = <<row>> BY <2>5
    <3> QED BY <3>1, <3>2
  <2>7. /\ weighEntries[e] = Amounts(ticketRows[e])
        /\ weighEntries' = [weighEntries EXCEPT ![e] = Append(Amounts(ticketRows[e]), row.kg)]
    BY <1>0, <2>2, <2>4, <2>6, TicketCredited
  <2>8. weighEntries[e] = <<>> /\ weighEntries' = [weighEntries EXCEPT ![e] = <<kg>>]
    <3>1. Amounts(ticketRows[e]) = <<>> BY <2>5, AmountsOfOne
    <3>2. Append(Amounts(ticketRows[e]), row.kg) = <<kg>> BY <2>4, <3>1
    <3> QED BY <2>7, <3>1, <3>2
  <2>9. kg = ScaleKg[e] \/ kg = reweighs[e] BY <1>2, <2>1 DEF WalkInPaid
  <2>10. WeighIns!Pay(e, kg) BY <1>0, <2>8, <2>9 DEF WeighIns!Pay, weighEntries
  <2> QED BY <2>10
<1> QED BY <1>1, <1>2, WalkInCommitPays

\* The settlement of a request is the one correction.
LEMMA SettlementCorrects ==
    ASSUME Inv, SerialInv, NEW p \in Procs, SettleRequest(p)
    PROVE  \/ \E e \in Events : WeighIns!Correct(e)
           \/ UNCHANGED <<reweighs, weighEntries>>
<1> DEFINE c == call[p]
<1>0. c \in Call /\ ArgsOK(c) /\ Stands(c) /\ ReadsStand(c) /\ c.at = "settleRequest"
    BY DEF Inv, TypeInv, CallsOK, TicketInv, SerialInv, SettleRequest, At
<1>1. PICK e \in Events, r \in Requests : e = c.e /\ r = c.r
    BY <1>0 DEF ArgsOK, HasEvent, HasRequest, Reconciling
<1>2. /\ c.row = reqs[r] /\ reqs[r].status = "redeemed" /\ ~ reqs[r].reconciled /\ reqs[r].event = e
    BY <1>0, <1>1 DEF Stands, OwesSettlement
<1>3. c.kg \in Weights /\ reweighs[e] = c.kg /\ c.kg # None
    BY <1>0, <1>1, PickupAssumption DEF ArgsOK, HasWeight, ReadsStand, Reconciling
<1>4. RowOK(r) /\ pickupRows[r] \in Seq(Entry) BY DEF SerialInv, Inv, TypeInv, TypeOK
<1>5. /\ reqs[r].kg \in Weights /\ pickupRows[r][1].event = e
      /\ pickupRows[r][1].kg = reqs[r].kg /\ Len(pickupRows[r]) = 1
    BY <1>2, <1>4 DEF RowOK
<1>6. PICK delta : delta = Difference(c.kg, reqs[r].kg) OBVIOUS
<1>w. Weights \subseteq Int BY PickupAssumption
<1>i. reqs[r].kg \in Int /\ c.kg \in Int BY <1>3, <1>5, <1>w
<1>7. delta \in Int /\ delta = c.kg - reqs[r].kg BY <1>6, <1>i DEF Difference
<1>8. pickupRows' = [pickupRows EXCEPT ![r] = Settled(@, e, Booker[r], delta)]
      /\ ticketRows' = ticketRows /\ reweighs' = reweighs
    BY <1>1, <1>2, <1>6 DEF SettleRequest
<1>t. ticketRows' = ticketRows BY <1>8
<1>9. CASE delta = 0
  <2>1. pickupRows' = pickupRows BY <1>8, <1>9 DEF Settled, Inv, TypeInv, TypeOK
  <2> QED BY <1>8, <2>1, NothingCredited
<1>10. CASE delta # 0
  <2>1. PICK row : row = [kind |-> "adjustment", event |-> e, code |-> None, to |-> Booker[r], kg |-> delta]
    OBVIOUS
  <2>2. row \in Entry /\ row.event = e /\ row.kg = delta BY <1>7, <2>1, PickupAssumption DEF Entry
  <2>3. pickupRows' = [pickupRows EXCEPT ![r] = Append(@, row)] BY <1>8, <1>10, <2>1 DEF Settled
  <2>4. /\ weighEntries[e] = CreditsOn(e, pickupRows[r])
        /\ weighEntries' = [weighEntries EXCEPT ![e] = Append(CreditsOn(e, pickupRows[r]), row.kg)]
    BY <1>2, <1>t, <2>2, <2>3, RequestCredited
  <2>5. CreditsOn(e, pickupRows[r]) = <<reqs[r].kg>> BY <1>4, <1>5, CreditsOfOne
  <2>6. PICK entries : entries = weighEntries OBVIOUS
  <2>7. Len(entries[e]) = 1 /\ entries[e][1] = reqs[r].kg BY <2>4, <2>5, <2>6
  <2>8. weighEntries' = [weighEntries EXCEPT ![e] = Append(@, reweighs[e] - reqs[r].kg)]
    BY <1>3, <1>7, <2>2, <2>4
  <2>9. reweighs[e] # None /\ reqs[r].kg # reweighs[e] BY <1>3, <1>7, <1>i, <1>10
  <2>10. Len(weighEntries[e]) = 1 /\ weighEntries[e][1] = reqs[r].kg BY <2>6, <2>7
  <2>11. WeighIns!Correct(e) BY <1>8, <2>8, <2>9, <2>10 DEF WeighIns!Correct, weighEntries
  <2> QED BY <2>11
<1> QED BY <1>9, <1>10

\* So is the settlement of a ticket.
LEMMA TicketCorrects ==
    ASSUME Inv, SerialInv, NEW p \in Procs, SettleClaim(p)
    PROVE  \/ \E e \in Events : WeighIns!Correct(e)
           \/ UNCHANGED <<reweighs, weighEntries>>
<1>0. reweighs' = reweighs /\ pickupRows' = pickupRows BY DEF SettleClaim
<1>1. TicketSettled(p) BY SettleClaimSettles
<1>2. PICK e \in Events : e = call[p].e BY <1>1 DEF TicketSettled
<1>3. PICK to, delta : to = claims[e].by /\ delta = reweighs[e] - claims[e].kg OBVIOUS
<1>4. /\ ticketRows \in [Events -> Seq(Entry)] /\ to \in Requesters /\ delta \in Int
      /\ reweighs[e] \in Int /\ claims[e].kg \in Int
    BY <1>1, <1>2, <1>3, PickupAssumption DEF TicketSettled, Claimed, Inv, TypeInv, TypeOK, ClaimsOK, Paid
<1>5. Len(ticketRows[e]) = 1 /\ ticketRows[e][1].kg = claims[e].kg
    BY <1>1, <1>2 DEF TicketSettled
<1>6. ticketRows' = [ticketRows EXCEPT ![e] = Settled(@, e, to, delta)]
    BY <1>1, <1>2, <1>3 DEF TicketSettled
<1>7. LinkedTo(e) = {} BY <1>1, <1>2 DEF TicketSettled, SerialInv, LinkOK
<1>8. CASE delta = 0
  <2>1. ticketRows' = ticketRows BY <1>4, <1>6, <1>8 DEF Settled
  <2> QED BY <1>0, <2>1, NothingCredited
<1>9. CASE delta # 0
  <2>1. PICK row : row = [kind |-> "adjustment", event |-> e, code |-> None, to |-> to, kg |-> delta] OBVIOUS
  <2>2. row \in Entry /\ row.kg = delta BY <1>4, <2>1 DEF Entry
  <2>3. ticketRows' = [ticketRows EXCEPT ![e] = Append(@, row)] BY <1>6, <1>9, <2>1 DEF Settled
  <2>4. /\ weighEntries[e] = Amounts(ticketRows[e])
        /\ weighEntries' = [weighEntries EXCEPT ![e] = Append(Amounts(ticketRows[e]), row.kg)]
    BY <1>0, <1>7, <2>2, <2>3, TicketCredited
  <2>5. Len(Amounts(ticketRows[e])) = 1 /\ Amounts(ticketRows[e])[1] = claims[e].kg BY <1>5 DEF Amounts
  <2>6. weighEntries' = [weighEntries EXCEPT ![e] = Append(@, reweighs[e] - claims[e].kg)]
    BY <1>3, <2>2, <2>4
  <2>7. reweighs[e] # None /\ claims[e].kg # reweighs[e]
    <3>1. reweighs[e] \in Weights BY <1>1, <1>2 DEF TicketSettled
    <3> QED BY <1>3, <1>4, <1>9, <3>1, PickupAssumption
  <2>8. Len(weighEntries[e]) = 1 /\ weighEntries[e][1] = claims[e].kg BY <2>4, <2>5
  <2>9. WeighIns!Correct(e) BY <1>0, <2>6, <2>7, <2>8 DEF WeighIns!Correct, weighEntries
  <2> QED BY <2>9
<1> QED BY <1>8, <1>9

\* The ledger as a whole, while calls do not overlap and even if one dies: each weigh-in
\* is credited once, through whichever path comes first, and corrected at most once, to
\* the hub's weight.
THEOREM LedgerPaysOnce ==
    ASSUME OneCall
    PROVE  MCSpec => LedgerPaysEachWeighInOnce
<1>1. MCInit => WeighIns!Init
  <2> SUFFICES ASSUME MCInit PROVE WeighIns!Init OBVIOUS
  <2>1. \A r \in Requests : pickupRows[r] = <<>> BY DEF MCInit, Init
  <2>2. \A e \in Events : ticketRows[e] = <<>> BY DEF MCInit, Init
  <2>3. reweighs = [e \in Events |-> None] BY DEF MCInit, Init
  <2>4. PICK rows : rows = pickupRows OBVIOUS
  <2>5. rows \in [Requests -> Seq(Entry)] BY <2>4 DEF MCInit, Init
  <2>6. ASSUME NEW e \in Events PROVE CreditedOn(e) = <<>>
    <3>1. NoneBut(e, rows, None) BY <2>1, <2>4, CreditsOfNone DEF NoneBut
    <3>2. <<>> \in Seq(Entry) OBVIOUS
    <3>3. Concatenate(Amounts(<<>>), EachCredits(e, rows))
              = IF None \in Requests THEN Amounts(<<>>) \o CreditsOn(e, rows[None]) ELSE Amounts(<<>>)
      <4> HIDE <2>4
      <4> QED BY <2>5, <3>1, <3>2, CreditedThrough
    <3>4. None \notin Requests BY PickupAssumption
    <3> QED BY <2>2, <2>4, <2>6, <3>3, <3>4, CreditedIsConcatenated, AmountsOfOne DEF EachCredits
  <2> QED BY <2>3, <2>6 DEF WeighIns!Init
<1>2. AllInv /\ [MCNext]_<<vars, died>> => [WeighIns!Next]_WeighIns!vars
  <2> SUFFICES ASSUME Inv, SerialInv, [MCNext]_<<vars, died>>
               PROVE  [WeighIns!Next]_WeighIns!vars
    BY DEF AllInv
  <2>0. ASSUME UNCHANGED <<reweighs, weighEntries>> PROVE UNCHANGED WeighIns!vars
    BY <2>0 DEF WeighIns!vars, weighEntries
  <2>1. CASE UNCHANGED <<vars, died>>
    <3>1. UNCHANGED <<reweighs, pickupRows, ticketRows>> BY <2>1 DEF vars
    <3> QED BY <2>0, <3>1, NothingCredited
  <2>2. ASSUME NEW p \in Procs, NEW e \in Events, NEW kg \in Weights, Reweigh(p, e, kg)
        PROVE  WeighIns!Verify(e, kg)
    <3>1. weighEntries' = weighEntries BY <2>2, NothingCredited DEF Reweigh
    <3> QED BY <2>2, <3>1 DEF Reweigh, Unweighed, WeighIns!Verify, weighEntries
  <2>3. ASSUME NEW p \in Procs, Start(p)
        PROVE  \/ \E e \in Events, kg \in Weights : Reweigh(p, e, kg)
               \/ UNCHANGED <<reweighs, pickupRows, ticketRows>>
    BY <2>3 DEF Start, Create, Assign, Cancel, Redeem, Collect, Fulfill, Submit, ClaimWalkIn, tables
  <2>4. ASSUME NEW p \in Procs, Continue(p), ~ RedeemCommit(p), ~ WalkInCommit(p),
               ~ SettleRequest(p), ~ SettleClaim(p)
        PROVE  UNCHANGED <<reweighs, pickupRows, ticketRows>>
    BY <2>4
    DEF Continue, SaveReload, SaveWrite, IngestRead, IngestRaced, ClaimRead, ClaimInsert,
        IngestSave, FulfillLinked, FulfillClaim, FulfillReweigh, IssueCode, IssueRaced,
        RedeemWeigh, WalkInLinked, WalkInWeigh, ReconcileRequest, ReconcileClaim, tables
  <2>5. ASSUME NEW p \in Procs, Crash(p)
        PROVE  UNCHANGED <<reweighs, pickupRows, ticketRows>>
    BY <2>5 DEF Crash, tables
  <2>6. ASSUME UNCHANGED <<reweighs, pickupRows, ticketRows>> PROVE UNCHANGED WeighIns!vars
    BY <2>0, <2>6, NothingCredited
  <2>7. ASSUME NEW p \in Procs, Start(p) PROVE [WeighIns!Next]_WeighIns!vars
    BY <2>2, <2>3, <2>6, <2>7 DEF WeighIns!Next
  <2>8. ASSUME NEW p \in Procs, Continue(p) PROVE [WeighIns!Next]_WeighIns!vars
    <3>1. CASE RedeemCommit(p) BY <3>1, RedeemPays DEF WeighIns!Next
    <3>2. CASE WalkInCommit(p) BY <2>0, <3>2, ClaimPays DEF WeighIns!Next
    <3>3. CASE SettleRequest(p) BY <2>0, <3>3, SettlementCorrects DEF WeighIns!Next
    <3>4. CASE SettleClaim(p) BY <2>0, <3>4, TicketCorrects DEF WeighIns!Next
    <3> QED BY <2>4, <2>6, <2>8, <3>1, <3>2, <3>3, <3>4
  <2> QED BY <2>1, <2>5, <2>6, <2>7, <2>8 DEF MCNext, Serve
<1> QED BY <1>1, <1>2, AllInvHolds, PTL DEF MCSpec, LedgerPaysEachWeighInOnce, WeighIns!Spec

=============================================================================
