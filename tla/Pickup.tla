------------------------------- MODULE Pickup -------------------------------
(***************************************************************************)
(* From a sack on a scale to a credit in a wallet.                         *)
(*                                                                         *)
(* The tables of the backend that take part are variables; each HTTP       *)
(* handler is a call served by a process, and is split at its awaits: one  *)
(* action per database statement (or per transaction commit, which is when *)
(* its writes become visible), so that every interleaving of handlers that *)
(* PostgreSQL's READ COMMITTED allows is a behaviour.  A read that can only *)
(* ever be answered one way once it has been answered (an ingested event,   *)
(* a recorded re-weigh) is merged into the next statement.                  *)
(*                                                                         *)
(* Weights stand for credits: an entry records the kilograms it pays for,  *)
(* so that pricing (and the rate table) is left out.                       *)
(*                                                                         *)
(* An operator introduced as a "slip" is how the definition below it could  *)
(* have been got wrong; nothing uses it, and TLC finds a property violated  *)
(* where it takes that definition's place.                                 *)
(***************************************************************************)
EXTENDS Integers, Sequences, FiniteSets

CONSTANTS
    Requests,      \* bookings that may be made
    Events,        \* signed weigh-ins, identified by their payload hash
    Walkins,       \* those captured at the hub scale, sent with a claim code
    Requesters,    \* wallet owners
    Collectors,
    Procs,         \* concurrent calls the server has in flight
    Weights,       \* kilograms, as a scale can show them
    Booker,        \* who books each request
    Capturer,      \* which collector signs each weigh-in
    Material,      \* of each request and of each weigh-in
    ScaleKg,       \* the weight each weigh-in was signed with
    Codes,         \* redemption codes that can be drawn
    MaxCodeAttempts, \* draws before issueCode() gives up
    None           \* SQL NULL

ASSUME PickupAssumption ==
    /\ Walkins \subseteq Events
    /\ Weights \subseteq Nat
    /\ ScaleKg \in [Events -> Weights]
    /\ Booker \in [Requests -> Requesters]
    /\ Capturer \in [Events -> Collectors]
    /\ MaxCodeAttempts \in Nat \ {0}
    /\ IsFiniteSet(Requests)
    /\ None \notin Events \cup Requests \cup Requesters \cup Collectors \cup Weights \cup Codes

VARIABLES
    reqs,        \* collection_requests
    events,      \* collection_events: "absent", "clean" or "quarantined"
    claims,      \* weighin_claims, None where there is no row
    reweighs,    \* event_reweighs: the verified weight, None where no row
    pickupRows,  \* wallet_transactions of each request, oldest first
    ticketRows,  \* wallet_transactions of each weigh-in with no request
    call         \* what each process is serving

vars == <<reqs, events, claims, reweighs, pickupRows, ticketRows, call>>
tables == <<reqs, events, claims, reweighs, pickupRows, ticketRows>>

-----------------------------------------------------------------------------
Status == {"unbooked", "requested", "assigned", "collected", "redeemed", "cancelled"}

\* A collection_requests row.
Request ==
    [status: Status, collector: Collectors \cup {None}, event: Events \cup {None},
     code: Codes \cup {None}, kg: Weights \cup {None}, reconciled: BOOLEAN]

Unbooked ==
    [status |-> "unbooked", collector |-> None, event |-> None,
     code |-> None, kg |-> None, reconciled |-> FALSE]

\* A weighin_claims row.
Claim == [by: Requesters \cup {None}, kg: Weights \cup {None}, reconciled: BOOLEAN]

Unclaimed == [by |-> None, kg |-> None, reconciled |-> FALSE]

ASSUME NoRowAssumption == None \notin Claim

\* A wallet_transactions row, and the code (no column of it) that was redeemed for it.  kg
\* is negative for a debit.
Entry ==
    [kind: {"pickup", "walkin", "adjustment"}, event: Events, code: Codes \cup {None},
     to: Requesters, kg: Int]

Phase ==
    {"idle", "reload", "write", "ingestRead", "ingestSave", "issue",
     "raced", "claimRead", "claimInsert", "linked", "claimed", "reweighed",
     "redeemWeigh", "redeemCommit", "walkinLinked", "walkinWeigh", "walkinCommit",
     "reconcile", "reconcileClaim", "settleRequest", "settleClaim"}

\* What a handler holds across its awaits: the arguments it was called with, the
\* row it has read (and changed in memory), the row TypeORM reloads in save().
Call ==
    [at: Phase, r: Requests \cup {None}, e: Events \cup {None},
     who: Requesters \cup {None}, row: Request, base: Request,
     kg: Weights \cup {None}, verified: BOOLEAN, draws: Nat]

Idle ==
    [at |-> "idle", r |-> None, e |-> None, who |-> None, row |-> Unbooked,
     base |-> Unbooked, kg |-> None, verified |-> FALSE, draws |-> 0]

TypeOK ==
    /\ reqs \in [Requests -> Request]
    /\ events \in [Events -> {"absent", "clean", "quarantined"}]
    /\ claims \in [Events -> Claim \cup {None}]
    /\ reweighs \in [Events -> Weights \cup {None}]
    /\ pickupRows \in [Requests -> Seq(Entry)]
    /\ ticketRows \in [Events -> Seq(Entry)]
    /\ call \in [Procs -> Call]

Init ==
    /\ reqs = [r \in Requests |-> Unbooked]
    /\ events = [e \in Events |-> "absent"]
    /\ claims = [e \in Events |-> None]
    /\ reweighs = [e \in Events |-> None]
    /\ pickupRows = [r \in Requests |-> <<>>]
    /\ ticketRows = [e \in Events |-> <<>>]
    /\ call = [p \in Procs |-> Idle]

-----------------------------------------------------------------------------
At(p, phase) == call[p].at = phase

Begin(p, c) ==
    /\ At(p, "idle")
    /\ call' = [call EXCEPT ![p] = c]

Goto(p, phase) == call' = [call EXCEPT ![p].at = phase]

\* The handler answers (or throws): whatever it held is gone.
Finish(p) == call' = [call EXCEPT ![p] = Idle]

Open(r) == reqs[r].status \in {"requested", "assigned"}

LinkedTo(e) == {r \in Requests : reqs[r].event = e}

\* Slip: the hub's weight is never looked up.
CapturedKg(e) == ScaleKg[e]

\* The weight a credit is computed from: the hub's if there is one.
BestKg(e) == IF reweighs[e] # None THEN reweighs[e] ELSE ScaleKg[e]

-----------------------------------------------------------------------------
(* RequestsService: booking, dispatch and cancellation                     *)

\* create(): the requester books a pickup.
Create(p, r) ==
    /\ At(p, "idle")
    /\ reqs[r] = Unbooked
    /\ reqs' = [reqs EXCEPT ![r].status = "requested"]
    /\ UNCHANGED <<events, claims, reweighs, pickupRows, ticketRows, call>>

\* assign() and cancel() read the row, change the copy in memory and save() it.
Assign(p, r, c) ==
    /\ reqs[r].status = "requested"
    /\ Begin(p, [Idle EXCEPT !.at = "reload", !.r = r,
                             !.row = [reqs[r] EXCEPT !.status = "assigned", !.collector = c]])
    /\ UNCHANGED tables

Cancel(p, r) ==
    /\ Open(r)
    /\ Begin(p, [Idle EXCEPT !.at = "reload", !.r = r,
                             !.row = [reqs[r] EXCEPT !.status = "cancelled"]])
    /\ UNCHANGED tables

\* TypeORM's save() of a loaded entity: it reads the row again to compute a diff ...
SaveReload(p) ==
    /\ At(p, "reload")
    /\ call' = [call EXCEPT ![p].at = "write", ![p].base = reqs[call[p].r]]
    /\ UNCHANGED tables

\* ... and updates the columns in which the entity differs from what it read, with
\* the entity's values, unconditionally.
Overwrite(now, base, mine) == IF mine # base THEN mine ELSE now

Merged(now, base, row) ==
    [status     |-> Overwrite(now.status, base.status, row.status),
     collector  |-> Overwrite(now.collector, base.collector, row.collector),
     event      |-> Overwrite(now.event, base.event, row.event),
     code       |-> Overwrite(now.code, base.code, row.code),
     kg         |-> Overwrite(now.kg, base.kg, row.kg),
     reconciled |-> Overwrite(now.reconciled, base.reconciled, row.reconciled)]

SaveWrite(p) ==
    /\ At(p, "write")
    /\ reqs' = [reqs EXCEPT ![call[p].r] = Merged(@, call[p].base, call[p].row)]
    /\ Finish(p)
    /\ UNCHANGED <<events, claims, reweighs, pickupRows, ticketRows>>

-----------------------------------------------------------------------------
(* EventsService.ingest(): a signed weigh-in reaches the server            *)

\* POST /events from a hub phone: the weigh-in and, riding beside it, its claim code.
Submit(p, e) ==
    /\ e \in Walkins
    /\ Begin(p, [Idle EXCEPT !.at = "ingestRead", !.e = e])
    /\ UNCHANGED tables

\* POST /requests/:id/collect: the request must be open, the caller's to collect and
\* of the material on the scale.
MayCollect(r, e) ==
    /\ Open(r)
    /\ reqs[r].collector \in {None, Capturer[e]}
    /\ Material[e] = Material[r]

Collect(p, r, e) ==
    /\ e \notin Walkins
    /\ MayCollect(r, e)
    /\ Begin(p, [Idle EXCEPT !.at = "ingestRead", !.r = r, !.e = e])
    /\ UNCHANGED tables

Doorstep(p) == call[p].r # None

\* A replay: the duplicate is answered with the original (and is refused a code at
\* the door), but a walk-in's claim ticket is recorded all the same.
IngestRead(p) ==
    /\ At(p, "ingestRead")
    /\ \/ /\ events[call[p].e] = "absent"
          /\ Goto(p, "ingestSave")
       \/ /\ events[call[p].e] # "absent"
          /\ IF Doorstep(p) THEN Finish(p) ELSE Goto(p, "claimRead")
    /\ UNCHANGED tables

\* Whether the integrity checks pass depends on the device, the clock and the photo.
IngestSave(p, verdict) ==
    /\ At(p, "ingestSave")
    /\ events[call[p].e] = "absent"
    /\ events' = [events EXCEPT ![call[p].e] = verdict]
    /\ IF ~ Doorstep(p) THEN Goto(p, "claimRead")
       ELSE IF verdict = "clean" THEN Goto(p, "issue")
       ELSE Finish(p)
    /\ UNCHANGED <<reqs, claims, reweighs, pickupRows, ticketRows>>

\* The unique index on payloadHash: a concurrent ingest of the same weigh-in won.
IngestRaced(p) ==
    /\ At(p, "ingestSave")
    /\ events[call[p].e] # "absent"
    /\ Finish(p)
    /\ UNCHANGED tables

\* recordClaim(): the first code for a weigh-in is the one that counts.
ClaimRead(p) ==
    /\ At(p, "claimRead")
    /\ IF claims[call[p].e] = None THEN Goto(p, "claimInsert") ELSE Finish(p)
    /\ UNCHANGED tables

\* The unique index on eventId: an insert that lost the race changes nothing.
NewTicket(e) == IF claims[e] = None THEN Unclaimed ELSE claims[e]

ClaimInsert(p) ==
    /\ At(p, "claimInsert")
    /\ claims' = [claims EXCEPT ![call[p].e] = NewTicket(call[p].e)]
    /\ Finish(p)
    /\ UNCHANGED <<reqs, events, reweighs, pickupRows, ticketRows>>

-----------------------------------------------------------------------------
(* RequestsService.fulfill() and issueCode()                               *)

\* The operator links a weigh-in to an open request; four reads follow each other.
Fulfill(p, r, e) ==
    /\ Open(r)
    /\ Begin(p, [Idle EXCEPT !.at = "linked", !.r = r, !.e = e])
    /\ UNCHANGED tables

FulfillLinked(p) ==
    /\ At(p, "linked")
    /\ IF events[call[p].e] # "absent" /\ LinkedTo(call[p].e) = {}
       THEN Goto(p, "claimed")
       ELSE Finish(p)
    /\ UNCHANGED tables

ClaimedAlready(e) == claims[e] # None /\ claims[e].by # None

FulfillClaim(p) ==
    /\ At(p, "claimed")
    /\ IF ClaimedAlready(call[p].e) THEN Finish(p) ELSE Goto(p, "reweighed")
    /\ UNCHANGED tables

HasReweigh(e) == reweighs[e] # None

FulfillReweigh(p) ==
    /\ At(p, "reweighed")
    /\ IF HasReweigh(call[p].e) THEN Goto(p, "issue") ELSE Finish(p)
    /\ UNCHANGED tables

\* The unique index on eventId refuses a weigh-in that another request holds.
HeldByAnother(e, r) == ~ (LinkedTo(e) \subseteq {r})

\* The unique index on redemptionCode refuses a code that another request has.
InUse(code, r) == \E s \in Requests \ {r} : reqs[s].code = code

\* One unconditional UPDATE of the request, by its id alone, with a code drawn at random;
\* either index may refuse it.
IssueCode(p) ==
    /\ At(p, "issue")
    /\ LET r == call[p].r
           e == call[p].e
       IN \E code \in Codes :
            \/ /\ ~ HeldByAnother(e, r) /\ ~ InUse(code, r)
               /\ reqs' = [reqs EXCEPT ![r].event = e, ![r].code = code, ![r].status = "collected"]
               /\ Finish(p)
            \/ /\ HeldByAnother(e, r) \/ InUse(code, r)
               /\ Goto(p, "raced")
               /\ UNCHANGED reqs
    /\ UNCHANGED <<events, claims, reweighs, pickupRows, ticketRows>>

\* The violation is looked into: a conflict if the weigh-in is another's; otherwise it must
\* have been the code, and another is drawn, up to MaxCodeAttempts in all.
IssueRaced(p) ==
    /\ At(p, "raced")
    /\ IF HeldByAnother(call[p].e, call[p].r) \/ call[p].draws + 1 >= MaxCodeAttempts
         THEN Finish(p)
         ELSE call' = [call EXCEPT ![p].at = "issue", ![p].draws = @ + 1]
    /\ UNCHANGED tables

-----------------------------------------------------------------------------
(* WalletService.redeem() of a pickup's code: redeemRequest()              *)

\* The code finds its request, which must be the caller's and "collected".
Redeem(p, r) ==
    /\ reqs[r].code # None
    /\ reqs[r].status = "collected"
    /\ Begin(p, [Idle EXCEPT !.at = "redeemWeigh", !.r = r, !.who = Booker[r],
                             !.row = reqs[r]])
    /\ UNCHANGED tables

\* The weight to credit.  A row with no weigh-in finds none to credit.
RedeemWeigh(p) ==
    /\ At(p, "redeemWeigh")
    /\ LET e == call[p].row.event
       IN IF e = None THEN Finish(p)
          ELSE call' = [call EXCEPT ![p].at = "redeemCommit", ![p].e = e,
                                    ![p].kg = BestKg(e), ![p].verified = HasReweigh(e)]
    /\ UNCHANGED tables

PickupCredit(c) ==
    [kind |-> "pickup", event |-> c.e, code |-> c.row.code, to |-> c.who, kg |-> c.kg]

\* Slip: a code that has served is cleared.
ClearedRow(row, c) ==
    [row EXCEPT !.status = "redeemed", !.code = None, !.kg = c.kg, !.reconciled = c.verified]

\* Slip: the status is left behind.
CreditedRow(row, c) == [row EXCEPT !.kg = c.kg, !.reconciled = c.verified]

RedeemedRow(row, c) ==
    [row EXCEPT !.status = "redeemed", !.kg = c.kg, !.reconciled = c.verified]

\* The credit and the request's new status commit together; the UPDATE is by id alone.
RedeemCommit(p) ==
    /\ At(p, "redeemCommit")
    /\ LET c == call[p]
       IN /\ pickupRows' = [pickupRows EXCEPT ![c.r] = Append(@, PickupCredit(c))]
          /\ reqs' = [reqs EXCEPT ![c.r] = RedeemedRow(@, c)]
    /\ Finish(p)
    /\ UNCHANGED <<events, claims, reweighs, ticketRows>>

-----------------------------------------------------------------------------
(* WalletService.redeem() of a claim code: claimWalkIn()                   *)

\* Slip: a quarantined walk-in can be claimed.
ClaimableUnchecked(e) == claims[e] # None /\ claims[e].by = None

\* The ticket exists and is unclaimed, its weigh-in passed the integrity checks.
Claimable(e) ==
    /\ claims[e] # None
    /\ claims[e].by = None
    /\ events[e] = "clean"

ClaimWalkIn(p, e, q) ==
    /\ Claimable(e)
    /\ Begin(p, [Idle EXCEPT !.at = "walkinLinked", !.e = e, !.who = q])
    /\ UNCHANGED tables

WalkInLinked(p) ==
    /\ At(p, "walkinLinked")
    /\ IF LinkedTo(call[p].e) = {} THEN Goto(p, "walkinWeigh") ELSE Finish(p)
    /\ UNCHANGED tables

WalkInWeigh(p) ==
    /\ At(p, "walkinWeigh")
    /\ LET e == call[p].e
       IN call' = [call EXCEPT ![p].at = "walkinCommit", ![p].kg = BestKg(e),
                               ![p].verified = HasReweigh(e)]
    /\ UNCHANGED tables

WalkInCredit(c) ==
    [kind |-> "walkin", event |-> c.e, code |-> None, to |-> c.who, kg |-> c.kg]

\* Slip: the UPDATE is unconditional.
AnyTicket(e) == TRUE

\* UPDATE ... WHERE claimedAt IS NULL: its answer decides who was first.
StillUnclaimed(e) == claims[e].by = None

WalkInCommit(p) ==
    /\ At(p, "walkinCommit")
    /\ LET c == call[p]
       IN \/ /\ StillUnclaimed(c.e)
             /\ claims' = [claims EXCEPT ![c.e] =
                              [by |-> c.who, kg |-> c.kg, reconciled |-> c.verified]]
             /\ ticketRows' = [ticketRows EXCEPT ![c.e] = Append(@, WalkInCredit(c))]
          \/ /\ ~ StillUnclaimed(c.e)
             /\ UNCHANGED <<claims, ticketRows>>
    /\ Finish(p)
    /\ UNCHANGED <<reqs, events, reweighs, pickupRows>>

-----------------------------------------------------------------------------
(* ReweighService.create() and WalletService.reconcile()                   *)

\* Slip: a weigh-in can be re-weighed again.
Weighed(e) == events[e] # "absent"

\* The re-weigh is saved (one per weigh-in, by a unique index) and stands whatever
\* becomes of the settlement that follows it.
Unweighed(e) == events[e] # "absent" /\ reweighs[e] = None

Reweigh(p, e, kg) ==
    /\ Unweighed(e)
    /\ reweighs' = [reweighs EXCEPT ![e] = kg]
    /\ Begin(p, [Idle EXCEPT !.at = "reconcile", !.e = e, !.kg = kg])
    /\ UNCHANGED <<reqs, events, claims, pickupRows, ticketRows>>

\* reconcile(): a request behind the weigh-in decides, even when nothing is owed.
OwesSettlement(row) ==
    /\ row.status = "redeemed"
    /\ ~ row.reconciled
    /\ row.kg # None

ReconcileRequest(p) ==
    /\ At(p, "reconcile")
    /\ \/ /\ LinkedTo(call[p].e) = {}
          /\ Goto(p, "reconcileClaim")
       \/ \E r \in LinkedTo(call[p].e) :
            IF OwesSettlement(reqs[r])
            THEN call' = [call EXCEPT ![p].at = "settleRequest", ![p].r = r, ![p].row = reqs[r]]
            ELSE Finish(p)
    /\ UNCHANGED tables

TicketOwesSettlement(e) ==
    /\ claims[e] # None
    /\ claims[e].by # None
    /\ ~ claims[e].reconciled

ReconcileClaim(p) ==
    /\ At(p, "reconcileClaim")
    /\ IF TicketOwesSettlement(call[p].e) THEN Goto(p, "settleClaim") ELSE Finish(p)
    /\ UNCHANGED tables

\* Slip: the operands change places.
Shortfall(verified, credited) == credited - verified

\* settleDifference(): one adjusting row, none when the scales agree.
Difference(verified, credited) == verified - credited

\* Slip: a row of zero where the scales agree.
SettledAnyhow(rows, e, to, delta) ==
    Append(rows, [kind |-> "adjustment", event |-> e, code |-> None, to |-> to, kg |-> delta])

Settled(rows, e, to, delta) ==
    IF delta = 0 THEN rows
    ELSE Append(rows, [kind |-> "adjustment", event |-> e, code |-> None, to |-> to, kg |-> delta])

SettleRequest(p) ==
    /\ At(p, "settleRequest")
    /\ LET c == call[p]
       IN /\ pickupRows' = [pickupRows EXCEPT ![c.r] =
                               Settled(@, c.e, Booker[c.r], Difference(c.kg, c.row.kg))]
          /\ reqs' = [reqs EXCEPT ![c.r].reconciled = TRUE]
    /\ Finish(p)
    /\ UNCHANGED <<events, claims, reweighs, ticketRows>>

SettleClaim(p) ==
    /\ At(p, "settleClaim")
    /\ LET c == call[p]
           ticket == claims[c.e]
       IN /\ ticketRows' = [ticketRows EXCEPT ![c.e] =
                               Settled(@, c.e, ticket.by, Difference(c.kg, ticket.kg))]
          /\ claims' = [claims EXCEPT ![c.e].reconciled = TRUE]
    /\ Finish(p)
    /\ UNCHANGED <<reqs, events, reweighs, pickupRows>>

-----------------------------------------------------------------------------
\* The call dies between two of its statements: the server stops, the connection to
\* the database drops, or a statement fails.  What was committed stays.
Crash(p) ==
    /\ ~ At(p, "idle")
    /\ Finish(p)
    /\ UNCHANGED tables

Start(p) ==
    \/ \E r \in Requests :
         \/ Create(p, r)
         \/ \E c \in Collectors : Assign(p, r, c)
         \/ Cancel(p, r)
         \/ Redeem(p, r)
         \/ \E e \in Events : Collect(p, r, e) \/ Fulfill(p, r, e)
    \/ \E e \in Events :
         \/ Submit(p, e)
         \/ \E q \in Requesters : ClaimWalkIn(p, e, q)
         \/ \E kg \in Weights : Reweigh(p, e, kg)

Continue(p) ==
    \/ SaveReload(p) \/ SaveWrite(p)
    \/ IngestRead(p) \/ IngestRaced(p) \/ ClaimRead(p) \/ ClaimInsert(p)
    \/ \E verdict \in {"clean", "quarantined"} : IngestSave(p, verdict)
    \/ FulfillLinked(p) \/ FulfillClaim(p) \/ FulfillReweigh(p) \/ IssueCode(p) \/ IssueRaced(p)
    \/ RedeemWeigh(p) \/ RedeemCommit(p)
    \/ WalkInLinked(p) \/ WalkInWeigh(p) \/ WalkInCommit(p)
    \/ ReconcileRequest(p) \/ ReconcileClaim(p) \/ SettleRequest(p) \/ SettleClaim(p)

Serve == \E p \in Procs : Start(p) \/ Continue(p)

Next == \E p \in Procs : Start(p) \/ Continue(p) \/ Crash(p)

Spec == Init /\ [][Next]_vars

-----------------------------------------------------------------------------
(* What holds whatever calls race                                          *)

\* A walk-in is credited exactly when its ticket is claimed: once, to the claimant,
\* for the weight the ticket records; the only other row is the hub's correction.
\* (claimWalkIn's conditional UPDATE against several phones scanning one QR.)
TicketPaidOnce ==
    \A e \in Events :
        LET rows == ticketRows[e]
            ticket == claims[e]
        IN IF ticket = None \/ ticket.by = None
           THEN rows = <<>>
           ELSE /\ Len(rows) \in {1, 2}
                /\ rows[1].kind = "walkin"
                /\ rows[1].kg = ticket.kg
                /\ \A i \in 1..Len(rows) : rows[i].to = ticket.by
                /\ Len(rows) = 2 => rows[2].kind = "adjustment" /\ ticket.reconciled

\* What has been credited on a weigh-in, after at most one correction.
AddsUpTo(rows, kg) ==
    \/ Len(rows) = 1 /\ rows[1].kg = kg
    \/ Len(rows) = 2 /\ rows[1].kg + rows[2].kg = kg

\* A ticket marked as reconciled has been credited the hub's weight, to the gram,
\* whichever of claim and re-weigh came first (reconcile() and claimWalkIn()).
ReconciledTicketIsExact ==
    \A e \in Events :
        (claims[e] # None /\ claims[e].reconciled) =>
            /\ reweighs[e] # None
            /\ AddsUpTo(ticketRows[e], reweighs[e])

\* A weigh-in that failed its integrity checks is never paid out as a walk-in.
QuarantinedTicketUnpaid ==
    \A e \in Events : ticketRows[e] # <<>> => events[e] = "clean"

Corrections(rows, e) ==
    {i \in 1..Len(rows) : rows[i].kind = "adjustment" /\ rows[i].event = e}

\* The hub's re-weigh of a weigh-in corrects the ledger at most once, whether a
\* request or a ticket was credited (reconcile() runs once, after the one re-weigh).
OneCorrectionPerWeighIn ==
    \A e \in Events :
        /\ \A i, j \in Corrections(ticketRows[e], e) : i = j
        /\ \A r \in Requests :
             /\ \A i, j \in Corrections(pickupRows[r], e) : i = j
             /\ Corrections(pickupRows[r], e) # {} =>
                    /\ Corrections(ticketRows[e], e) = {}
                    /\ \A s \in Requests \ {r} : Corrections(pickupRows[s], e) = {}

-----------------------------------------------------------------------------
(* What the documentation says, and holds while calls do not overlap       *)

CreditsFor(r, e) ==
    {i \in 1..Len(pickupRows[r]) : pickupRows[r][i].kind = "pickup" /\ pickupRows[r][i].event = e}

\* "Each code redeems exactly once" (workflow/02): no code credits a wallet twice.
CodeRedeemsOnce ==
    \A r \in Requests :
        \A i, j \in 1..Len(pickupRows[r]) :
            (/\ pickupRows[r][i].kind = "pickup"
             /\ pickupRows[r][j].kind = "pickup"
             /\ pickupRows[r][i].code = pickupRows[r][j].code) => i = j

\* A redemption code pays the booking it was issued for and no other: a code is drawn at
\* random, may collide, and may be drawn again later, and only the row that keeps it keeps it
\* from the next booking (the unique index behind issueCode()).
CodePaysItsOwnBooking ==
    \A r, s \in Requests :
        \A i \in 1..Len(pickupRows[r]), j \in 1..Len(pickupRows[s]) :
            /\ pickupRows[r][i].kind = "pickup"
            /\ pickupRows[s][j].kind = "pickup"
            /\ pickupRows[r][i].code = pickupRows[s][j].code
            => r = s

\* "One weigh-in, one credit": not both as a walk-in and through a pickup, nor
\* through two pickups.
OneWeighInOneCredit ==
    \A e \in Events, r \in Requests :
        CreditsFor(r, e) # {} =>
            /\ ticketRows[e] = <<>>
            /\ \A s \in Requests \ {r} : CreditsFor(s, e) = {}

\* The lifecycle of a request: requested, assigned, collected, redeemed, or
\* cancelled while it is still open.
Later(status) ==
    CASE status = "unbooked"  -> {"unbooked", "requested"}
      [] status = "requested" -> {"requested", "assigned", "collected", "cancelled"}
      [] status = "assigned"  -> {"assigned", "collected", "cancelled"}
      [] status = "collected" -> {"collected", "redeemed"}
      [] OTHER                -> {status}

StatusMovesForward ==
    [][\A r \in Requests : reqs'[r].status \in Later(reqs[r].status)]_vars

\* A request with a code has the weigh-in it stands for, and one that is redeemed
\* was credited that weigh-in's weight, corrected to the hub's once reconciled.
RequestMatchesLedger ==
    \A r \in Requests :
        LET row == reqs[r]
            rows == pickupRows[r]
        IN /\ (row.status \in {"collected", "redeemed"}) = (row.event # None /\ row.code # None)
           /\ row.status = "redeemed" <=> rows # <<>>
           /\ row.status = "redeemed" => rows[1].event = row.event /\ rows[1].kg = row.kg
           /\ row.reconciled =>
                /\ reweighs[row.event] # None
                /\ AddsUpTo(rows, reweighs[row.event])

Quiet == \A p \in Procs : At(p, "idle")

\* "The hub's later re-weigh still runs, reconciling the difference": with no call
\* under way, whatever was credited on a re-weighed weigh-in is the hub's weight.
NothingLeftToSettle ==
    Quiet => \A e \in Events :
        reweighs[e] # None =>
            /\ ticketRows[e] # <<>> => AddsUpTo(ticketRows[e], reweighs[e])
            /\ \A r \in LinkedTo(e) :
                 reqs[r].status = "redeemed" => AddsUpTo(pickupRows[r], reweighs[e])

-----------------------------------------------------------------------------
(* What the documentation says and the code does not do                    *)

\* A quarantined weigh-in "can never enter a batch or fulfill a request".
QuarantinedNeverFulfills ==
    \A r \in Requests : reqs[r].event # None => events[reqs[r].event] = "clean"

\* "Collected" is reached "only once the linked event has a verified/flagged
\* EventReweighEntity - never from a bare unverified weigh-in".
CollectedWasReweighed ==
    \A r \in Requests :
        reqs[r].status = "collected" /\ reqs[r].event # None => HasReweigh(reqs[r].event)

=============================================================================
