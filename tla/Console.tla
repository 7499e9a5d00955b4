------------------------------ MODULE Console ------------------------------
(***************************************************************************)
(* The dashboard: a page reads rows and, on its own, who is asking; offers  *)
(* controls by both; and a control's server action calls the backend and    *)
(* comes back to the page with a note.  The page is a snapshot: the row may *)
(* move on, and the account change, between what is seen and what is sent.  *)
(*                                                                         *)
(* One browser stays on one page, about one row of its table.  Everybody    *)
(* else is Elsewhere.  Filters, sorting, figures and layout are left out.   *)
(***************************************************************************)
EXTENDS Naturals, FiniteSets

CONSTANT None

VARIABLES
    page,      \* where the browser is
    row,       \* the status of the row the page is about, at the backend
    operator,  \* whom the guard finds behind proofchain_token: a role, or "none"
    requester, \* whom it finds behind proofchain_requester_token
    load,      \* the page being rendered on the server, or None
    view,      \* what the browser shows, or None
    call       \* the server action under way, or None

vars == <<page, row, operator, requester, load, view, call>>

-----------------------------------------------------------------------------
Staff == {"admin", "operator", "auditor"}

Editors == {"admin", "operator"}

Anybody == Staff \cup {"none"}

\* Of a page: who may read its list; whether it asks who is there, and when; and what it
\* makes of a read that fails.
Page(readers, asks, onError) == [readers |-> readers, asks |-> asks, onError |-> onError]

\* Of a server action: whom its endpoint admits, and how that moves the row.
Action(admits, moves) == [admits |-> admits, moves |-> moves]

When(condition, controls) == IF condition THEN controls ELSE {}

-----------------------------------------------------------------------------
(* The operators' pages, and what each offers to whom                       *)

RequestsPage == Page(Editors, "beside", "forgets")

\* Slip: an auditor is offered what an operator is.
RequestControlsAll(who, r) ==
    When(who \in Staff /\ r = "requested", {"assign"})
    \cup When(who \in Staff /\ r \in {"requested", "assigned"}, {"fulfil", "cancel"})

RequestControls(who, r) ==
    When(who \in Editors /\ r = "requested", {"assign"})
    \cup When(who \in Editors /\ r \in {"requested", "assigned"}, {"fulfil", "cancel"})

AssignAction == Action(Editors, {<<"requested", "assigned">>})
FulfilAction == Action(Editors, {<<"requested", "collected">>, <<"assigned", "collected">>})
CancelAction == Action(Editors, {<<"requested", "cancelled">>, <<"assigned", "cancelled">>})

CatalogRedemptionsPage == Page(Editors, "beside", "forgets")
RedemptionControls(who, r) == When(who \in Editors /\ r = "pending_fulfillment", {"handOver"})
HandOverAction == Action(Editors, {<<"pending_fulfillment", "fulfilled">>})

WithdrawalsPage == Page(Editors, "beside", "describes")
WithdrawalControls(who, r) == When(who \in Editors /\ r = "pending", {"payOut", "reject"})
PayOutAction == Action(Editors, {<<"pending", "paid">>})
RejectAction == Action(Editors, {<<"pending", "rejected">>})

PayoutsPage == Page(Staff, "beside", "describes")
\* The form takes ids that are typed, so it is there whatever there is to pay.
PayoutControls(who, r) ==
    When(who \in Editors /\ r = "pending", {"markPaid"}) \cup When(who \in Editors, {"createPayout"})
CreatePayoutAction == Action(Editors, {<<"verified", "pending">>})
MarkPaidAction == Action(Editors, {<<"pending", "paid">>})

CollectorsPage == Page(Staff, "beside", "forgets")
CollectorControls(who) == When(who \in Editors, {"addCollector"})
AddCollectorAction == Action(Editors, {<<"absent", "added">>})

MaterialRatesPage == Page(Editors, "beside", "forgets")
RateControls(who) == When(who = "admin", {"addRate"})
AddRateAction == Action({"admin"}, {<<"absent", "added">>, <<"added", "added">>})

CatalogItemsPage == Page(Anybody, "beside", "forgets")
ItemControls(who) == When(who = "admin", {"addItem"})
AddItemAction == Action({"admin"}, {<<"absent", "added">>, <<"added", "added">>})

MaterialsPage == Page(Anybody, "beside", "forgets")
\* A code is in use once a weigh-in or a batch carries it, which the list does not tell.
Active == {"active", "active, in use"}
Retired == {"retired", "retired, in use"}
InUse == {"active, in use", "retired, in use"}
Uses == {<<"active", "active, in use">>, <<"retired", "retired, in use">>}
MaterialTable(who, r) ==
    When(who = "admin" /\ r \in Active, {"edit", "retire", "delete"})
    \cup When(who = "admin" /\ r \in Retired, {"edit", "restore", "delete"})
\* Nothing becomes unused, and nothing is used by an edit.
Moves(from, to) == {m \in from \X to : m[1] \in InUse <=> m[2] \in InUse}
AddMaterialAction == Action({"admin"}, {<<"absent", "active">>})
EditMaterialAction == Action({"admin"}, Moves(Active, Active) \cup Moves(Retired, Retired))
RetireAction == Action({"admin"}, Moves(Active \cup Retired, Retired))
RestoreAction == Action({"admin"}, Moves(Active \cup Retired, Active))
\* "cannot be deleted": a code in use is refused with 409.
DeleteMaterialAction == Action({"admin"}, {<<"active", "absent">>, <<"retired", "absent">>})

BatchesPage == Page(Staff, "never", "describes")
BatchPage == Page(Staff, "never", "guesses")
\* The hidden input names the status to go to.
BatchControls(r) ==
    CASE r = "open" -> {"seal"} [] r = "sealed" -> {"process"} [] r = "processed" -> {"sell"}
      [] r = "sold" -> {}
SealAction == Action(Editors, {<<"open", "sealed">>})
ProcessAction == Action(Editors, {<<"sealed", "processed">>})
SellAction == Action(Editors, {<<"processed", "sold">>})

EventsPage == Page(Staff, "never", "describes")
ReweighPage == Page(Anybody, "never", "guesses")
ReweighControls(r) == When(r = "claimed", {"reweigh"})
ReweighAction == Action(Editors, {<<"claimed", "verified">>})

ReportPage == Page(Anybody, "never", "guesses")
EventProofPage == Page(Anybody, "never", "guesses")

-----------------------------------------------------------------------------
(* The requesters' pages                                                   *)

RequesterDashboardPage == Page({"requester"}, "first", "sign in")
RequesterWalletPage == Page({"requester"}, "first", "sign in")
ClaimAction == Action({"requester"}, {<<"collected", "redeemed">>})
WithdrawAction == Action({"requester"}, {<<"redeemed", "pending">>})

\* Without its lists it is shown all the same.
RequesterRewardsPage == Page({"requester"}, "first", "goes on")
RewardControls(r) == When(r = "stocked", {"redeemItem"})
RedeemItemAction == Action({"requester"}, {<<"stocked", "pending_fulfillment">>})

RequesterRequestPage == Page({"requester"}, "first", "sign in")
RequestForm == {"book"}
\* One booking for each of two materials, one after the other.
RequestPickup == Action({"requester"}, {<<"absent", "partly booked">>, <<"partly booked", "booked">>})

RequesterHistoryPage == Page({"requester"}, "first", "sign in")

-----------------------------------------------------------------------------
Pages ==
    {"requests", "redemptions", "withdrawals", "payouts", "collectors", "rates", "items",
     "materials", "batches", "batch", "events", "reweigh", "report", "proof", "dashboard",
     "wallet", "rewards", "request", "history"}

PageOf(pg) ==
    CASE pg = "requests" -> RequestsPage [] pg = "redemptions" -> CatalogRedemptionsPage
      [] pg = "withdrawals" -> WithdrawalsPage [] pg = "payouts" -> PayoutsPage
      [] pg = "collectors" -> CollectorsPage [] pg = "rates" -> MaterialRatesPage
      [] pg = "items" -> CatalogItemsPage [] pg = "materials" -> MaterialsPage
      [] pg = "batches" -> BatchesPage [] pg = "batch" -> BatchPage [] pg = "events" -> EventsPage
      [] pg = "reweigh" -> ReweighPage [] pg = "report" -> ReportPage
      [] pg = "proof" -> EventProofPage [] pg = "dashboard" -> RequesterDashboardPage
      [] pg = "wallet" -> RequesterWalletPage [] pg = "rewards" -> RequesterRewardsPage
      [] pg = "request" -> RequesterRequestPage [] pg = "history" -> RequesterHistoryPage

Offers(pg, who, r) ==
    CASE pg = "requests" -> RequestControls(who, r)
      [] pg = "redemptions" -> RedemptionControls(who, r)
      [] pg = "withdrawals" -> WithdrawalControls(who, r)
      [] pg = "payouts" -> PayoutControls(who, r)
      [] pg = "collectors" -> CollectorControls(who)
      [] pg = "rates" -> RateControls(who)
      [] pg = "items" -> ItemControls(who)
      [] pg = "materials" -> MaterialTable(who, r) \cup When(who = "admin", {"addMaterial"})
      [] pg = "batch" -> BatchControls(r)
      [] pg = "reweigh" -> ReweighControls(r)
      [] pg = "dashboard" -> {"claim"}
      [] pg = "wallet" -> {"claim", "withdraw"}
      [] pg = "rewards" -> RewardControls(r)
      [] pg = "request" -> RequestForm
      [] pg \in {"batches", "events", "report", "proof", "history"} -> {}

Controls ==
    {"assign", "fulfil", "cancel", "handOver", "payOut", "reject", "createPayout", "markPaid",
     "addCollector", "addRate", "addItem", "addMaterial", "edit", "retire", "restore", "delete",
     "seal", "process", "sell", "reweigh", "claim", "withdraw", "redeemItem", "book"}

ActionOf(c) ==
    CASE c = "assign" -> AssignAction [] c = "fulfil" -> FulfilAction
      [] c = "cancel" -> CancelAction [] c = "handOver" -> HandOverAction
      [] c = "payOut" -> PayOutAction [] c = "reject" -> RejectAction
      [] c = "createPayout" -> CreatePayoutAction [] c = "markPaid" -> MarkPaidAction
      [] c = "addCollector" -> AddCollectorAction [] c = "addRate" -> AddRateAction
      [] c = "addItem" -> AddItemAction [] c = "addMaterial" -> AddMaterialAction
      [] c = "edit" -> EditMaterialAction [] c = "retire" -> RetireAction
      [] c = "restore" -> RestoreAction [] c = "delete" -> DeleteMaterialAction
      [] c = "seal" -> SealAction [] c = "process" -> ProcessAction [] c = "sell" -> SellAction
      [] c = "reweigh" -> ReweighAction [] c = "claim" -> ClaimAction
      [] c = "withdraw" -> WithdrawAction [] c = "redeemItem" -> RedeemItemAction
      [] c = "book" -> RequestPickup

\* What can become of the row a page is about.
Statuses(pg) ==
    CASE pg = "requests" -> {"requested", "assigned", "collected", "cancelled"}
      [] pg = "redemptions" -> {"pending_fulfillment", "fulfilled"}
      [] pg = "withdrawals" -> {"pending", "paid", "rejected"}
      [] pg = "payouts" -> {"verified", "pending", "paid"}
      [] pg \in {"collectors", "rates", "items"} -> {"absent", "added"}
      [] pg = "materials" -> {"absent"} \cup Active \cup Retired
      [] pg \in {"batches", "batch", "report"} -> {"open", "sealed", "processed", "sold"}
      [] pg \in {"events", "reweigh", "proof"} -> {"claimed", "verified"}
      [] pg \in {"dashboard", "history"} -> {"collected", "redeemed"}
      [] pg = "wallet" -> {"collected", "redeemed", "pending"}
      [] pg = "rewards" -> {"stocked", "pending_fulfillment"}
      [] pg = "request" -> {"absent", "partly booked", "booked"}

OfRequester(pg) == PageOf(pg).asks = "first"

\* request() sends one cookie, requesterRequest() the other.
CallerOn(pg) == IF OfRequester(pg) THEN requester ELSE operator

-----------------------------------------------------------------------------
NoNote == [says |-> "nothing", did |-> 0]

Note == [says: {"nothing", "done", "refused", "no answer", "nothing was changed"}, did: 0..2]

Rows == UNION {Statuses(pg) : pg \in Pages} \cup {"nothing"}

Whos == Staff \cup {"none", "requester"}

Load == [row: Rows \cup {None}, who: Whos \cup {None}, note: Note]

View == [shows: {"rows", "login", "unauthenticated", "forbidden", "server", "offline"},
         cause: {"none", "401", "403", "500", "unreached"},
         row: Rows \cup {None}, who: Whos \cup {None}, note: Note]

Call == [control: Controls, at: {"sent", "applied", "refused"}, did: 0..2]

TypeOK ==
    /\ row \in Statuses(page)
    /\ operator \in Staff \cup {"none"} /\ requester \in {"requester", "none"}
    /\ load = None \/ load \in Load
    /\ view = None \/ view \in View
    /\ call = None \/ call \in Call

Init ==
    /\ page \in Pages
    /\ row \in Statuses(page)
    /\ IF OfRequester(page) THEN operator = "none" /\ requester \in {"requester", "none"}
       ELSE operator \in Staff \cup {"none"} /\ requester = "none"
    /\ load = None /\ view = None /\ call = None

-----------------------------------------------------------------------------
(* Everybody else                                                          *)

\* Another operator, another requester, a collector's phone that uses a material.
Elsewhere ==
    /\ \E to \in Statuses(page) \ {row} :
         /\ <<row, to>> \in Uses \cup UNION {ActionOf(c).moves : c \in Controls}
         /\ row' = to
    /\ UNCHANGED <<page, operator, requester, load, view, call>>

\* Another tab of the browser signs in or out, which the next call of this one finds.  The
\* cookie its page does not send plays no part.
SignIn ==
    /\ ~ OfRequester(page) /\ operator' \in Staff \ {operator}
    /\ UNCHANGED <<page, row, requester, load, view, call>>

\* Or the token runs out, or an administrator deactivates the account.
SignOut ==
    /\ operator # "none" /\ operator' = "none"
    /\ UNCHANGED <<page, row, requester, load, view, call>>

\* Logging in, or signing up.
SignInRequester ==
    /\ OfRequester(page) /\ requester = "none" /\ requester' = "requester"
    /\ UNCHANGED <<page, row, operator, load, view, call>>

SignOutRequester ==
    /\ requester = "requester" /\ requester' = "none"
    /\ UNCHANGED <<page, row, operator, load, view, call>>

-----------------------------------------------------------------------------
(* A page is rendered                                                      *)

Rendering(note) == [row |-> None, who |-> None, note |-> note]

Open ==
    /\ load = None /\ call = None
    /\ load' = Rendering(NoNote)
    /\ UNCHANGED <<page, row, operator, requester, view, call>>

Shows(what, cause) ==
    /\ view' = [shows |-> what, cause |-> cause, row |-> load.row, who |-> load.who, note |-> load.note]
    /\ load' = None

\* How a read can fail for somebody.
Causes(who, readers) ==
    {"500", "unreached"} \cup
    (IF who \in readers THEN {} ELSE {IF who = "none" THEN "401" ELSE "403"})

\* describeLoadError(): "the reader's next action differs in each".
DescribeLoadError(cause) ==
    CASE cause = "401" -> "unauthenticated" [] cause = "403" -> "forbidden"
      [] cause = "500" -> "server" [] cause = "unreached" -> "offline"

\* What the page says of a failed read.  One that "forgets" has `catch { ... <LoadError
\* error={error} />`, where this error is the one in the URL: any failure is described as
\* one that has no status.
SaysOf(cause) ==
    CASE PageOf(page).onError = "forgets" -> "offline"
      [] PageOf(page).onError = "guesses" -> IF cause \in {"401", "403"} THEN "unauthenticated" ELSE "offline"
      [] PageOf(page).onError = "describes" -> DescribeLoadError(cause)
      [] OTHER -> IF cause \in {"401", "403"} THEN "login" ELSE "offline"

\* A list arrives.  A requester page asks for it when it knows who is there.
ReadRow ==
    /\ load # None /\ load.row = None
    /\ (OfRequester(page) => load.who # None)
    /\ CallerOn(page) \in PageOf(page).readers
    /\ load' = [load EXCEPT !.row = row]
    /\ UNCHANGED <<page, row, operator, requester, view, call>>

\* It does not: the page is shown without waiting for the rest.  Rewards go on with none.
FailRow ==
    /\ load # None /\ load.row = None
    /\ (OfRequester(page) => load.who # None)
    /\ IF PageOf(page).onError = "goes on"
         THEN load' = [load EXCEPT !.row = "nothing"] /\ UNCHANGED view
         ELSE \E cause \in Causes(CallerOn(page), PageOf(page).readers) : Shows(SaysOf(cause), cause)
    /\ UNCHANGED <<page, row, operator, requester, call>>

\* me(): an operator page catches every failure of it.
ReadWho ==
    /\ load # None /\ load.who = None
    /\ \/ PageOf(page).asks = "beside" /\ load' = [load EXCEPT !.who = operator]
       \/ OfRequester(page) /\ requester # "none" /\ load' = [load EXCEPT !.who = requester]
    /\ UNCHANGED <<page, row, operator, requester, view, call>>

FailWho ==
    /\ load # None /\ load.who = None
    /\ \/ /\ PageOf(page).asks = "beside"
          /\ load' = [load EXCEPT !.who = "none"] /\ UNCHANGED view
       \/ /\ OfRequester(page)
          /\ \E cause \in Causes(requester, {"requester"}) : Shows(SaysOf(cause), cause)
    /\ UNCHANGED <<page, row, operator, requester, call>>

\* All is read.  "You are not signed in" where nobody is found.
Show ==
    /\ load # None /\ load.row # None
    /\ (PageOf(page).asks # "never" => load.who # None)
    /\ IF load.who = "none" THEN Shows("unauthenticated", "401") ELSE Shows("rows", "none")
    /\ UNCHANGED <<page, row, operator, requester, call>>

-----------------------------------------------------------------------------
(* A control is used                                                       *)

\* The forms send what is on the page; the server action begins.
Submit(c) ==
    /\ call = None /\ load = None /\ view # None
    /\ view.shows = "rows" /\ c \in Offers(page, view.who, view.row)
    /\ call' = [control |-> c, at |-> "sent", did |-> 0]
    /\ UNCHANGED <<page, row, operator, requester, load, view>>

Accepts(c, who, r, to) == who \in ActionOf(c).admits /\ <<r, to>> \in ActionOf(c).moves

\* The backend does it.  A booking is one call for each material, one after the other.
Serve ==
    /\ call # None /\ call.at = "sent"
    /\ \E to \in Statuses(page) :
         /\ Accepts(call.control, CallerOn(page), row, to)
         /\ row' = to
         /\ call' = [call EXCEPT !.at = IF to = "partly booked" THEN "sent" ELSE "applied", !.did = @ + 1]
    /\ UNCHANGED <<page, operator, requester, load, view>>

\* It refuses: by role or status, or for what was typed; or it fails before it has done
\* anything.
Refuse ==
    /\ call # None /\ call.at = "sent"
    /\ call' = [call EXCEPT !.at = "refused"]
    /\ UNCHANGED <<page, row, operator, requester, load, view>>

\* It does it and fails all the same, which is a 500 and an ApiError like any other: a
\* re-weigh is saved before reconcile() throws, a COMMIT goes through before the database's
\* connection breaks.
Break ==
    /\ call # None /\ call.at = "sent"
    /\ \E to \in Statuses(page) :
         /\ Accepts(call.control, CallerOn(page), row, to)
         /\ row' = to
         /\ call' = [call EXCEPT !.at = "refused", !.did = @ + 1]
    /\ UNCHANGED <<page, operator, requester, load, view>>

\* redirect() to the page with a note.
Redirect(says) ==
    /\ load' = Rendering([says |-> says, did |-> call.did])
    /\ call' = None
    /\ UNCHANGED <<page, row, operator, requester, view>>

AnswerDone == call # None /\ call.at = "applied" /\ Redirect("done")

\* messageOf() of an ApiError: the backend's words.
AnswerRefused == call # None /\ call.at = "refused" /\ Redirect("refused")

\* messageOf() of anything else: "The backend did not respond, so nothing was changed", or
\* "Nothing was credited; try again".  A batch's page fails with no words, and the other
\* pages of requesters only say that they could not reach the backend.
Unanswered ==
    IF page = "batch" \/ (OfRequester(page) /\ page # "dashboard") THEN "no answer"
    ELSE "nothing was changed"

NoAnswer == call # None /\ Redirect(Unanswered)

Next ==
    \/ Elsewhere \/ SignIn \/ SignOut \/ SignInRequester \/ SignOutRequester
    \/ Open \/ ReadRow \/ FailRow \/ ReadWho \/ FailWho \/ Show
    \/ \E c \in Controls : Submit(c)
    \/ Serve \/ Refuse \/ Break \/ AnswerDone \/ AnswerRefused \/ NoAnswer

Spec == Init /\ [][Next]_vars

-----------------------------------------------------------------------------
\* "Unable to reach the backend" is said where it was not reached: "the only case the old
\* message was ever correct about".
OfflineIsOffline ==
    (view # None /\ view.shows = "offline" /\ PageOf(page).onError \in {"forgets", "describes"})
        => view.cause = "unreached"

\* Not so: "the backend did not respond, so nothing was changed", and what was refused was
\* not done in part.  An answer may be lost, a booking refused half-way, and a call fail
\* after it took effect.
ToldAsItIs ==
    view # None =>
        /\ (view.note.says = "done" => view.note.did > 0)
        /\ (view.note.says \in {"refused", "nothing was changed"} => view.note.did = 0)

\* Forms that are there whatever the row: what is typed decides.
Forms == {"createPayout", "addCollector", "addMaterial", "addRate", "addItem"}

\* Refused although it was offered by role and row: "deleting only works if" the code has
\* never been used, which the page does not know.
OfferedInVain(c, r) == c = "delete" /\ r \in InUse

\* No control "would then 403 on submit".  And where nothing has changed since, the backend
\* takes what an operator's page offers for the row, except that it deletes no material in
\* use: those, and no others, it refuses.
ControlsAreLive ==
    (view # None /\ PageOf(page).asks = "beside" /\ view.shows = "rows" /\ view.who = operator) =>
        \A c \in Offers(page, view.who, view.row) :
            /\ operator \in ActionOf(c).admits
            /\ (view.row = row /\ c \notin Forms)
                   => ((\E to \in Statuses(page) : Accepts(c, operator, row, to)) <=> ~ OfferedInVain(c, row))

=============================================================================
