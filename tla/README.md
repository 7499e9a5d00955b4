# ProofChain: a TLA+ model of the backend, the apps and what they promise each other

ProofChain records recyclable material from the moment a collector puts a sack on
a scale until it is sold in a sealed batch, and pays on the way: the requester who
gave the material (credits in a wallet), and the collector who fetched it
(payouts). This directory holds TLA+ models of its control logic, the TLC
configurations that check them on small instances, and proofs that TLAPS checks
for every instance.

Paths below are relative to the repository's root; `backend/` abbreviates
`apps/backend/src/`.

## 1. The system

### 1.1 Components

| Component | State it keeps | Operations | What makes it correct |
|---|---|---|---|
| Collection requests (`backend/requests`) | `collection_requests` rows: status, collector, weigh-in, code | create, assign, cancel, collect (at the door), fulfill (at the hub) | a request moves forward only; a code stands for one weigh-in |
| Wallet (`backend/wallet`) | `wallet_transactions` (append-only ledger), `weighin_claims` | redeem a code, claim a walk-in, reconcile after a re-weigh; balances are sums | a weigh-in is credited once, at the hub's weight in the end |
| Ingest (`backend/events`) | `collection_events`, unique by payload hash | ingest (with integrity checks), record a claim ticket | one row per signed payload, whatever is re-sent |
| Re-weigh (`backend/reweigh`) | `event_reweighs`, unique by weigh-in | create, then reconcile | one verdict per weigh-in |
| Batches (`backend/batches`) | `batches`, `batchId` of weigh-ins | create, add, remove, seal, advance, verify | after sealing, root, totals and membership are frozen |
| Custody, reports (`backend/custody`, `backend/reports`, `packages/shared/src/merkle.ts`) | `custody_transfers` | record a hand-over; rebuild the tree, reconcile the legs | the report tells what is there from what was sealed |
| Payouts (`backend/payouts`, `backend/material-rates`) | `payouts`, `payout_items`, `material_rates` | create, markPaid, create a rate | a re-weigh is paid once, to its collector, at the rate that prevails |
| Withdrawals, rewards (`backend/withdrawals`, `backend/catalog`) | `withdrawal_requests`, `catalog_items`, `catalog_redemptions` | request, pay, reject; redeem, fulfill | credits are not promised twice; stock is not oversold |
| Materials (`backend/materials`, `apps/capture/src/lib/materials.ts`) | `materials`; a copy of the list on each phone | create, edit, retire, restore, delete if unused; fetch, select | a used code is never deleted; a phone signs only codes its backend knows |
| Collectors, hubs, devices (`backend/collectors`) | `collectors`, `hubs`, `devices` | enrol, look up, revoke | a phone signs as the collector its key was enrolled for |
| Photos (`backend/photos`) | blobs in a bucket or a directory, `photoUri` | attach, serve | a marked photo is stored, whole |
| Users (`backend/users`, `backend/auth`) | `users` rows: role, active, password | create, update role or flag, reset and change password; the guard of every route | somebody can always administer |
| Requesters (`backend/requesters`) | `requesters` rows, unique by e-mail | register, log in | an account per e-mail |
| Rate limiting (`backend/common/rate-limit.guard.ts`) | buckets in memory, by route and address | count, reset, evict | no more than the limit in a window |
| Capture app (`apps/capture`) | IndexedDB queue of signed weigh-ins; the sack on screen; session, jobs, catalogues | capture, sync pass, photo pass, prune, discard; sign in, enrol, poll, pick up, claim | nothing is lost; what it shows is true of the server; one sack, one weigh-in, its own photo |
| Mobile app (`apps/mobile`) | the whole queue as one value under one key; pairing | capture, sync pass, prune, enrol | the same |
| Dashboard (`apps/dashboard`) | cookies; the page in the browser | read a page, run a server action | offers what the backend takes, says what happened |
| Batch registry (`contracts/batch-registry`) | admin, issuers, a record per batch, on a ledger | initialize, add and remove issuers, register, mark credited | once each; the event stream tells the registry; not called by the backend today |
| Integrity checks, credit rates, assistant, health, configuration, validation, migrations, deployment | none of their own, or none that changes after boot | pure or reading | see section 5 |

### 1.2 Interaction

* The phones call `POST /events` and `POST /events/:id/photo` with retries; a doorstep
  collection calls `POST /requests/:id/collect`, which calls `ingest()` inside.
* `fulfill()` and `collect()` both end in `issueCode()`; the requester later turns the
  code into ledger rows with `redeem`. A walk-in customer turns a claim code into
  ledger rows with `claim`.
* `ReweighService.create()` saves the re-weigh and *then* calls
  `WalletService.reconcile()`, which corrects whatever was credited before.
* Batches, payouts, withdrawals, rewards and reports read what the above wrote.
* A phone signs with a key that is enrolled in a `devices` row and with a material code
  from its copy of the catalogue; the server knows neither until the weigh-in arrives.
* The pages of the dashboard read on the server, with the cookie of whoever asks, and
  act through server actions that redirect back to the page with a note.
* All handlers share one PostgreSQL database at READ COMMITTED. Some take row locks
  (`pessimistic_write`), most decide on a row read earlier and then write by id.

### 1.3 What is hard

* **Interleaving.** A handler is a sequence of awaits. Between two of them every other
  handler may commit. What is checked on a read can be false when the write happens. In
  the apps the same goes for taps, timers and answers, which share module-level state
  and a page that each render replaces.
* **Crashes** between two statements that are not in one transaction
  (re-weigh and reconcile, weigh-in and claim ticket), or in the middle of a write to a
  file.
* **Unreliable delivery.** Answers are lost, requests time out and are served later,
  retries overtake first attempts, the app is closed half-way.
* **Order.** Claim, redemption and re-weigh come in any order and must come to the same
  sum; hand-overs are recorded in any order.
* **Stale copies.** A phone's list of materials, a page in a browser, an entity that
  `save()` writes back, a queue that was read before another change of it.
* **Edges.** A tree over leaves that are no power of two; a rate that starts today; a
  burst around the end of a window; the last unit of an item.

The hazards, each at its source line with the properties that cover it, are listed in
`PROJECT.json`.

## 2. The modules

Every handler of the backend is a *call* served by a process in `Procs`. A call is split
at its awaits: one action per SQL statement, or per transaction commit (when its writes
become visible). What a handler holds in memory between them is a record of its call.
In `pickup_serial`, `Procs = {p1}`: each handler then runs to its end, or dies, before
the next starts. `Crash` drops a call; an open transaction is rolled back, since
nothing of it was visible.

| Module | Models | Role |
|---|---|---|
| `Pickup` | requests, wallet, ingest, re-weigh | the core: from a sack to a credit |
| `CreditOnce` | - | abstract: one credit, at most one correction |
| `PickupCredit` | - | refinement mapping of `Pickup`'s walk-in ledger to `CreditOnce` |
| `Backend` | - | what the next three share: calls, hubs, NULL |
| `BatchLifecycle` | batches | membership, sealing and lifecycle |
| `WalletSpend` | withdrawals, catalogue of rewards | two ways of spending one balance |
| `Payouts` | payouts, material rates | paying collectors |
| `SealedOnce` | - | abstract: lots sealed over disjoint sets, sold once, in order |
| `Accounts` | users, the role guard | roles, the last administrator, row locks |
| `CaptureSync` | capture app against `ingest()` | offline queue, retries, photos |
| `CaptureScreen` | capture app | the one screen: sack, photo, pickups, codes, session |
| `MobileQueue` | mobile app | whole-value read-modify-write queue |
| `Pairing` | both apps, devices | enrolment, look-up, revocation, hubs |
| `Materials` | materials, a phone's copy | delete-if-unused; cached catalogue and signed codes |
| `Photos` | photos | digest, store, mark, serve |
| `RateLimit` | rate limiting | buckets |
| `AuditReport` | Merkle trees, custody, the audit report | a pure algorithm, and a log |
| `Console` | dashboard | pages, controls, server actions |
| `BatchRegistry` | the contract | allow-list, records, events, archived entries |
| `MC*` | - | instances for TLC, with a history variable where a property needs one |
| `PickupProofs`, `SettlementProofs`, `AccountsProofs`, `CaptureProofs`, `ScreenProofs`, `MobileProofs`, `ServicesProofs` | - | theorems, about what the runs of the same names check |
| `SumTheorems` | - | lemmas: induction, sums and other folds over finite sets |

`MCSettlement` composes `BatchLifecycle`, `WalletSpend` and `Payouts` by extending all
three, and `MCServices` composes seven smaller modules as instances; in each, an
execution is of one part, because the parts share no row.

### 2.1 Pickup

`reqs`, `events`, `claims`, `reweighs` are tables; `pickupRows` and `ticketRows` are the
ledger, by what a row pays for. `Create`, `Assign`,
`Cancel`, `Submit`, `Collect`, `Fulfill`, `Redeem`, `ClaimWalkIn` and `Reweigh` begin a
call; `SaveReload`/`SaveWrite`, `IngestRead`/`IngestSave`/`IngestRaced`, `ClaimRead`/
`ClaimInsert`, `FulfillLinked`/`FulfillClaim`/`FulfillReweigh`, `IssueCode`/`IssueRaced`,
`RedeemWeigh`/`RedeemCommit`, `WalkInLinked`/`WalkInWeigh`/`WalkInCommit` and
`Reconcile*`/`Settle*` are its statements in the order of the code.

`assign()` and `cancel()` use TypeORM's `save()` on an entity read earlier. `save()`
reloads the row and writes the columns in which the entity differs from it, so a column
another call has changed since is written back; `Merged` says so.

`issueCode()` draws a redemption code at random, which may be one that is taken: `IssueCode`
draws from `Codes`, and the UPDATE fails where the unique index on the code (`InUse`) or the
one on the weigh-in (`HeldByAnother`) refuses it; `IssueRaced` then tells the two apart,
draws again, and gives up after `MaxCodeAttempts` draws.

Weights stand for credits: a ledger row has the kilograms it pays for. Rates, and the
rounding of credits to two places, are left out. The status "rejected" of a re-weigh
is never produced by the code and is left out. A correction may take a balance below
zero; `workflow/02-collection-workflow.md` says this is intended.

### 2.2 BatchLifecycle

`batches` rows hold hub, material, status, root and totals; the root *is* the set of
leaves (hashes are perfect), and the totals are the set they were computed over.
`batchOf` is the foreign key of weigh-ins. `addEvents()` locks the batch row and no
weigh-in (`AddRead`, then `AddCommit`); `seal()` and `removeEvent()` lock and commit in
one action; `advanceStatus()` locks nothing (`AdvanceRead`, `AdvanceWrite`).

### 2.3 WalletSpend and Payouts

`RequestBalance`, `RequestPending`, `RequestCommit` are the statements of
`WithdrawalsService.request()`; `RedeemRead` locks the item, `RedeemCommit` ends the
transaction; `MarkPaid`, `Reject`, `Fulfill` lock the row they decide on. `CreateRead`,
`CreateItemsRead`, `CreatePrice` and `CreatePriceDefault` (the two look-ups of `resolveRate()`,
for one re-weigh after the other), `CreateCommit` are `PayoutsService.create()`. A rate has the day
it takes effect (`from`, past days too) and the day it was made (`createdAt`). The calls are in
`spending` and `paying`.

### 2.4 CaptureSync

The phone has the queue (`store`), and one sync pass (`pass`: `syncInFlight` admits no
second). A POST is a message in `posts` that the server moves along: looked up, saved,
ticket recorded, answered. `GiveUp` is the timeout or any error; a POST given up on may
still be served later. `Close` is the tab being closed, with everything in memory lost;
`Open` prunes. Photos are uploaded after the weigh-in, again and again in the second
half of a pass.

### 2.5 CaptureScreen

`photo`, `busy`, `jobs`, `activeJob`, `doorProof`, `lastProof` and `session` are the
module-level variables of `main.ts`; `page` and `weight` are the page, which `render()`
replaces as a whole. The collector's side is `sack`: what is on the scale, and thus what
`Type` and `Shoot` bring. `Commit` is the part of `commit()` before its first await;
`Enqueue` or `Collect` what it awaits, and `FinishCommit` or `CollectFails` what it does
then, to a field that may no longer be the one on the page (`attached`). `StartPoll`/
`FinishPoll`, `StartShow`/`FinishShow`, `ReadPhoto` and `FinishRender` are the other
handlers, each free to be overtaken.

### 2.6 MobileQueue

Every change of the queue is a read of all of it and a write of all of it, so `saving`
and `passes` hold *copies*. `inFlight` is a ref of the hook `useAutoSync`, so each mounted
queue screen has its own pass, and a pass survives its screen. Photos and the inside of
`ingest()` are left out here; `CaptureSync` has them.

### 2.7 Accounts

`update()` is one transaction over several row locks, so the locks are in the model:
`LockUser` is the `SELECT ... FOR UPDATE` of the row to change, `LockOther` (one per row)
and `Counted` that of the other active administrators, `UpdateCommit` the decision and the
write. Which rows the second SELECT finds is decided when it starts; a row that changed
while it waited is looked at again, as READ COMMITTED does. Calls that wait for each other
are ended by PostgreSQL, one of them with an error; `Crash`, which ends any call, stands for it.
`PasswordRead`, `SaveReload` and `SaveWrite` are the two changes of a password, which lock
nothing and save the row they read. The guard (`Admitted`) reads the row of the caller at
the start of each call. An auditor differs from an operator only in routes that are not
modelled, so one role stands for both.

### 2.8 Pairing and Materials

In `Pairing`, `Lookup` is `findEnrolledDevice()`, after which the capture app is paired
again (`WelcomeBack`) or shows its form (`OfferForm`), with a new key if the old one is
revoked. `StartEnrol`, `ServeEnrol`, `FinishEnrol` and `FailEnrol` are one enrolment; it
may fail after it was served. The capture app reads the collector from the form again
after its await (`PairedWith`). `StartSync`, `FinishSync` are `syncHubs()`, which ends by
writing back the pairing it began with.

In `Materials`, each call of the backend reads in one statement and writes in the next:
`RemoveRead` counts the uses, `RemoveDelete` deletes; `IngestRead` and `OpenRead` look the
code up. The phone has a copy that remembers its origin, a selection that an answer may
change (`Reconciled`), and a queue of the codes it has signed.

### 2.9 Photos and RateLimit

`Attach` compares the bytes with the digest in the signed payload (`Genuine`); `StartWrite`
and `EndWrite` are `put()`, which in a directory truncates the file first; `Mark` sets
`photoUri`; `Die` may leave what is half-written; `Serve` is a `GET`, whose answer a client
may keep for a year.

In `RateLimit` a bucket is created by its first request (`Open`), counts (`Count`) and is
dropped, if its time is up, when another is created and the map is large (`Evict`; how large
is left out).

### 2.10 AuditReport

`BuildMerkleTree`, `MerkleProof` and `VerifyMerkleProof` are `merkle.ts`: leaves and inner
nodes are hashed with different prefixes, a lone trailing node is promoted, and a proof
has a step for each level with a sibling. A hash is what was hashed. A row has its payload
hash in a column of its own, beside what the report lists, of which the weight stands for
the rest; the leaves are over that column as it is stored. `Rewrite` is somebody with access
to the database who changes columns of the rows of a sealed batch, or drops, adds or reorders
rows. `CollectedKg` sums the weights of the rows as they are now; `CreateTransfer` is
`CustodyService.create()`, in any order of dates.

### 2.11 Console

A browser is on one page, about one row. `Open` begins a read on the server: `ReadRow` the
list and `ReadWho` the account, in parallel on the pages of operators, one after the other on
those of requesters. Three helpers have what differs between pages: `PageOf` (who may read,
whether it asks who is there, what it makes of a failed read), `Offers` (which controls, to
whom, for which row) and `ActionOf` (whom the endpoint behind a control admits, and which
moves it makes). `Submit`, `Serve`/`Refuse`/`Break`, `AnswerDone`/`AnswerRefused`/`NoAnswer` are a
server action and its redirect; `Break` is a call that took effect and was answered by a 500
all the same, as a re-weigh is when its reconciliation throws. Whether a material is in use
is part of its row, but no part of what the page reads: it offers Delete for every material,
and the backend refuses it (409) for those in use. `Elsewhere` is everybody else.

### 2.12 BatchRegistry

The entry points of the contract, each one action, for a call runs alone and one that
panics changes nothing. `signers` are the addresses whose signatures a call carries. A
persistent entry whose rent has run out is archived (`Archive`), and a call that touches it
fails until it is restored (`Restore`): it never looks absent.

## 3. What is checked

All bounds are constants of the modules and named there.

| Run | Shows | Bound |
|---|---|---|
| `pickup_serial` | one call at a time, calls may die: the request, its code and the ledger agree; a code redeems once, and pays the booking it was issued for, though the codes drawn collide; the ledger implements `CreditOnce`; unless a call died, nothing is left to settle | 2 requests, 2 weigh-ins, 2 collectors, 2 weights, 2 codes |
| `pickup_races` | walk-in tickets are paid once, exactly, never when quarantined; they implement `CreditOnce` | 1 request, 2 weigh-ins, 2 requesters, 2 calls, 1 code |
| `pickup_bookings` | a re-weigh corrects the ledger once, even while stale saves detach its weigh-in from one booking and attach it to another | 2 requests, 1 weigh-in, 2 calls, 2 codes |
| `settlement_races` | batches: a sealed batch's root and totals are of one instant and nothing ineligible is in a batch; spending: stock is never oversold, each settlement has exactly one debit; payouts: each is to the collector who weighed in, at rates that apply and that none known before overrides. Without overlap: sealed membership is frozen and batches implement `SealedOnce`; withdrawals are not promised twice; no re-weigh is in two payouts | 2 calls; 2 batches and 3 weigh-ins; 3 credits, 2 withdrawals, 2 redemptions of the last unit; 3 re-weighs, 2 payouts, 2 days |
| `accounts` | unless a password is saved with a stale row, an active administrator remains however updates race, wait and die | 2 users, 2 calls |
| `capture_sync` | no weigh-in or photo leaves the phone before the server has it; the phone's statuses are true; each weigh-in and its photo are delivered or rejected in the end | 1 weigh-in, 2 closings, 2 late POSTs |
| `mobile_races` | statuses are true of the server through overlapping passes and stale copies. Without overlap: nothing is lost | 2 weigh-ins, 2 screens, 3 copies held, 1 kill |
| `capture_screen` | unless certain handlers meet: weight and photo are of one sack, a sack is one weigh-in, a photo is kept until its weigh-in is recorded, and nobody inherits the pickups or codes of another session; always: the pickup that is worked is listed | 2 sacks, 1 pickup, 2 collectors, 2 taps, 1 render, 1 sign-out |
| `services` | the contract registers and credits a batch once, and its stream is the registry; the rate limiter lets less than twice the limit through; proofs and ticks bind the payload hashes that were sealed; joined legs explain the gap; a page offers what its account may do, and nothing that is refused for its row but the deletion of a material in use. Unless certain calls meet: used codes exist, a phone is paired as its key is enrolled, marked photos are whole | 2 addresses and 6 events; 2 backends, 2 codes, 2 calls; 3 keys, 2 handlers of a kind; 2 uploads; window 3, limit 2; 5 leaves, 1 edited weight; 3 transfers of at most 2 kg; every page |

Why the bounds are enough: a race here is between two handlers over one row (or one
value), so two calls, two rows and one competitor for each unique thing reach every
pairwise conflict; a third call adds repetitions of the same pair. Two weights suffice
to tell the scale's from the hub's. With two codes for two requests, the second draw of
`issueCode()` may collide with the first code, a retry may find the free one, and two
collisions in a row make it give up. Records of the capture app meet only in `pass.todo`, so
one of them, sent again and again, has every history a record can have. In `accounts`, two
users are what demoting each other takes, and the proof covers any number. Five leaves have a
promoted node on two levels at once, and their proofs are shorter for it; three transfers have
a first, a middle and a last leg. The window of three ticks can be straddled by a bucket that
began at any of its offsets, twice. The proofs of section 4 remove the bounds where they
matter most.

`settlement_races` and `services` serve one part per behaviour: their parts share no state,
so that interleaving them would multiply states and find nothing. In `services`, the
catalogue's operators write at most twice (`Edits`), and a rewrite of a batch's rows leaves at
most one that weighs something else than when it was sealed (`OtherWeights`).

Some guarantees the code keeps only while certain calls do not meet. The `MC` modules add a
history that no action reads, and state these guarantees, named `...Alone`, for the
behaviours in which it has not met what breaks them:

* `died` in `MCPickupAlone`: a call died half-way.
* `overlapped` in `MCSettlement`: two calls of `addEvents()` or `advanceStatus()`; two payouts
  being made; for withdrawals, anything at all that happens during a call. In
  `MCMobileQueue`: two changes of the queue, or two passes.
* `met` in `MCCaptureScreen` and `MCServices` is a *set*, and each property names the meetings
  that break it and holds through all the others. On the screen: two taps on the button; a
  commit and a render; a commit and a photo being read; a lost answer of a doorstep
  collection; a sign-in or sign-out and any handler. In the services: a deletion and another
  call, a deletion at all, a phone that signs in elsewhere; two sign-ins at once, a hub
  refresh that spans a change of the pairing, another choice on the form while an
  enrolment is posted, an enrolment whose answer is lost; a photo written again to a
  directory.

`MCBound` cuts a behaviour off after what it has met can no longer leave a property to
check: after one meeting for the screen, and for the services after any but the two that
some property survives. Section 3.1 has how each guarantee fails without its condition.

### 3.1 Where the code and its documentation disagree

Each of these runs checks one property, which restates a sentence of the repository, and
TLC finds a behaviour of the code that violates it. `PROJECT.json` has the quotes.

| Run | Property | Behaviour |
|---|---|---|
| `pickup_redeem_twice` | `CodeRedeemsOnce` | two redemptions both read "collected" and both credit |
| `pickup_quarantined` | `QuarantinedNeverFulfills` | `fulfill()` never looks at `quarantined` |
| `mobile_lost` | `NothingLost` | a pass writes back a copy without the weigh-in just saved |

The same modules state other sentences of the repository that the modelled code does not
keep. They have no run of their own; adding the property to the configuration of its
module is enough to see the behaviour:

* `OneWeighInOneCredit` with two calls: a walk-in claim and a fulfilment each look for the
  other before either has written.
* `CodePaysItsOwnBooking` with two calls: a redemption has read its request's row, a stale
  `save()` takes the code off that row, and another request draws the code, free again, before
  the first redemption commits.
* `NothingLeftToSettle` with two calls: a re-weigh lands between a redemption's read and its
  commit.
* `StatusMovesForward` with two calls: a stale `save()`, or `issueCode()`, moves a request out
  of a final status.
* `CollectedWasReweighed`: a doorstep collection is "collected" without a re-weigh.
* `SealedMembershipFrozen` with two calls: `addEvents()` checks `batchId IS NULL` in a read that
  locks no weigh-in and then updates by id, so a weigh-in that another batch took, and was
  sealed over meanwhile, moves out of it.
* `LifecycleMovesForward` with two calls: "processed" is written over "sold".
* `SpentWithinEarned`: two withdrawal requests hold the same credits; one call at a time, an
  item is bought with credits a withdrawal holds.
* `ReweighPaidOnce` with two calls: two payouts each look for items before the other has
  inserted them, and both include one re-weigh.
* `QuarantineIsShown`: after a lost answer a quarantined weigh-in is shown as synced.
* `SyncedHasTicket`: the loser of the race to insert records no ticket, and the winner dies.
* `AnAdminRemains` with a password saved late: `resetPassword()` and `changeOwnPassword()` read
  the row, spend a while hashing, and save it; a role or flag that changed meanwhile is
  written back, so that a deactivated user is active again, or the last administrator gone.
* `RejectionStandsAlone` without its condition: a second pass overwrites "rejected" with
  "synced".
* `EvidenceIsOfOneSack`, `SackRecordedOnce`, `KeepsEvidence`, `PageShowsSession` and
  `NothingToInherit` of `CaptureScreen`, each in the meetings listed above: `commit()` reads
  module-level state before its await and clears it after, whatever was put there meanwhile.
* `UsedIsKnown`: `remove()` deletes a code that was ingested since it counted. `SignedIsKnown`:
  a code no event carries yet is deleted while a phone holds a weigh-in signed with it, which
  is then refused as malformed at every pass. `SelectedIsOnOffer`: the selection is
  reconciled only when a list arrives.
* `PairingIsEnrolled`: "enrol" pairs the collector it reads from the form after its await, and
  `syncHubs()` writes back the pairing it began with, after a sign-out too. `MobileCanEnrol`:
  after a lost answer the key is taken (409), and the mobile app never asks whose it is.
* `EvidenceStored` and `EvidenceServed` in a directory: a photo sent again truncates the file
  that is already evidence, and a reader or a crash may find it torn.
* `WithinEverySlidingWindow`: the guard calls itself a sliding window
  (`backend/common/rate-limit.guard.ts:52`), and has fixed ones that begin with their first
  request.
* `ListedIsSealed`: the report hashes `payloadHash` as it is stored and recomputes none from the
  row, so that a weight, or a material, edited after sealing is listed and summed under two
  true ticks. `docs/architecture.md:245-248` says that renaming a code "would invalidate that
  batch's audit report - its stored `merkleRoot` would no longer match a root recomputed from
  the (now-renamed) event list".
* Without `LegsJoin`, the "explained" of an audit report: each transfer is held against its own
  two weights, and what is lost between two hand-overs is in no variance.
* `OfflineIsOffline`: the operators' pages that "forget" pass the error of the URL to
  `<LoadError>`, so that every failed read is described as an unreachable backend, the
  message `apps/dashboard/src/lib/load-error.ts:9-17` was written to retire.
* `ToldAsItIs`: "nothing was changed" after an answer that was lost; after one of several
  bookings was refused when others had been made
  (`apps/dashboard/src/app/requester/request/page.tsx:75`); and an error after a call that took
  effect (`backend/reweigh/reweigh.service.ts:80`).

### 3.2 Fairness

`CaptureSync` has a liveness property. `WF` on `Open` says
the collector opens the app again; on `Start`, that its 60 s timer (or "online", or a capture)
starts passes; on the steps of a pass, that JavaScript keeps running while the app is open.
`SF` on what a live POST needs (`IngestRead`, `IngestSave`, `RecordClaim`, `Answer`) and on a
photo upload that succeeds says that the connection is bad, not absent: what is tried again
and again succeeds at last. Nothing else could justify delivery. No fairness is assumed of
the server for POSTs the phone has given up on, nor of crashes or timeouts not happening;
`MaxCloses` bounds only how often the app is closed half-way.

The other modules have safety properties only. `CHECK_DEADLOCK FALSE` is in the
configurations of systems that may really stop; each says why.

## 4. What is proved

Every safety property that a run checks has its theorem, for all values of the constants
that satisfy the named assumptions (any numbers of calls, rows, weights, days, and any
bounds). The theorems are of the form
`Spec => []Inv`, `Spec => [][A]_vars` or `Spec => Abstract!Spec`; most follow from an inductive
invariant, which adds to the property what its own steps need. They hold of `MCSpec` without
`MCBound` and without symmetry, and so they also speak of what comes after the meetings at which
the runs stop.

### 4.1 Whatever calls race or die

* **`PickupProofs`** - `TypeCorrect`, `TicketPaid`, `TicketExact`, `TicketClean` and
  `TicketRefinement` (`Pickup` implements `CreditOnce` for walk-ins). The invariant `TypeInv`
  adds to `TypeOK` that each call holds what its phase needs (`CallsOK`: a call that is about
  to read a re-weigh has a weigh-in, and so on) and that tickets have rows (`ClaimsOK`);
  without it, the rows a handler writes could not be typed. `TicketPaidOnce` alone is not
  inductive: `TicketOK` ties the ledger rows to the ticket, `ReadsStand` says that what a
  claiming call has read (the re-weigh, or that there was none) still bounds what can
  have happened, and `OneReconciler` that only one call reconciles a weigh-in.
* `CorrectedOnce` - a request may lose its weigh-in to a stale save between
  two corrections, so `CorrectionInv` counts on something else: there is no correction of a
  weigh-in before its one re-weigh, nor while the call that follows it is still under way.
* **`SettlementProofs`** - `BatchTypes`, `TotalsAreRoots`, `BatchPurity` and `RootIsFinal`: what
  `addEvents()` found eligible still fits its locked, open batch (`AddStands`), a pending advance
  belongs to a sealed batch (`AdvanceStands`), the row lock is exclusive (`OneAdder`).
  `StockStaysAccounted` and `EachDebitedOnce`: the stock that `redeem()` read under its lock is
  still the stock when it writes (`LocksHold`). `PaidAsOwed`: every item so far is of the
  payee's own weigh-in, at a rate that applied on the day of the call and that none made before
  that day overrides (`CallOwed`, `RowOwed`); a hub that had no rate of its own when
  `resolveRate()` looked may have one by the time the default is read, but not one from before
  that day (`PriceStays`).
* **`AccountsProofs`** - `AdminRemains`, for any number of accounts and calls: locks are
  exclusive (`LocksExclusive`), what a call read under them still stands (`RowsStand`,
  `OthersStand`), and whoever is about to lose an administrator has locked another
  (`LossIsCovered`). That saves are timely is a hypothesis on the behaviour.
* **`CaptureProofs`** - `CaptureTypes`, `NothingIsLost`, `BeliefsAreTrue` and
  `AnswersAreFinal`. The invariant says what the server has for each status a row may show
  (`Knows`), what has to be there before a row may go (`Lost`), where the pass is (`PassOK`),
  and that at most one POST is waited for, while a late one can no longer be believed
  (`PostsOK`).
* **`MobileProofs`** - `MobileTypes` and `BeliefsAreTrue`. `CopiesTold` says of *every* copy of the
  queue, however stale, that its statuses are ones the server has given cause for; since the
  server never takes a weigh-in back, an old copy stays true.
* **`ServicesProofs`** - `BatchesAreUnique` and `StreamRebuildsRegistry`: that the stream tells the
  batches is not enough to show that each was registered by an issuer of its time;
  `ListIsInStream` says that the list of issuers, too, is what the stream says.
  `BurstsAreBounded`: `LetThrough` says that a window no longer than that of the bucket lies in
  at most two of its lives, each of which lets `Limit` requests through, and that two lives
  are not both full within one window; a sum over ticks. `GapsAreExplained`: the legs between
  the first hand-over and the last telescope, for any number of them. `OfferedIsTaken`: control
  by control, what a page offers is what the action behind it and its endpoint admit, and the
  one exception is the deletion of a material in use.
  `EvidenceHolds`, for batches of any size and any change of their rows: `BuildsATree` (the rounds end in one root),
  `LevelsStand` (each level's nodes stand for successive stretches of the payloads, all of
  them: `Covers`, `OverAll`), `OneCover` (a node has one cover, in whatever tree it is, which
  is what the prefixes and the order of a pair are for), hence `RootsTell`: two lists with
  one root are one list; `ProofLeads` (the proof of a leaf comes to the root, promoted
  nodes included), `OneStart` (from no other leaf) and `NoStart` (from no pair of nodes,
  wherever the proof is cut).

### 4.2 As long as certain calls do not meet

The hypotheses are those of the runs (section 3), either in the property (`...Alone`: the
history has not met what breaks it) or in front of the theorem: `OneCall` says that there is one
process, so that each call ends or dies before the next begins.

* **`PickupProofs`**, under `OneCall`: `CodesRedeemOnce`, `CodesPayTheirOwn`, `WeighInsCreditOnce`,
  `RequestsMatchLedger`, `NothingLeftUnlessDied`. `SerialInv` says what a request's row and its
  ledger say of each other (`RowOK`), that no two requests have one code (`CodesApart`, by the
  index that refuses the UPDATE and the redraw that follows), that a weigh-in stands behind one request or a claimed ticket
  (`LinkOK`), that what the call has read still stands (`Stands`) and that whatever is owed is
  being settled (`OwedIsUnderWay`), unless a call died. With it, `LedgerPaysOnce` shows that the
  ledger of *all* requests and tickets implements `CreditOnce`: what is credited on a weigh-in
  is a fold over the rows of every request, and at most one of them has any about it.
* **`SettlementProofs`**: `MembershipIsFrozen` and `BatchesImplementSealedOnce` (`BatchesApart`:
  what `addEvents()` found in no batch is in none until it commits, so the members of a sealed
  batch are those under its root); `ReweighsPaidOnce` (`PaidApart`); `WithdrawalsAreCovered`
  (`Within`: what `request()` read stands, and all withdrawals of a requester, paid or
  pending, sum up to no more than was earned).
* **`ScreenProofs`**: `EvidenceMatches`, `SacksRecordedOnce`, `EvidenceIsKept`, `SessionIsShown`. The
  invariant `MetInv` has one part per set of meetings (`EvidenceOK`, `SackOK`, `PhotoOK`,
  `SessionOK`), each kept as long as none of its own was met, and `Remembered`, which turns "not
  met" into what handlers can be under way together.
* **`MobileProofs`**: `NothingIsLostAlone` and `RejectionsStandAlone` (`CopiesFresh`: with one change
  of the queue at a time, what is about to be written back is the queue as it is, but for one
  record).
* **`ServicesProofs`**: `CodesAreKnown` (`UsesApart`, and `PhoneIsBehind`: no list, queue or
  selection on the phone has more than the backend it came from), `PairedIsEnrolled`
  (`HandlersAgree`: what a handler will pair the phone with is what the server has of its key),
  and `PhotosAreStored` (`UploadsApart`: what is whole is not written again).

### 4.3 Assumptions, lemmas and what is left to TLC

The assumptions on constants (`PickupAssumption`, `BatchAssumption`, `ScreenAssumption` and so on)
are beside the constants they are about, and TLC evaluates each on the instance of a run. They say
that NULL is no value, that the maps between tables have the types of their foreign keys, that
weights and bounds are numbers, and that what is summed or counted is finite: the calls in flight
(`ProcsAssumption`), the bookings, the withdrawals, the redemptions, the screens mounted. A
table or a server has no infinity of them. `AuditAssumption` adds that a payload hash is no
pair of nodes: it is one hash long, and they are two.

The sums and folds of the community modules are recursive functions over finite sets.
`SumTheorems` shows that such a function exists, that the element it picks first does not matter
to a sum, how a sum changes with one summand, and that it grows with its summands. The
induction behind them is stated of a *set* of numbers (`SetInduction`), because the provers
cannot instantiate the library's induction theorems, which take an operator. In the same
way `ServicesProofs` shows of the functions `merkle.ts` is modelled by (`Grown` and `Combine`
folded over a sequence, `Above`, `FlattenSeq`) that each exists and takes one step after the
other.

Only model-checked:

* Liveness, out of the prover's reach: `EveryWeighInSettles` of `CaptureSync`, which rests on
  fairness and on `ENABLED`.
* The behaviours of section 3.1, which no theorem excludes: TLC finds each.

## 5. Not modelled, and why

Taken as perfect: SHA-256, Ed25519, argon2, canonical encodings, PostgreSQL's isolation and
unique indexes.

* **Integrity checks** (`backend/events/integrity.ts`) are pure functions of one payload, its
  hub, its device and the events before it. They change no state; their verdict is a free
  choice wherever `ingest()` is modelled, so that what is checked and proved holds whatever
  they say. What they compute are thresholds on real numbers (distances, speeds), which a
  model on small integers would only repeat.
* **Credit rates** and the rounding of credits: a credit is a weight times the rate in force.
  The hazards here are about which weights are paid, and how often.
* **Requesters**: registration inserts a row under a unique index, and login writes nothing.
  `Console` has what the pages make of their sessions.
* **Collectors and hubs** are fixed sets: creating one has no effect on those there are. The
  nonce and clock checks of the device guard are left out.
* **Other reports** than the audit report are sums over the tables at the time of reading.
* **Assistant**: calls a language model with read-only tools.
* **Schema, migrations and boot**: the tables are the variables of the modules, with their
  unique indexes where they bite; migrations run once, before anything else.
* **Health, configuration, validation**: stateless; validation refuses a request before its
  handler runs.
* **Deployment and demonstration scripts.**
* Of the apps: themes, notices, notifications, wording, the installation of the capture app;
  the catalogue and the photos of the mobile app, which do what the capture app's do. Of the
  dashboard: filters, sorting, figures, layout and the scanner of the wallet.
