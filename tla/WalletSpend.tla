---------------------------- MODULE WalletSpend ----------------------------
(***************************************************************************)
(* What requesters do with their credits: WithdrawalsService (cash out) and *)
(* CatalogService (exchange for an item), both against the balance that     *)
(* WalletService computes from the ledger on every read.                   *)
(*                                                                         *)
(* A transaction reads statement by statement (READ COMMITTED) and its      *)
(* writes appear at its commit.  markPaid(), reject() and fulfill() lock    *)
(* the row they decide on and are one action each.  request() locks         *)
(* nothing: it reads the balance, then the pending withdrawals, then        *)
(* inserts.  redeem() locks the item, so it is split before its commit.     *)
(*                                                                         *)
(* Credits are whole numbers; names, references and timestamps are left     *)
(* out.  Nothing retires an item, so "active" is left out too.             *)
(***************************************************************************)
EXTENDS Backend, Integers, FiniteSets, Functions

CONSTANTS
    Requesters,
    Withdrawals,   \* ids of withdrawal_requests
    Redemptions,   \* ids of catalog_redemptions
    Items,
    CostOf,        \* credits, of each item
    StockOf,       \* units an item is created with, None where it is unlimited
    Amounts,       \* what somebody may ask to withdraw
    MaxEarned      \* bound: credits one requester earns

VARIABLES
    earned,        \* credits the ledger has ever given a requester
    corrected,     \* debits of WalletService.reconcile()
    withdrawals,   \* rows, None where there is none
    redemptions,   \* rows, None where there is none
    stock,         \* catalog_items.stock
    debits,        \* ledger rows written for a withdrawal or a redemption
    spending       \* what each process is serving

spendVars == <<earned, corrected, withdrawals, redemptions, stock, debits, spending>>

-----------------------------------------------------------------------------
Withdrawal == [who: Requesters, amount: Amounts, status: {"pending", "paid", "rejected"}]

Redemption ==
    [who: Requesters, item: Items, cost: Nat, status: {"pending_fulfillment", "fulfilled"}]

\* What the constants have to be.
SpendAssumption ==
    /\ CostOf \in [Items -> Nat]
    /\ StockOf \in [Items -> Nat \cup {None}]
    /\ Amounts \subseteq Nat \ {0}
    /\ MaxEarned \in Nat
    /\ IsFiniteSet(Withdrawals) /\ IsFiniteSet(Redemptions)
    /\ Withdrawals \cap Redemptions = {}
    /\ None \notin Nat \cup Withdrawal \cup Redemption

\* What a call holds across its awaits: for request() the amount and the balance it
\* has read, for redeem() the item it has locked and the stock it has read.
SpendCall ==
    [at: {"idle", "balanceRead", "allowed", "redeeming"}, who: Requesters \cup {None},
     amount: Amounts \cup {0}, seen: Int \cup {None}, item: Items \cup {None}]

NotSpending == [at |-> "idle", who |-> None, amount |-> 0, seen |-> 0, item |-> None]

SpendTypeOK ==
    /\ earned \in [Requesters -> Nat]
    /\ corrected \in [Requesters -> Nat]
    /\ withdrawals \in [Withdrawals -> Withdrawal \cup {None}]
    /\ redemptions \in [Redemptions -> Redemption \cup {None}]
    /\ stock \in [Items -> Nat \cup {None}]
    /\ debits \in [Withdrawals \cup Redemptions -> Nat]
    /\ spending \in [Procs -> SpendCall]

SpendInit ==
    /\ earned = [q \in Requesters |-> 0]
    /\ corrected = [q \in Requesters |-> 0]
    /\ withdrawals = [w \in Withdrawals |-> None]
    /\ redemptions = [d \in Redemptions |-> None]
    /\ stock = StockOf
    /\ debits = [x \in Withdrawals \cup Redemptions |-> 0]
    /\ spending = [p \in Procs |-> NotSpending]

WithdrawalsOf(q) == {w \in Withdrawals : withdrawals[w] # None /\ withdrawals[w].who = q}

OfWithdrawals(q, status) == {w \in WithdrawalsOf(q) : withdrawals[w].status = status}

OfRedemptions(q) == {d \in Redemptions : redemptions[d] # None /\ redemptions[d].who = q}

\* Credits debited for what a requester withdrew and redeemed.
Spent(q) ==
    SumFunction([w \in WithdrawalsOf(q) |-> debits[w] * withdrawals[w].amount])
    + SumFunction([d \in OfRedemptions(q) |-> debits[d] * redemptions[d].cost])

\* computeBalance(): the credits less the debits.
Balance(q) == earned[q] - corrected[q] - Spent(q)

\* The credits pending withdrawals have spoken for.
Held(q) == SumFunction([w \in OfWithdrawals(q, "pending") |-> withdrawals[w].amount])

-----------------------------------------------------------------------------
(* The ledger, from outside                                                *)

\* A pickup or a walk-in is credited.
Earn(q) ==
    /\ earned[q] < MaxEarned
    /\ earned' = [earned EXCEPT ![q] = @ + 1]
    /\ UNCHANGED <<corrected, withdrawals, redemptions, stock, debits, spending>>

\* reconcile() takes back part of a credit, spent or not.
Correct(q) ==
    /\ corrected[q] < earned[q]
    /\ corrected' = [corrected EXCEPT ![q] = @ + 1]
    /\ UNCHANGED <<earned, withdrawals, redemptions, stock, debits, spending>>

-----------------------------------------------------------------------------
(* WithdrawalsService                                                      *)

RequestBalance(p, q, n) ==
    /\ spending[p].at = "idle"
    /\ spending' = [spending EXCEPT ![p] =
          [NotSpending EXCEPT !.at = "balanceRead", !.who = q, !.amount = n, !.seen = Balance(q)]]
    /\ UNCHANGED <<earned, corrected, withdrawals, redemptions, stock, debits>>

\* Slip: available is the balance, whatever is held.
AvailableUnheld(seen, q) == seen

Available(seen, q) == seen - Held(q)

RequestPending(p) ==
    /\ spending[p].at = "balanceRead"
    /\ spending' = [spending EXCEPT ![p] =
          IF spending[p].amount <= Available(spending[p].seen, spending[p].who)
            THEN [@ EXCEPT !.at = "allowed"]
            ELSE NotSpending]
    /\ UNCHANGED <<earned, corrected, withdrawals, redemptions, stock, debits>>

RequestCommit(p, w) ==
    /\ spending[p].at = "allowed"
    /\ withdrawals[w] = None
    /\ withdrawals' = [withdrawals EXCEPT ![w] =
          [who |-> spending[p].who, amount |-> spending[p].amount, status |-> "pending"]]
    /\ spending' = [spending EXCEPT ![p] = NotSpending]
    /\ UNCHANGED <<earned, corrected, redemptions, stock, debits>>

\* Slip: a withdrawal can be settled whatever became of it.
Exists(w) == withdrawals[w] # None

Pending(w) == withdrawals[w] # None /\ withdrawals[w].status = "pending"

\* The debit and "paid" in one transaction.
MarkPaid(p, w) ==
    /\ spending[p].at = "idle"
    /\ Pending(w)
    /\ debits' = [debits EXCEPT ![w] = @ + 1]
    /\ withdrawals' = [withdrawals EXCEPT ![w].status = "paid"]
    /\ UNCHANGED <<earned, corrected, redemptions, stock, spending>>

Reject(p, w) ==
    /\ spending[p].at = "idle"
    /\ Pending(w)
    /\ withdrawals' = [withdrawals EXCEPT ![w].status = "rejected"]
    /\ UNCHANGED <<earned, corrected, redemptions, stock, debits, spending>>

-----------------------------------------------------------------------------
(* CatalogService                                                          *)

\* Slip: the item is read without its lock.
NeverLocked(i) == FALSE

ItemLocked(i) == \E p \in Procs : spending[p].at = "redeeming" /\ spending[p].item = i

InStock(i) == stock[i] # 0

RedeemRead(p, q, i) ==
    /\ spending[p].at = "idle"
    /\ ~ ItemLocked(i)
    /\ InStock(i)
    /\ CostOf[i] <= Balance(q)
    /\ spending' = [spending EXCEPT ![p] =
          [NotSpending EXCEPT !.at = "redeeming", !.who = q, !.item = i, !.seen = stock[i]]]
    /\ UNCHANGED <<earned, corrected, withdrawals, redemptions, stock, debits>>

\* Only a tracked stock is counted down, from what was read under the lock.
UnitsLeft(seen) == IF seen = None THEN None ELSE seen - 1

RedeemCommit(p, d) ==
    /\ spending[p].at = "redeeming"
    /\ redemptions[d] = None
    /\ LET i == spending[p].item
       IN /\ stock' = [stock EXCEPT ![i] = UnitsLeft(spending[p].seen)]
          /\ redemptions' = [redemptions EXCEPT ![d] =
                [who |-> spending[p].who, item |-> i, cost |-> CostOf[i], status |-> "pending_fulfillment"]]
    /\ debits' = [debits EXCEPT ![d] = @ + 1]
    /\ spending' = [spending EXCEPT ![p] = NotSpending]
    /\ UNCHANGED <<earned, corrected, withdrawals>>

Fulfill(p, d) ==
    /\ spending[p].at = "idle"
    /\ redemptions[d] # None
    /\ redemptions[d].status = "pending_fulfillment"
    /\ redemptions' = [redemptions EXCEPT ![d].status = "fulfilled"]
    /\ UNCHANGED <<earned, corrected, withdrawals, stock, debits, spending>>

\* The call dies and its transaction is rolled back.
SpendCrash(p) ==
    /\ spending[p].at # "idle"
    /\ spending' = [spending EXCEPT ![p] = NotSpending]
    /\ UNCHANGED <<earned, corrected, withdrawals, redemptions, stock, debits>>

SpendNext ==
    \/ \E q \in Requesters : Earn(q) \/ Correct(q)
    \/ \E p \in Procs :
         \/ RequestPending(p) \/ SpendCrash(p)
         \/ \E q \in Requesters :
              \/ \E n \in Amounts : RequestBalance(p, q, n)
              \/ \E i \in Items : RedeemRead(p, q, i)
         \/ \E w \in Withdrawals : RequestCommit(p, w) \/ MarkPaid(p, w) \/ Reject(p, w)
         \/ \E d \in Redemptions : RedeemCommit(p, d) \/ Fulfill(p, d)

SpendSpec == SpendInit /\ [][SpendNext]_spendVars

-----------------------------------------------------------------------------
(* What holds whatever calls race                                          *)

Redeemed(i) == {d \in Redemptions : redemptions[d] # None /\ redemptions[d].item = i}

\* Every unit of a tracked item is on the shelf or somebody's, never both, however
\* many redeem() the last one (catalog.service.ts).
StockIsAccounted ==
    \A i \in Items :
        IF StockOf[i] = None
          THEN stock[i] = None
          ELSE stock[i] + Cardinality(Redeemed(i)) = StockOf[i]

\* The ledger has one debit for a withdrawal that was paid, none for one that was
\* not, and one for each redemption (markPaid(), reject() and redeem()).
DebitedOnce ==
    /\ \A w \in Withdrawals :
          debits[w] = IF withdrawals[w] # None /\ withdrawals[w].status = "paid" THEN 1 ELSE 0
    /\ \A d \in Redemptions : debits[d] = IF redemptions[d] # None THEN 1 ELSE 0

-----------------------------------------------------------------------------
(* What the documentation says                                             *)

\* Pending withdrawals are "already spoken for": what a requester has spent and has
\* asked to withdraw is never more than was ever earned.  (A correction may still
\* take the balance below zero, and is meant to.)
SpentWithinEarned == \A q \in Requesters : Spent(q) + Held(q) <= earned[q]

=============================================================================
