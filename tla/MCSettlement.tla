---------------------------- MODULE MCSettlement ----------------------------
(***************************************************************************)
(* The three services that turn weigh-ins into money, each on its own part  *)
(* of the database: BatchLifecycle on two batches and three weigh-ins, one  *)
(* of another material; WalletSpend on one requester, airtime without a     *)
(* limit and one cap; Payouts on three re-weighs, two of them of one        *)
(* collector at two hubs, where one hub has a rate of its own from day one   *)
(* and all hubs have a rate that changes then.                              *)
(*                                                                         *)
(* They share no row, so that an execution is of one part.                  *)
(***************************************************************************)
EXTENDS BatchLifecycle, WalletSpend, Payouts, TLC

CONSTANTS
    b1, b2, e1, e2, e3, h1, h2, pet, hdpe, p1, p2,
    ada, w1, w2, d1, d2, airtime, cap,
    r1, r2, r3, bola, chi, i1, i2

VARIABLES
    part,         \* the part whose calls are served
    overlapped    \* whether calls of it were ever served at once

ASSUME SettlementAssumption == SpendAssumption /\ PayoutAssumption

-----------------------------------------------------------------------------
MCHubOf == [e \in Events |-> h1]
MCMaterialOf == [e \in Events |-> IF e = e3 THEN hdpe ELSE pet]

MCCostOf == [i \in Items |-> IF i = cap THEN 1 ELSE 2]
MCStockOf == [i \in Items |-> IF i = cap THEN 1 ELSE None]

MCCollectorOf == [r \in Reweighs |-> IF r = r3 THEN chi ELSE bola]
MCReweighHubOf == [r \in Reweighs |-> IF r = r2 THEN h2 ELSE h1]

Rate(hub, from, perKg) == [hub |-> hub, from |-> from, perKg |-> perKg]

MCRates == {Rate(None, 0, 1), Rate(None, 1, 2), Rate(h1, 1, 4)}

Swap(a, b) == a :> b @@ b :> a

MCSymmetry ==
    Permutations(Procs) \cup
    {Swap(b1, b2) @@ Swap(e1, e2) @@ Swap(w1, w2) @@ Swap(d1, d2) @@ Swap(i1, i2)}

-----------------------------------------------------------------------------
Busy(calls) == Cardinality({p \in Procs : calls[p].at # "idle"}) > 1

\* Whether anything happened while a call was under way: SpentWithinEarned does not survive
\* a correction between two reads of one call.
Interrupted == \E p \in Procs : spending[p].at # "idle" /\ spending'[p] = spending[p]

MCInit ==
    /\ part \in {"batches", "spending", "payouts"} /\ overlapped = FALSE
    /\ Init /\ SpendInit /\ PayInit

MCNext ==
    \/ /\ part = "batches" /\ Next
       /\ overlapped' = (overlapped \/ Busy(call'))
       /\ UNCHANGED <<part, spendVars, payVars>>
    \/ /\ part = "spending" /\ SpendNext
       /\ overlapped' = (overlapped \/ Interrupted)
       /\ UNCHANGED <<part, vars, payVars>>
    \/ /\ part = "payouts" /\ PayNext
       /\ overlapped' = (overlapped \/ Busy(paying'))
       /\ UNCHANGED <<part, vars, spendVars>>

MCSpec == MCInit /\ [][MCNext]_<<part, overlapped, vars, spendVars, payVars>>

-----------------------------------------------------------------------------
\* "After it, its membership and Merkle root are frozen": as long as no two of
\* addEvents() and advanceStatus() overlap, every weigh-in that was sealed, or is in a
\* sealed batch now, can be verified against the batch's root.
SealedMembershipFrozenAlone == ~ overlapped => SealedMembershipFrozen

\* As long as they do not overlap, no weigh-in is sold twice: each step is SealedOnce's.
BatchesSellEachWeighInOnceAlone ==
    Lots!Init /\ [][~ overlapped' => Lots!Next \/ UNCHANGED Lots!vars]_vars

\* Credits are withdrawn at most once by calls that do not overlap, where nothing is
\* exchanged: redeem() looks at the balance alone, not at what withdrawals hold.
WithdrawnWithinEarnedAlone ==
    (~ overlapped /\ \A d \in Redemptions : redemptions[d] = None) => SpentWithinEarned

\* Never "a reweigh being paid twice", as long as payouts are made one at a time.
ReweighPaidOnceAlone == ~ overlapped => ReweighPaidOnce

=============================================================================
