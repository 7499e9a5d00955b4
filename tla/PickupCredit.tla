---------------------------- MODULE PickupCredit ----------------------------
(***************************************************************************)
(* The walk-in half of the ledger, seen as CreditOnce: whatever calls race, *)
(* a weigh-in's claim ticket is paid once and corrected once.              *)
(***************************************************************************)
EXTENDS Pickup

Amounts(rows) == [i \in 1..Len(rows) |-> rows[i].kg]

Tickets == INSTANCE CreditOnce WITH
    Subjects <- Events,
    Scale    <- ScaleKg,
    verified <- reweighs,
    entries  <- [e \in Events |-> Amounts(ticketRows[e])]

\* Claiming, re-weighing and reconciling a walk-in implement CreditOnce.
TicketsImplementCreditOnce == Tickets!Spec

=============================================================================
