----------------------------- MODULE SealedOnce -----------------------------
(***************************************************************************)
(* What a batch promises a buyer: it is sealed once over a set of weigh-ins *)
(* that no other sealed batch contains, the set never changes again, and    *)
(* the batch is processed and sold once, in that order.                     *)
(***************************************************************************)
EXTENDS Naturals

CONSTANTS Lots, Items

VARIABLES
    stage,    \* of each lot
    sealed    \* the items each lot was sealed over, none before

vars == <<stage, sealed>>

Init ==
    /\ stage = [l \in Lots |-> "open"]
    /\ sealed = [l \in Lots |-> {}]

Taken == UNION {sealed[l] : l \in Lots}

Seal(l, items) ==
    /\ stage[l] = "open"
    /\ items # {}
    /\ items \cap Taken = {}
    /\ stage' = [stage EXCEPT ![l] = "sealed"]
    /\ sealed' = [sealed EXCEPT ![l] = items]

Advance(l) ==
    /\ \/ stage[l] = "sealed" /\ stage' = [stage EXCEPT ![l] = "processed"]
       \/ stage[l] = "processed" /\ stage' = [stage EXCEPT ![l] = "sold"]
    /\ UNCHANGED sealed

Next == \E l \in Lots : Advance(l) \/ \E items \in SUBSET Items : Seal(l, items)

Spec == Init /\ [][Next]_vars

=============================================================================
