----------------------------- MODULE CreditOnce -----------------------------
(***************************************************************************)
(* What the ledger promises about anything that is weighed twice and paid  *)
(* once: one credit, at the scale's weight or at the hub's if that is      *)
(* known, and at most one correction, which brings the sum to the hub's    *)
(* weight.                                                                 *)
(***************************************************************************)
EXTENDS Integers, Sequences

CONSTANTS Subjects, Weights, Scale, None

VARIABLES
    verified,   \* the hub's weight, None until it has re-weighed
    entries     \* the signed amounts credited so far, oldest first

vars == <<verified, entries>>

Init ==
    /\ verified = [s \in Subjects |-> None]
    /\ entries = [s \in Subjects |-> <<>>]

\* The hub weighs a subject, once.
Verify(s, kg) ==
    /\ verified[s] = None
    /\ verified' = [verified EXCEPT ![s] = kg]
    /\ UNCHANGED entries

\* The one credit.
Pay(s, kg) ==
    /\ entries[s] = <<>>
    /\ kg = Scale[s] \/ kg = verified[s]
    /\ entries' = [entries EXCEPT ![s] = <<kg>>]
    /\ UNCHANGED verified

\* The one correction, if the scales disagree.
Correct(s) ==
    /\ verified[s] # None
    /\ Len(entries[s]) = 1
    /\ entries[s][1] # verified[s]
    /\ entries' = [entries EXCEPT ![s] = Append(@, verified[s] - entries[s][1])]
    /\ UNCHANGED verified

Next ==
    \E s \in Subjects :
        \/ Correct(s)
        \/ \E kg \in Weights : Verify(s, kg) \/ Pay(s, kg)

Spec == Init /\ [][Next]_vars

=============================================================================
