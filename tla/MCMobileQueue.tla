--------------------------- MODULE MCMobileQueue ---------------------------
(***************************************************************************)
(* MobileQueue on two weigh-ins and one or two queue screens.               *)
(***************************************************************************)
EXTENDS MobileQueue, TLC

CONSTANTS r1, r2, h1, h2

MCSymmetry == Permutations(Records) \cup Permutations(Screens)

-----------------------------------------------------------------------------
\* Whether two changes of the queue were ever under way at once, or two passes.
VARIABLE overlapped

Overlap == Holding > 1 \/ Cardinality({h \in Screens : passes[h].at # "idle"}) > 1

MCInit == Init /\ overlapped = FALSE

MCNext == Next /\ overlapped' = (overlapped \/ Overlap')

MCSpec == MCInit /\ [][MCNext]_<<vars, overlapped>>

\* One change at a time loses nothing, through kills and lost answers: every weigh-in
\* the collector was told is saved is in the queue until the server has it.
NothingLostAlone == ~ overlapped => NothingLost

\* One pass at a time never lets go of the evidence of work that was refused.
RejectionStandsAlone ==
    [][~ overlapped' => \A r \in Records : queue[r] = "rejected" => queue'[r] = "rejected"]_vars

=============================================================================
