---------------------------- MODULE MCPickupAlone ----------------------------
(***************************************************************************)
(* Pickup where calls are served one at a time, and it is remembered        *)
(* whether one of them died half-way.                                      *)
(***************************************************************************)
EXTENDS MCPickup

VARIABLE died

MCInit == Init /\ died = FALSE

MCNext ==
    \/ Serve /\ UNCHANGED died
    \/ (\E p \in Procs : Crash(p)) /\ died' = TRUE

MCSpec == MCInit /\ [][MCNext]_<<vars, died>>

\* "The hub's later re-weigh still runs, reconciling the difference": as long as no
\* call died, with none under way, whatever was credited on a re-weighed weigh-in is
\* the hub's weight.
NothingLeftToSettleUnlessDied == ~ died => NothingLeftToSettle

=============================================================================
