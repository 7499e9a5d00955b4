------------------------------ MODULE Backend ------------------------------
(***************************************************************************)
(* What the services of the backend have in common: the calls the server    *)
(* serves at once, the hubs, and NULL.                                     *)
(***************************************************************************)
EXTENDS FiniteSets

CONSTANTS
    Procs,         \* concurrent calls the server has in flight
    Hubs,
    None           \* SQL NULL

ASSUME ProcsAssumption == IsFiniteSet(Procs)

=============================================================================
