------------------------------ MODULE MCPickup ------------------------------
(***************************************************************************)
(* Pickup on small tables: two bookings of one requester, one weigh-in at  *)
(* a doorstep and one at the hub scale, two collectors.                    *)
(***************************************************************************)
EXTENDS PickupCredit, SequencesExt

CONSTANTS r1, r2, door, walkin, ada, ben, c1, c2, p1, p2, k1, k2

MCBooker == [r \in Requests |-> ada]
MCCapturer == [e \in Events |-> c1]
MCMaterial == [x \in Requests \cup Events |-> "PET"]
MCScaleKg == [e \in Events |-> 2]

\* Codes, processes, and bookings of one requester, are interchangeable.
CodeSymmetry == Permutations(Codes)
ProcSymmetry == Permutations(Procs)
BookingSymmetry == Permutations(Procs) \cup Permutations(Requests) \cup Permutations(Codes)

\* No call dies: what handlers do to each other and nothing else.
ReliableSpec == Init /\ [][Serve]_vars

-----------------------------------------------------------------------------
\* What some rows of the ledger credit on a weigh-in, oldest first.
CreditsOn(e, rows) ==
    FoldLeft(LAMBDA soFar, row : IF row.event = e THEN Append(soFar, row.kg) ELSE soFar, <<>>, rows)

\* All that was ever credited on a weigh-in, through its ticket and any request.
CreditedOn(e) ==
    FoldFunction(LAMBDA credits, soFar : soFar \o credits, Amounts(ticketRows[e]),
                 [r \in Requests |-> CreditsOn(e, pickupRows[r])])

WeighIns == INSTANCE CreditOnce WITH
    Subjects <- Events,
    Scale    <- ScaleKg,
    verified <- reweighs,
    entries  <- [e \in Events |-> CreditedOn(e)]

\* While calls do not overlap, the ledger as a whole pays each weigh-in as CreditOnce
\* says: once, through whichever path comes first, and corrected at most once.
LedgerPaysEachWeighInOnce == WeighIns!Spec

=============================================================================
