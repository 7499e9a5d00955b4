-------------------------- MODULE MCCaptureScreen --------------------------
(***************************************************************************)
(* CaptureScreen on two sacks, one pickup and two collectors, remembering   *)
(* which handlers ever ran into which.  Each property holds however the     *)
(* other meetings go, and is lost in the ones its definition names.         *)
(***************************************************************************)
EXTENDS CaptureScreen, TLC

CONSTANTS s1, s2, j1, c1, c2

MCSymmetry == Permutations(Sacks) \cup Permutations(Collectors)

VARIABLE met

Committing == {k \in 1..MaxTaps : InFlight(k)}

Rendering == \E i \in 1..MaxRenders : renders[i] # None

Awaiting == Committing # {} \/ Rendering \/ readings # {} \/ polls # {} \/ shows # {}

\* What meets in this state.
Meeting ==
    (IF Cardinality(Committing) > 1 THEN {"taps"} ELSE {}) \cup
    (IF Committing # {} /\ Rendering THEN {"commit and render"} ELSE {}) \cup
    (IF Committing # {} /\ readings # {} THEN {"commit and photo"} ELSE {}) \cup
    (IF \E k \in 1..MaxTaps : taps[k].job # None /\ taps[k].at = "failed" /\ taps[k].landed
       THEN {"lost answer"} ELSE {})

\* And what a sign-in or a sign-out meets.
Crossing == IF session' # session /\ Awaiting THEN {"session and handler"} ELSE {}

MCInit == Init /\ met = {}

MCNext == Next /\ met' = met \cup Meeting' \cup Crossing

MCSpec == MCInit /\ [][MCNext]_<<vars, met>>

\* bound: kinds of meetings in one behaviour
MCBound == Cardinality(met) <= 1

\* No weigh-in is signed with the weight of one sack and the photo of another, unless
\* commit() ran into a render, which restores the weight it blanks, or into a photo
\* being read, which it leaves for the next sack.
EvidenceIsOfOneSackAlone ==
    met \cap {"commit and render", "commit and photo"} = {} => EvidenceIsOfOneSack

\* One sack, one weigh-in, unless commit() is tapped twice, its photo is read again
\* meanwhile, or the answer of the server is lost and the pickup cleared, as the failure
\* on the screen advises.
SackRecordedOnceAlone ==
    met \cap {"taps", "commit and photo", "lost answer"} = {} => SackRecordedOnce

\* A photo leaves the screen without another in its place only when the weigh-in it
\* proves is recorded, unless it was read while commit() was under way.
EvidenceKeptAlone ==
    [][met' \cap {"commit and photo"} = {} => KeepsEvidence]_vars

\* The collector named on the page is the one that signs, and a phone that is signed out
\* holds no pickups or codes of the one before, unless a handler under way crossed the
\* sign-in or the sign-out.  Whatever met, the pickup that is worked is one of those listed.
SessionShownAlone ==
    /\ met \cap {"session and handler"} = {} => PageShowsSession /\ NothingToInherit
    /\ ActiveJobIsListed

=============================================================================
