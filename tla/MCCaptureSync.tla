--------------------------- MODULE MCCaptureSync ---------------------------
(***************************************************************************)
(* CaptureSync on one or two weigh-ins.                                     *)
(***************************************************************************)
EXTENDS CaptureSync, TLC

CONSTANTS r1, r2

MCSymmetry == Permutations(Records)

=============================================================================
