----------------------------- MODULE MCCapture -----------------------------
(***************************************************************************)
(* Model values and symmetry for the runs of Capture.                      *)
(***************************************************************************)
EXTENDS Capture, TLC

CONSTANTS kbd, mouse, f1, f2

Descriptors == Permutations(Files)
=============================================================================
