------------------------------- MODULE MCLink -------------------------------
(***************************************************************************)
(* Model values for the run of Link.                                       *)
(***************************************************************************)
EXTENDS Link

CONSTANTS c1, c2, c3, c4, d1, d2
=============================================================================
