-------------------------- MODULE MCReleaseLadder --------------------------
(* Six releases over three minors: patches exist in every minor, so that   *)
(* patch refreshes, one-minor and two-minor selections all occur.          *)
EXTENDS ReleaseLadder

MCVersion == 1..6

MCMinor == <<1, 1, 2, 2, 3, 3>>
============================================================================
