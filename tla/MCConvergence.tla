--------------------------- MODULE MCConvergence ---------------------------
(* Four releases over three minors; ladders of up to three of them mix     *)
(* patch and minor steps.                                                  *)
EXTENDS Convergence

MCVersion == 1..4

MCMinor == <<1, 2, 2, 3>>
============================================================================
