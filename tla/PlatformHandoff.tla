--------------------------- MODULE PlatformHandoff ---------------------------
(***************************************************************************)
(* Both ends of the delivery of a platform: its publication, and the       *)
(* handoff of the published commit to Flux.                                *)
(***************************************************************************)
EXTENDS Publication, FluxHandoff

\* Reported success is true at both ends of a delivery: the current tree is published
\* (SuccessIsCurrent), and the cluster asks for the published commit (DoneIsRequested).
SuccessIsTrue == SuccessIsCurrent /\ DoneIsRequested
=============================================================================
