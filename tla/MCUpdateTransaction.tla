-------------------------- MODULE MCUpdateTransaction --------------------------
(* Small instances of UpdateTransaction for TLC. *)
EXTENDS UpdateTransaction, TLC

AllPhases == Phases

(* Contents are compared for equality only. *)
Symmetry == Permutations(Version)

=============================================================================
