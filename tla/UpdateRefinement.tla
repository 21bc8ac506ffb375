---------------------------- MODULE UpdateRefinement ----------------------------
(***************************************************************************)
(* UpdateTransaction implements AtomicUpdate.  While a prepared journal is  *)
(* on disk a path that holds its candidate counts as holding its original,  *)
(* because recovery will put it back; the step that publishes the committed *)
(* journal moves all of them at once.                                       *)
(***************************************************************************)
EXTENDS UpdateTransaction

LogicalFiles ==
  [f \in Path |-> IF journal = "prepared" /\ f \in Changed(record) /\ file[f] = record[f].cand
                  THEN record[f].orig ELSE file[f]]
Offer == IF journal = "prepared" THEN record ELSE NoPlan

Abstract == INSTANCE AtomicUpdate WITH files <- LogicalFiles, offer <- Offer

(* Seen through the journal, every step of the updater, of recovery, of a   *)
(* crash, a power loss and a failing call is a step of the atomic update,   *)
(* as long as no human edits inside the window between the second Verify    *)
(* and the end of the command.                                              *)
ImplementsAtomicUpdate == Abstract!Spec
=============================================================================
