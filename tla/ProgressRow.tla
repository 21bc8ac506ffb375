---------------------------- MODULE ProgressRow ----------------------------
(***************************************************************************)
(* The events that Atum's services report and what one of them does to a   *)
(* row of the dashboard (cli/progress, model.apply of cli/tui).  A row is  *)
(* its state; labels, counts and byte totals are left out.  An event names *)
(* its item, or every unfinished item of its phase with the reserved "*".  *)
(***************************************************************************)
EXTENDS Naturals, Sequences

Terminal == {"complete", "failed"}
RowStates == {"pending", "running"} \union Terminal

Event(item, state, detail, restart) ==
    [item |-> item, state |-> state, detail |-> detail, restart |-> restart]

StartOf(i)     == Event(i, "running", "start", TRUE)
UpdateOf(i, d) == Event(i, "running", d, FALSE)
DoneOf(i)      == Event(i, "complete", "done", FALSE)
FailOf(i)      == Event(i, "failed", "error", FALSE)
FinishOf(s)    == Event("*", s, s, FALSE)

MutantApply(row, e) ==
    IF e.item = "*" /\ row \in Terminal THEN row ELSE e.state

(* model.apply on one row the event addresses.                              *)
Apply(row, e) ==
    IF /\ row \in Terminal
       /\ e.item = "*" \/ (e.state = "running" /\ ~e.restart)
    THEN row ELSE e.state

Addresses(e, i) == e.item \in {i, "*"}

(* model.Update of a batch: the events in order, each on the rows it names. *)
ApplyAll(rows, batch) ==
    LET at[n \in 0..Len(batch)] ==
          IF n = 0 THEN rows
          ELSE [i \in DOMAIN rows |->
                  IF Addresses(batch[n], i) THEN Apply(at[n-1][i], batch[n])
                                            ELSE at[n-1][i]]
    IN  at[Len(batch)]
=============================================================================
