------------------------------ MODULE AtomicUpdate ------------------------------
(***************************************************************************)
(* What the update transaction promises (external view of                   *)
(* cli/update/transaction.go): humans edit single paths, and an update      *)
(* offered against the current files is applied to every path still at its  *)
(* original in one step, or is dropped without a trace.                     *)
(***************************************************************************)
CONSTANTS Path, Version, Absent

VARIABLES files,   \* the content of every managed path
          offer    \* the update that may be applied: originals and candidates

Content == Version \cup {Absent}
Entry == [orig : Content, cand : Content]
NoOffer == [f \in Path |-> [orig |-> Absent, cand |-> Absent]]
Changes(p) == {f \in Path : p[f].orig # p[f].cand}

Init == files \in [Path -> Content] /\ offer = NoOffer

(* A human saves or deletes one path. *)
Edit(f, v) == files' = [files EXCEPT ![f] = v] /\ UNCHANGED offer

(* An update is prepared against files that hold its originals. *)
Prepare(p) ==
  /\ offer = NoOffer
  /\ \A f \in Changes(p) : files[f] = p[f].orig
  /\ offer' = p
  /\ UNCHANGED files

(* All paths move together; one edited since Prepare keeps the edit. *)
Apply ==
  /\ offer # NoOffer
  /\ files' = [f \in Path |-> IF f \in Changes(offer) /\ files[f] = offer[f].orig
                              THEN offer[f].cand ELSE files[f]]
  /\ offer' = NoOffer

Drop == offer # NoOffer /\ offer' = NoOffer /\ UNCHANGED files

Next ==
  \/ \E f \in Path, v \in Content : Edit(f, v)
  \/ \E p \in [Path -> Entry] : Prepare(p)
  \/ Apply
  \/ Drop

Spec == Init /\ [][Next]_<<files, offer>>
=============================================================================
