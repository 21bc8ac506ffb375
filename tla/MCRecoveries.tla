---------------------------- MODULE MCRecoveries ----------------------------
(***************************************************************************)
(* A climb of the release ladder, and what an interrupted command leaves   *)
(* taken up again: the convergence that is rerun and the update that is    *)
(* retried, on instances small enough for liveness; with them the pulls    *)
(* that build the ladder.  They meet only in the committed files, so a     *)
(* behaviour exercises one of them.                                        *)
(***************************************************************************)
EXTENDS Convergence

CONSTANTS Missing, NoFile, v1, v2

VARIABLES focus,
          \* the variables of UpdateTransaction, three of them under another name
          file, dir, journal, record, backup, unsynced, updater, cmd, loaded, writes, todo,
          touched, edited, unseen, abandoned, edits, crashes, failures,
          \* the variables of ReleaseLadder, one under another name
          steps, kubernetes, live, verdict

(* Four releases over three minors to climb. *)
MCVersion == 1..4
MCMinor == <<1, 2, 2, 3>>

(* The convergence that is rerun: shorter ladders, no interrupted Kubespray *)
(* and no other operator, but a failing step and a platform that relapses.  *)
Again == INSTANCE Convergence
           WITH MaxLadder <- 2, MaxFaults <- 1, MaxInterrupts <- 0, MaxDrifts <- 0, MaxRelapses <- 5

(* Five releases to pull: patch refreshes, one- and two-minor selections. *)
PulledVersion == 1..5
PulledMinor == <<1, 1, 2, 2, 3>>
Pulls == INSTANCE ReleaseLadder
           WITH Version <- PulledVersion, Minor <- PulledMinor, releases <- steps

(* An editor that stays out of the write window. *)
OutsideWrites == {"idle", "recover", "load", "track", "resolve", "verify", "stage"}
Contents == {v1, v2}
Paths == {1, 2}
Update == INSTANCE UpdateRefinement
            WITH Path <- Paths, Version <- Contents, Absent <- NoFile, Guarded <- {2},
                 Declarative <- {1}, EditPhases <- OutsideWrites, MaxEdits <- 1, MaxCrashes <- 1,
                 MaxFaults <- 1, pc <- updater, plan <- writes, faults <- failures

updateVars == <<file, dir, journal, record, backup, unsynced, updater, cmd, loaded, writes, todo,
                touched, edited, unseen, abandoned, edits, crashes, failures>>
pullVars == <<steps, kubernetes, live, verdict>>
allVars == <<vars, updateVars, pullVars, focus>>

MCInit ==
    /\ focus \in {"climb", "rerun", "update", "pulls"}
    /\ Init /\ Update!Init /\ Pulls!Init
    /\ focus = "climb" => Len(releases) = MaxLadder
    /\ focus = "rerun" => Again!Init
    /\ focus \in {"update", "pulls"} => /\ releases = <<1>> /\ automatic = TRUE
                                       /\ supports = MCVersion /\ server = Absent
    /\ focus # "update" => file = [f \in Paths |-> NoFile]
    /\ focus # "pulls" => steps = <<1>> /\ live = Absent

InClimb(A) == focus = "climb" /\ A /\ UNCHANGED <<updateVars, pullVars, focus>>
InRerun(A) == focus = "rerun" /\ A /\ UNCHANGED <<updateVars, pullVars, focus>>
InUpdate(A) == focus = "update" /\ A /\ UNCHANGED <<vars, pullVars, focus>>
InPulls(A) == focus = "pulls" /\ A /\ UNCHANGED <<vars, updateVars, focus>>

MCNext == InClimb(Next) \/ InRerun(Again!Next) \/ InUpdate(Update!Next) \/ InPulls(Pulls!Next)

(* The fairness of the two modules: a behaviour stays in its part, where    *)
(* only that part's disjunct is ever enabled.                               *)
MCSpec ==
    /\ MCInit /\ [][MCNext]_allVars
    /\ WF_allVars(InRerun(Again!Command) \/ InUpdate(Update!Advance))
    /\ WF_allVars(InRerun(Again!Flux) \/ InUpdate(Update!Begin("pull")))
    /\ SF_allVars(InRerun(Again!Start("Full")))

----------------------------------------------------------------------------
(* Seen through the journal, an update is one atomic step.                  *)
ImplementsAtomicUpdate == Update!ImplementsAtomicUpdate

(* Reruns recover.  As long as nobody edits the managed files and no        *)
(* rollback failed, a rerun undoes or finishes an interrupted update        *)
(* ("retry the update"); and rerunning the full apply brings API server,    *)
(* nodes and platform to the target, again and again.                       *)
RerunsRecover ==
    []<>(CASE focus = "update" -> ~dir \/ abandoned \/ edited # {}
           [] focus = "rerun" -> automatic => Converged
           [] OTHER -> TRUE)

(* A pull keeps the ladder well shaped, never moves its target backwards,   *)
(* and leaves the live release off it only by a patch of that release.      *)
PullsKeepTheLadder == Pulls!PullsKeepTheLadder
=============================================================================
