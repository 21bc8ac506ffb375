------------------------------- MODULE Ladder -------------------------------
(***************************************************************************)
(* The committed Kubernetes release ladder of atum.json                    *)
(* (desired.orchestration.releases): its shape, the position of a live     *)
(* version on it, the retirement of completed steps and its extension      *)
(* towards a newly selected release.                                       *)
(*                                                                         *)
(* A Kubernetes version is a number in precedence order and Minor[v] its   *)
(* minor; one major version, because a major change is refused.            *)
(***************************************************************************)
EXTENDS Integers, Sequences

CONSTANTS Version,      \* stable Kubernetes releases, in precedence order
          Minor         \* the minor of each release

(***************************************************************************)
(* Versions are ordered, and a later version never has an earlier minor.   *)
(***************************************************************************)
ASSUME VersionAssumption ==
  /\ Version \subseteq Nat \ {0}
  /\ Minor \in [Version -> Nat]
  /\ \A v, w \in Version : v <= w => Minor[v] <= Minor[w]

(* At any time finitely many releases exist, so there is a newest one.     *)
ASSUME NewestRelease == \E v \in Version : \A w \in Version : w <= v

Absent == 0

Target(ladder) == ladder[Len(ladder)]

OnLadder(v, ladder) == \E i \in DOMAIN ladder : ladder[i] = v

Newest(candidates) ==
  CHOOSE v \in candidates : \A w \in candidates : w <= v

Oldest(candidates) ==
  CHOOSE v \in candidates : \A w \in candidates : v <= w

(* releaseIndex: the position of a version, 0 when it is not a step.  It   *)
(* returns the first one; a ladder that grows has each version once.       *)
ReleaseIndex(v, ladder) ==
  IF OnLadder(v, ladder) THEN CHOOSE i \in DOMAIN ladder : ladder[i] = v ELSE 0

(* validateClusterReleases: every step is a patch or exactly one minor up. *)
WellShaped(ladder) ==
  /\ ladder # <<>>
  /\ \A i \in 1..(Len(ladder) - 1) :
       /\ ladder[i] < ladder[i + 1]
       /\ Minor[ladder[i + 1]] - Minor[ladder[i]] \in {0, 1}

----------------------------------------------------------------------------
(* retireCompletedReleaseSteps: the ladder from the live version on.  An   *)
(* absent or unreachable cluster retains the whole plan.                   *)

RetireFails(ladder, seen) ==
  Len(ladder) > 1 /\ seen # Absent /\ ~OnLadder(seen, ladder)

(* Mutants: the slice starts after the live step; it keeps nothing else. *)
MutantRetire(ladder, seen) ==
  IF Len(ladder) <= 1 \/ seen \in {Absent, Target(ladder)} THEN ladder
  ELSE SubSeq(ladder, ReleaseIndex(seen, ladder) + 1, Len(ladder))

Retire(ladder, seen) ==
  IF Len(ladder) <= 1 \/ seen = Absent THEN ladder
  ELSE SubSeq(ladder, ReleaseIndex(seen, ladder), Len(ladder))

(* resolveKubernetesCandidates: nothing older than the floor. *)
Candidates(found, floor) == {v \in found : v >= floor}

(* byCoordinate keeps the first candidate of a minor; candidates are       *)
(* sorted newest first.                                                    *)
OfMinor(candidates, minor) == {v \in candidates : Minor[v] = minor}

(* buildReleaseLadder refuses an older target and a missing minor. *)
BuildFails(ladder, candidates, selected) ==
  /\ ladder # <<>>
  /\ \/ selected < Target(ladder)
     \/ \E minor \in (Minor[Target(ladder)] + 1)..Minor[selected] :
          OfMinor(candidates, minor) = {}

(* buildReleaseLadder: a patch replaces the terminal release, a newer minor*)
(* appends one release for every minor on the way.                         *)
BuildReleaseLadder(ladder, candidates, selected) ==
  CASE ladder = <<>> -> <<selected>>
    [] ladder # <<>> /\ selected = Target(ladder) -> ladder
    [] /\ ladder # <<>>
       /\ selected # Target(ladder)
       /\ Minor[selected] = Minor[Target(ladder)] ->
         [ladder EXCEPT ![Len(ladder)] = selected]
    [] OTHER ->
         ladder \o [i \in 1..(Minor[selected] - Minor[Target(ladder)]) |->
           Newest(OfMinor(candidates, Minor[Target(ladder)] + i))]
=============================================================================
