--------------------------- MODULE ReleaseLadder ---------------------------
(***************************************************************************)
(* How `atum pull updates' rewrites the committed release ladder:          *)
(* completed steps are retired against the live API server, a newer        *)
(* release is selected among the compatible candidates, the ladder is      *)
(* extended towards it, and the candidate state is validated before it is  *)
(* committed.                                                              *)
(***************************************************************************)
EXTENDS Ladder

VARIABLES releases,     \* desired.orchestration.releases, oldest first
          kubernetes,   \* lock.compatibility.kubernetesVersion
          live,         \* the version the API server reports, or Absent
          verdict       \* how the last pull ended

vars == <<releases, kubernetes, live, verdict>>

Verdicts == {"none", "committed", "reset", "misshapen", "mismatch", "failed"}

TypeOK ==
  /\ releases \in Seq(Version) /\ releases # <<>>
  /\ kubernetes \in Version
  /\ live \in Version \cup {Absent}
  /\ verdict \in Verdicts

----------------------------------------------------------------------------
Init ==
  /\ releases \in {<<v>> : v \in Version}
  /\ kubernetes = Target(releases)
  /\ live \in {Absent, Target(releases)}
  /\ verdict = "none"

(* selectCompatiblePlatform walks the candidates newest first, or oldest   *)
(* first when the pull is pinned to a Big Bang commit, and takes the first *)
(* that survives chart resolution, rendering and policy (admissible) and   *)
(* for which a ladder can be built.                                        *)
Usable(current, candidates, admissible) ==
  {v \in candidates \cap admissible : ~BuildFails(current, candidates, v)}

Selected(usable, pinned) == IF pinned THEN Oldest(usable) ELSE Newest(usable)

(* ValidateCandidate: the shape of the ladder, then the agreement of       *)
(* lock.compatibility with the terminal release.                           *)
Validation(ladder, selected, pinned) ==
  CASE ~WellShaped(ladder) -> "misshapen"
    [] WellShaped(ladder) /\ Target(ladder) # selected -> "mismatch"
    [] OTHER -> IF pinned THEN "reset" ELSE "committed"

(* One `atum pull updates'.  A live version unknown to the plan, or no     *)
(* usable candidate, fails the pull; what fails changes nothing.           *)
Pull(found, admissible, seen, pinned) ==
  /\ \/ RetireFails(releases, seen) /\ verdict' = "failed"
     \/ /\ ~RetireFails(releases, seen)
        /\ LET retired    == Retire(releases, seen)
               floor      == IF pinned THEN Head(retired) ELSE Target(retired)
               candidates == Candidates(found, floor)
               current    == IF pinned THEN <<>> ELSE retired
               usable     == Usable(current, candidates, admissible)
               selected   == Selected(usable, pinned)
               ladder     == BuildReleaseLadder(current, candidates, selected)
           IN  IF usable = {} THEN verdict' = "failed"
               ELSE /\ verdict' = Validation(ladder, selected, pinned)
                    /\ verdict' \in {"committed", "reset"} =>
                         releases' = ladder /\ kubernetes' = selected
  /\ verdict' \notin {"committed", "reset"} => UNCHANGED <<releases, kubernetes>>
  /\ UNCHANGED live

(* An apply converges the cluster one ladder step, or installs the target. *)
Converge ==
  /\ \/ live = Absent /\ live' = Target(releases)
     \/ /\ OnLadder(live, releases) /\ live # Target(releases)
        /\ live' = releases[ReleaseIndex(live, releases) + 1]
  /\ UNCHANGED <<releases, kubernetes, verdict>>

Next ==
  \/ \E found \in SUBSET Version, pinned \in BOOLEAN :
       \E admissible \in SUBSET found, seen \in {Absent, live} :
         Pull(found, admissible, seen, pinned)
  \/ Converge

Spec == Init /\ [][Next]_vars

----------------------------------------------------------------------------
(***************************************************************************)
(* What a pull may do to the ladder.  buildReleaseLadder never produces    *)
(* one that validateClusterReleases then rejects: whatever was retired,    *)
(* replaced and appended, each step is newer than the one before it and at *)
(* most one minor away.  Except for a pinned reset the target never moves  *)
(* backwards, and the step the live cluster stands on is kept, so that the *)
(* next apply can go on: only a patch refresh of the very release the      *)
(* cluster runs takes it off the ladder.                                   *)
(***************************************************************************)
PullsKeepTheLadder ==
  [][ /\ verdict' # "misshapen" /\ WellShaped(releases')
      /\ verdict' # "reset" =>
           /\ Target(releases') >= Target(releases)
           /\ OnLadder(live, releases) /\ live' = live /\ ~OnLadder(live, releases')
              => live = Target(releases) /\ Minor[Target(releases')] = Minor[live] ]_vars

(***************************************************************************)
(* What validateLock asserts of every candidate the updater assembles:     *)
(* "compatibility resolution does not match desired state" is never the    *)
(* answer to the updater's own selection.                                  *)
(***************************************************************************)
SelectionIsTarget == verdict # "mismatch"
============================================================================
