---------------------------- MODULE FluxHandoff ----------------------------
(***************************************************************************)
(* The end of an apply: the published commit is handed to Flux and the     *)
(* command polls until the platform is reported reconciled.  Flux is an    *)
(* external system that reconciles whenever it likes; the code sees it     *)
(* only through the objects it lists, one kind after the other, so a poll  *)
(* is a sequence of reads of a moving cluster.                             *)
(*                                                                         *)
(* An object is Ready when its last reconciliation succeeded and saw its   *)
(* current generation.  A new commit gives a Kustomization no new          *)
(* generation: it stays Ready, for the old commit, until its controller    *)
(* turns to it.  Commits come in pairs that ship the same Big Bang tag, so *)
(* that both an upgrade and a change of values alone happen.               *)
(***************************************************************************)
EXTENDS Naturals

CONSTANTS
    MaxCommit,    \* published commits
    MaxSetbacks   \* timeouts, failed calls and pushes of another checkout

ASSUME FluxBounds == MaxCommit \in Nat \ {0} /\ MaxSetbacks \in Nat

VARIABLES
    fxMain,    \* Forgejo main, 0 for a commit of another checkout
    commit,    \* the commit the running apply published
    fxStep,    \* where the apply is
    git,       \* revision of the root GitRepository's artifact, 0 when absent
    kust,      \* Kustomization -> [applied, phase]
    oci,       \* the Big Bang OCIRepository: [spec, seen, fetched], 0 when absent
    helm,      \* the Big Bang HelmRelease: [live, phase]
    key,       \* the SOPS age-key Secret is in the cluster
    poll,      \* what this poll has found so far
    moved,     \* main was moved by another checkout since it was published
    setbacks   \* how many of the bounded setbacks have happened

fluxVars == <<fxMain, commit, fxStep, git, kust, oci, helm, key, poll, moved, setbacks>>
clusterVars == <<git, kust, oci, helm>>

Kustomizations == {"flux-system", "bigbang"}
Phases == {"absent", "ready", "progressing", "applied", "BuildFailed"}

\* The Big Bang tag a commit ships.
Tag(c) == (c + 1) \div 2

FluxInit ==
    /\ fxMain = 0 /\ commit = 0 /\ fxStep = "idle" /\ git = 0
    /\ kust = [k \in Kustomizations |-> [applied |-> 0, phase |-> "absent"]]
    /\ oci = [spec |-> 0, seen |-> 0, fetched |-> 0]
    /\ helm = [live |-> 0, phase |-> "absent"]
    /\ key = FALSE /\ poll = [ready |-> TRUE, failed |-> FALSE]
    /\ moved = FALSE /\ setbacks = 0

\* Seed has published a new commit, or the last one again.
publishSource ==
    /\ fxStep \in {"idle", "done", "failed"}
    /\ commit' \in {commit, commit + 1} \ {0} /\ commit' <= MaxCommit
    /\ fxMain' = commit' /\ moved' = FALSE /\ fxStep' = "bootstrap"
    /\ UNCHANGED <<clusterVars, key, poll, setbacks>>

\* waitExactBranch, then flux bootstrap git installs the controllers.
waitExactBranch ==
    /\ fxStep = "bootstrap"
    /\ \/ /\ fxMain = commit /\ fxStep' = "install"
          /\ kust' = [kust EXCEPT !["flux-system"].phase = IF @ = "absent" THEN "progressing" ELSE @]
       \/ fxMain # commit /\ fxStep' = "failed" /\ UNCHANGED kust
    /\ UNCHANGED <<fxMain, commit, git, oci, helm, key, poll, moved, setbacks>>

\* It returns when its own Kustomization has the branch, or times out.
fluxBootstrap ==
    /\ fxStep = "install"
    /\ \/ kust["flux-system"] = [applied |-> commit, phase |-> "ready"] /\ fxStep' = "project"
       \/ fxMain # commit /\ fxStep' = "failed"
    /\ UNCHANGED <<fxMain, commit, clusterVars, key, poll, moved, setbacks>>

ProjectFluxSOPSIdentity ==
    /\ fxStep = "project"
    /\ \/ fxMain = commit /\ key' = TRUE /\ fxStep' = "kustomizations"
       \/ fxMain # commit /\ fxStep' = "failed" /\ UNCHANGED key
    /\ poll' = [ready |-> TRUE, failed |-> FALSE]
    /\ UNCHANGED <<fxMain, commit, clusterVars, moved, setbacks>>

\* One read of a poll: what it finds is kept, the cluster moves on.
Read(step, next, ready) ==
    /\ fxStep = step /\ fxStep' = next
    /\ poll' = [poll EXCEPT !.ready = @ /\ ready]
    /\ UNCHANGED <<fxMain, commit, clusterVars, key, moved, setbacks>>

readKustomizations ==
    /\ fxStep = "kustomizations" /\ fxStep' = "git"
    /\ poll' = [ready |-> \A k \in Kustomizations : kust[k].phase = "ready",
                failed |-> \E k \in Kustomizations : kust[k].phase = "BuildFailed"]
    /\ UNCHANGED <<fxMain, commit, clusterVars, key, moved, setbacks>>

\* The root source must be at exactly the published commit.
observeGitRepositories == Read("git", "oci", git = commit)

\* objectReady: the condition is True and observed the current generation.
observeOCIRepositories == Read("oci", "helm", oci.spec # 0 /\ oci.seen = oci.spec)
observeHelmReleases == Read("helm", "root", helm.phase = "ready")

\* The Big Bang source must ask for the locked tag.
BigBangCurrent == oci.spec = Tag(commit)

requireCurrentBigBangRoot == Read("root", "verdict", BigBangCurrent)

\* Complete ends the wait, a failed build ends it too, anything else polls again.
waitForPlatformReconciliation ==
    /\ fxStep = "verdict"
    /\ fxStep' = IF poll.ready THEN "done" ELSE IF poll.failed THEN "failed" ELSE "kustomizations"
    /\ UNCHANGED <<fxMain, commit, clusterVars, key, poll, moved, setbacks>>

\* The readiness timeout of a wait for a commit that main no longer has.
readinessTimeout ==
    /\ fxStep \in {"kustomizations", "git", "oci", "helm", "root", "verdict"}
    /\ fxMain # commit /\ fxStep' = "failed"
    /\ UNCHANGED <<fxMain, commit, clusterVars, key, poll, moved, setbacks>>

Apply ==
    \/ waitExactBranch \/ fluxBootstrap \/ ProjectFluxSOPSIdentity \/ readKustomizations
    \/ observeGitRepositories \/ observeOCIRepositories \/ observeHelmReleases
    \/ requireCurrentBigBangRoot \/ waitForPlatformReconciliation

\* An early timeout, a failed call or an interruption.
Setback ==
    /\ fxStep \notin {"idle", "done", "failed"} /\ setbacks < MaxSetbacks
    /\ setbacks' = setbacks + 1 /\ fxStep' = "failed"
    /\ UNCHANGED <<fxMain, commit, clusterVars, key, poll, moved>>

ForeignPush ==
    /\ setbacks < MaxSetbacks /\ setbacks' = setbacks + 1
    /\ fxMain' = 0 /\ moved' = TRUE
    /\ UNCHANGED <<commit, fxStep, clusterVars, key, poll>>

(***************************************************************************)
(* Flux (external)                                                         *)
(***************************************************************************)
fluxOnly == <<fxMain, commit, fxStep, key, poll, moved, setbacks>>
Installed == kust["flux-system"].phase # "absent"

\* The source controller fetches main; a foreign commit is not applied here.
FetchSource ==
    /\ Installed /\ fxMain # 0 /\ git # fxMain /\ git' = fxMain
    /\ UNCHANGED <<kust, oci, helm, fluxOnly>>

\* A Kustomization turns to the fetched revision and is no longer Ready.
Begin(k) ==
    /\ git # 0 /\ kust[k].phase \in {"absent", "ready", "BuildFailed"}
    /\ kust[k].applied # git \/ kust[k].phase # "ready"
    /\ k = "bigbang" => kust["flux-system"].phase = "ready" /\ kust["flux-system"].applied = git
    /\ kust' = [kust EXCEPT ![k].phase = "progressing"]
    /\ UNCHANGED <<git, oci, helm, fluxOnly>>

\* It builds and applies; a build that needs the absent age key fails.
Build(k) ==
    /\ git # 0 /\ kust[k].phase = "progressing"
    /\ \/ /\ k = "bigbang" /\ ~ key
          /\ kust' = [kust EXCEPT ![k].phase = "BuildFailed"] /\ UNCHANGED <<oci, helm>>
       \/ /\ k = "bigbang" /\ key
          /\ kust' = [kust EXCEPT ![k] = [applied |-> git, phase |-> "applied"]]
          /\ oci' = [oci EXCEPT !.spec = Tag(git)]
          /\ helm' = [helm EXCEPT !.phase = IF @ = "absent" THEN "progressing" ELSE @]
       \/ /\ k = "flux-system"
          /\ kust' = [kust EXCEPT ![k] = [applied |-> git, phase |-> "ready"]]
          /\ UNCHANGED <<oci, helm>>
    /\ UNCHANGED <<git, fluxOnly>>

\* Its health check waits for the HelmRelease at the applied tag.
Healthy ==
    /\ kust["bigbang"].phase = "applied"
    /\ helm.phase = "ready" /\ helm.live = oci.spec /\ oci.seen = oci.spec
    /\ kust' = [kust EXCEPT !["bigbang"].phase = "ready"]
    /\ UNCHANGED <<git, oci, helm, fluxOnly>>

FetchChart ==
    /\ oci.seen # oci.spec /\ oci' = [oci EXCEPT !.seen = oci.spec, !.fetched = oci.spec]
    /\ UNCHANGED <<git, kust, helm, fluxOnly>>

BeginRelease ==
    /\ helm.phase = "ready" /\ helm.live # oci.fetched
    /\ helm' = [helm EXCEPT !.phase = "progressing"]
    /\ UNCHANGED <<git, kust, oci, fluxOnly>>

InstallRelease ==
    /\ helm.phase = "progressing" /\ oci.fetched # 0
    /\ helm' = [live |-> oci.fetched, phase |-> "ready"]
    /\ UNCHANGED <<git, kust, oci, fluxOnly>>

Flux ==
    \/ FetchSource \/ Healthy \/ FetchChart \/ BeginRelease \/ InstallRelease
    \/ \E k \in Kustomizations : Begin(k) \/ Build(k)

FluxNext == publishSource \/ Apply \/ readinessTimeout \/ Setback \/ ForeignPush \/ Flux

\* Flux keeps reconciling, a started apply goes on, and a failed one is rerun.
FairActions == {"apply", "rerun", "timeout", "source", "root", "bigbang", "health", "chart",
                "release", "install"}
FairAction(a) ==
    CASE a = "apply" -> Apply [] a = "rerun" -> publishSource [] a = "timeout" -> readinessTimeout
      [] a = "source" -> FetchSource [] a = "health" -> Healthy [] a = "chart" -> FetchChart
      [] a = "release" -> BeginRelease [] a = "install" -> InstallRelease
      [] a = "root" -> Begin("flux-system") \/ Build("flux-system")
      [] a = "bigbang" -> Begin("bigbang") \/ Build("bigbang")
FluxFairness == \A a \in FairActions : WF_fluxVars(FairAction(a))

FluxSpec == FluxInit /\ [][FluxNext]_fluxVars /\ FluxFairness

(***************************************************************************)
(* Properties                                                              *)
(***************************************************************************)
\* The state is well formed and no revision is newer than what was published.
FluxTypeOK ==
    /\ commit \in 0 .. MaxCommit /\ fxMain \in {0, commit} /\ git \in 0 .. commit
    /\ kust \in [Kustomizations -> [applied : 0 .. git, phase : Phases]]
    /\ oci.spec \in 0 .. Tag(git) /\ helm.live \in 0 .. oci.fetched \cup 0 .. Tag(git)

\* An apply that ends well left the cluster asking for the published commit and
\* its Big Bang tag, whatever moved between the reads of the poll.
DoneIsRequested == fxStep = "done" /\ ~ moved => git = commit /\ oci.spec >= Tag(commit)

\* A failed build that is over by the next poll does not strand the platform:
\* once setbacks end, a rerun apply is reported done again and again.
ApplyFinishes == []<>(fxStep = "done")
=============================================================================
