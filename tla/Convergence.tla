---------------------------- MODULE Convergence ----------------------------
(***************************************************************************)
(* The convergence loop of `atum apply' (mode Full), `atum orchestration   *)
(* apply' (Apply) and `atum orchestration upgrade' (Upgrade): a plan from  *)
(* one observation of the live cluster, then a platform handoff or one     *)
(* Kubespray run, then the next plan, until the cluster is current.        *)
(*                                                                         *)
(* The project lock admits one of these commands at a time, so one pc is   *)
(* enough.  Beside it run Kubespray (node by node, and it may be           *)
(* interrupted), Flux, and an operator who works from another checkout.    *)
(***************************************************************************)
EXTENDS Ladder

CONSTANTS Node,           \* the machines of the generated inventory
          MaxLadder,      \* bound on the length of the ladder
          MaxFaults,      \* bound on failures outside Kubespray
          MaxInterrupts,  \* bound on interrupted Kubespray runs
          MaxDrifts,      \* bound on moves by another operator
          MaxRelapses     \* bound on losses of platform readiness

ASSUME ConvergenceAssumption ==
  /\ Node # {}
  /\ MaxLadder \in Nat /\ MaxFaults \in Nat /\ MaxInterrupts \in Nat
  /\ MaxDrifts \in Nat /\ MaxRelapses \in Nat

VARIABLES releases,   \* desired.orchestration.releases
          automatic,  \* desired.orchestration.automaticUpgrade
          supports,   \* versions every lock.compatibility constraint admits
          server,     \* version of the API server, or Absent
          admin,      \* the kubeconfig inventory/artifacts/admin.conf exists
          kubelet,    \* version of each registered node, or Absent
          root,       \* the Big Bang Flux root: none, old, new or ready
          main,       \* which source Forgejo's main branch holds
          flux,       \* Flux runs in the cluster and follows main
          pc, mode,   \* the running command
          plan,       \* its UpgradePlan
          rounds,     \* iterations of convergeOrchestration
          applied,    \* platformApplied
          outcome,    \* how the last command ended
          faults, interrupts, drifts, relapses

config   == <<releases, automatic, supports>>
cluster  == <<server, admin, kubelet>>
platform == <<root, main, flux>>
command  == <<pc, mode, plan, rounds, applied, outcome>>
budgets  == <<faults, interrupts, drifts, relapses>>
vars     == <<config, cluster, platform, command, budgets>>

Modes  == {"Apply", "Upgrade", "Full"}
Orders == {"None", "InstallTarget", "PlatformFirst", "KubernetesFirst",
           "AlreadyCurrent"}
Steps  == {"idle", "preflight", "seed", "plan", "converge", "gate",
           "kubespray", "verify", "finish", "handoff", "wait", "status"}
Outcomes == {"none", "running", "done", "refused", "unhealthy", "failed",
             "exceeded"}
Plans  == [order : Orders, current : Version \cup {Absent},
           step : Version \cup {Absent}]

NoPlan == [order |-> "None", current |-> Absent, step |-> Absent]

TypeOK ==
  /\ releases \in Seq(Version) /\ WellShaped(releases)
  /\ supports \subseteq Version /\ Target(releases) \in supports
  /\ automatic \in BOOLEAN
  /\ server \in Version \cup {Absent}
  /\ admin \in BOOLEAN
  /\ kubelet \in [Node -> Version \cup {Absent}]
  /\ root \in {"none", "old", "new", "ready"}
  /\ main \in {"old", "new"}
  /\ flux \in BOOLEAN
  /\ pc \in Steps /\ mode \in Modes /\ plan \in Plans
  /\ rounds \in Nat /\ applied \in BOOLEAN /\ outcome \in Outcomes
  /\ faults \in Nat /\ interrupts \in Nat /\ drifts \in Nat /\ relapses \in Nat

----------------------------------------------------------------------------
(* What the command observes and decides. *)

Registered == {n \in Node : kubelet[n] # Absent}

(* waitHealthy looks at the nodes the API lists, not at the inventory.     *)
(* Readiness of nodes and system pods is transient: see Fail.              *)
Mixed(v) == \E n \in Registered : kubelet[n] # v

MutantHealthy(v) == admin /\ server = v /\ Registered # {}

MutantHealthyAny(v) ==
  admin /\ Registered # {} /\ \A n \in Registered : kubelet[n] = server

Healthy(v) == admin /\ server = v /\ Registered # {} /\ ~Mixed(v)

(* liveReleasePosition *)
PlanFails ==
  admin /\ (server > Target(releases) \/ ~OnLadder(server, releases))

(* Plan and upgradePlan, for a live version on the ladder. *)
LivePlan ==
  LET next == releases[ReleaseIndex(server, releases) + 1]
  IN  CASE ~admin ->
             [order |-> "InstallTarget", current |-> Absent,
              step |-> Target(releases)]
        [] admin /\ server = Target(releases) ->
             [order |-> "AlreadyCurrent", current |-> server, step |-> server]
        [] OTHER ->
             [order |-> IF root # "ready" /\ {server, next} \subseteq supports
                        THEN "PlatformFirst" ELSE "KubernetesFirst",
              current |-> server, step |-> next]

PlanRefused(p, m) ==
  \/ /\ m \in {"Apply", "Full"} /\ ~automatic
     /\ p.order \in {"KubernetesFirst", "PlatformFirst"}
  \/ m = "Upgrade" /\ p.order = "InstallTarget"
  \/ m # "Full" /\ p.order = "PlatformFirst"

Limit == 2 * Len(releases) + 3

End(result) == /\ pc' = "idle" /\ outcome' = result
               /\ UNCHANGED <<mode, plan, rounds, applied>>

Goto(step) == /\ pc' = step
              /\ UNCHANGED <<mode, plan, rounds, applied, outcome>>

----------------------------------------------------------------------------
Ladders == {ladder \in UNION {[1..n -> Version] : n \in 1..MaxLadder} :
              WellShaped(ladder)}

(* Chart constraints are ranges, so an admitted set has no gaps. *)
Ranges == {{v \in Version : low <= v /\ v <= high} : low, high \in Version}

(* A cluster that is absent, or current on some step of the ladder without *)
(* the platform, with an earlier one, or with the desired one.             *)
Init ==
  /\ releases \in Ladders /\ automatic \in BOOLEAN
  /\ supports \in {r \in Ranges : Target(releases) \in r}
  /\ server \in {Absent} \cup {releases[i] : i \in DOMAIN releases}
  /\ admin = (server # Absent)
  /\ kubelet = [n \in Node |-> server]
  /\ \/ root = "none" /\ main = "old" /\ flux = FALSE
     \/ admin /\ root = "old" /\ main = "old" /\ flux = TRUE
     \/ admin /\ root = "ready" /\ main = "new" /\ flux = TRUE
  /\ pc = "idle" /\ mode = "Full" /\ plan = NoPlan
  /\ rounds = 0 /\ applied = FALSE /\ outcome = "none"
  /\ faults = 0 /\ interrupts = 0 /\ drifts = 0 /\ relapses = 0

Start(m) ==
  /\ pc = "idle"
  /\ pc' = IF m = "Full" THEN "preflight" ELSE "plan"
  /\ mode' = m /\ plan' = NoPlan /\ rounds' = 0 /\ applied' = FALSE
  /\ outcome' = "running"
  /\ UNCHANGED <<config, cluster, platform, budgets>>

(* applyCommand plans once before anything is mutated. *)
MutantPreflight ==
  /\ pc = "preflight"
  /\ IF PlanFails THEN End("refused") ELSE Goto("seed")
  /\ UNCHANGED <<config, cluster, platform, budgets>>

Preflight ==
  /\ pc = "preflight"
  /\ IF PlanFails THEN End("refused")
     ELSE IF PlanRefused(LivePlan, "Full") THEN End("refused")
     ELSE Goto("seed")
  /\ UNCHANGED <<config, cluster, platform, budgets>>

(* platform.Seed: registries, then Forgejo's main branch is advanced. *)
Seed ==
  /\ pc = "seed" /\ Goto("plan")
  /\ main' = "new"
  /\ UNCHANGED <<config, cluster, root, flux, budgets>>

PlanRound ==
  /\ pc = "plan"
  /\ IF rounds = Limit THEN End("exceeded")
     ELSE IF PlanFails THEN End("refused")
     ELSE IF PlanRefused(LivePlan, mode) THEN End("refused")
     ELSE /\ plan' = LivePlan /\ rounds' = rounds + 1
          /\ pc' = IF plan'.order = "PlatformFirst" THEN "handoff" ELSE "converge"
          /\ UNCHANGED <<mode, applied, outcome>>
  /\ UNCHANGED <<config, cluster, platform, budgets>>

(* ConvergePlanned observes again: the live version must be the planned one*)
Check ==
  /\ pc = "converge"
  /\ IF plan.order = "InstallTarget" THEN Goto("kubespray")
     ELSE IF server # plan.current THEN End("refused")
     ELSE Goto("gate")
  /\ UNCHANGED <<config, cluster, platform, budgets>>

(* The health gate; only `orchestration apply' reapplies a current cluster.*)
Gate ==
  /\ pc = "gate"
  /\ IF ~Healthy(plan.current) THEN End("unhealthy")
     ELSE IF plan.order = "AlreadyCurrent" /\ mode # "Apply" THEN Goto("finish")
     ELSE Goto("kubespray")
  /\ UNCHANGED <<config, cluster, platform, budgets>>

----------------------------------------------------------------------------
(* Kubespray, external: kubeadm on the first control-plane node, then the  *)
(* local kubeconfig (kubeconfig_localhost), then node after node           *)
(* (serial = 1).                                                           *)

ControlPlane(n) ==
  /\ pc = "kubespray" /\ server # plan.step
  /\ server' = plan.step
  /\ kubelet' = [kubelet EXCEPT ![n] = plan.step]
  /\ UNCHANGED <<config, admin, platform, command, budgets>>

FetchConfig ==
  /\ pc = "kubespray" /\ server = plan.step /\ ~admin
  /\ admin' = TRUE
  /\ UNCHANGED <<config, server, kubelet, platform, command, budgets>>

NodeStep(n) ==
  /\ pc = "kubespray" /\ server = plan.step /\ admin /\ kubelet[n] # plan.step
  /\ kubelet' = [kubelet EXCEPT ![n] = plan.step]
  /\ UNCHANGED <<config, server, admin, platform, command, budgets>>

KubesprayDone ==
  /\ pc = "kubespray" /\ server = plan.step /\ admin
  /\ \A n \in Node : kubelet[n] = plan.step
  /\ Goto("verify")
  /\ UNCHANGED <<config, cluster, platform, budgets>>

Interrupt ==
  /\ pc = "kubespray" /\ interrupts < MaxInterrupts
  /\ interrupts' = interrupts + 1
  /\ End("failed")
  /\ UNCHANGED <<config, cluster, platform, faults, drifts, relapses>>

----------------------------------------------------------------------------
(* convergeExistingKubespray's health gate and the version that is left. *)
Verify ==
  /\ pc = "verify"
  /\ IF ~Healthy(plan.step) THEN End("unhealthy")
     ELSE Goto(IF plan.order = "AlreadyCurrent" THEN "finish" ELSE "plan")
  /\ UNCHANGED <<config, cluster, platform, budgets>>

(* runFullConvergence applies the platform unless the loop already did. *)
MutantFinish ==
  /\ pc = "finish"
  /\ IF mode # "Full" \/ applied THEN End("done") ELSE Goto("handoff")
  /\ UNCHANGED <<config, cluster, platform, budgets>>

Finish ==
  /\ pc = "finish"
  /\ IF mode # "Full" THEN End("done")
     ELSE Goto(IF applied THEN "status" ELSE "handoff")
  /\ UNCHANGED <<config, cluster, platform, budgets>>

(* ApplySeeded: requireReadyCluster, then bootstrapFlux. *)
Handoff ==
  /\ pc = "handoff"
  /\ IF admin /\ OnLadder(server, releases) /\ server \in supports
     THEN flux' = TRUE /\ Goto("wait")
     ELSE flux' = flux /\ End("refused")
  /\ UNCHANGED <<config, cluster, root, main, budgets>>

(* waitForPlatformReconciliation; its timeout is a Fail. *)
Wait ==
  /\ pc = "wait" /\ root = "ready"
  /\ applied' = TRUE
  /\ pc' = IF plan.order = "PlatformFirst" THEN "plan" ELSE "status"
  /\ UNCHANGED <<config, cluster, platform, budgets, mode, plan, rounds, outcome>>

(* completePlatformApply on a local target: platformExactnessError. *)
Status ==
  /\ pc = "status"
  /\ End(IF root = "ready" THEN "done" ELSE "refused")
  /\ UNCHANGED <<config, cluster, platform, budgets>>

(* Any other failure of a step: the API, Terraform, a registry, a timeout, *)
(* nodes or pods that do not become ready, inputs that changed meanwhile.  *)
Fail ==
  /\ pc \notin {"idle", "kubespray"} /\ faults < MaxFaults
  /\ faults' = faults + 1
  /\ End("failed")
  /\ UNCHANGED <<config, cluster, platform, interrupts, drifts, relapses>>

----------------------------------------------------------------------------
(* Flux, external: it follows main, deploys Big Bang and becomes ready. *)

FluxSync ==
  /\ flux /\ main = "new" /\ root \in {"none", "old"}
  /\ root' = "new"
  /\ UNCHANGED <<config, cluster, main, flux, command, budgets>>

FluxReady ==
  /\ root = "new"
  /\ root' = "ready"
  /\ UNCHANGED <<config, cluster, main, flux, command, budgets>>

Relapse ==
  /\ root = "ready" /\ relapses < MaxRelapses
  /\ root' = "new" /\ relapses' = relapses + 1
  /\ UNCHANGED <<config, cluster, main, flux, command, faults, interrupts, drifts>>

(* Another operator moves the whole cluster; the health gate is the last   *)
(* observation before Kubespray takes the cluster over.                    *)
Drift(v) ==
  /\ admin /\ pc \notin {"kubespray", "verify"} /\ drifts < MaxDrifts
  /\ server' = v
  /\ kubelet' = [n \in Node |-> IF n \in Registered THEN v ELSE Absent]
  /\ drifts' = drifts + 1
  /\ UNCHANGED <<config, admin, platform, command, faults, interrupts, relapses>>

----------------------------------------------------------------------------
Kubespray == \/ \E n \in Node : ControlPlane(n) \/ NodeStep(n)
             \/ FetchConfig \/ KubesprayDone

Command == \/ Preflight \/ Seed \/ PlanRound \/ Check \/ Gate \/ Kubespray
           \/ Verify \/ Finish \/ Handoff \/ Wait \/ Status

Flux == FluxSync \/ FluxReady

Next == \/ \E m \in Modes : Start(m)
        \/ Command \/ Flux
        \/ Interrupt \/ Fail \/ Relapse
        \/ \E v \in Version : Drift(v)

Spec == Init /\ [][Next]_vars

(* A started command goes on, Flux reconciles on its interval, and the     *)
(* full apply is run again and again.                                      *)
FairSpec == /\ Spec
            /\ WF_vars(Command) /\ WF_vars(Flux)
            /\ SF_vars(Start("Full"))

----------------------------------------------------------------------------
(***************************************************************************)
(* The API server is at most one minor ahead of every registered kubelet   *)
(* and never behind one, whatever runs were interrupted and rerun          *)
(* (waitHealthy before each Kubespray run, ladder steps of one minor).     *)
(***************************************************************************)
SkewBounded ==
  \A n \in Registered :
    kubelet[n] <= server /\ Minor[server] - Minor[kubelet[n]] <= 1

(***************************************************************************)
(* Atum moves an API server only from one committed release to the next,   *)
(* and only off a version that every registered node runs; a cluster it    *)
(* cannot reach through a kubeconfig is taken to the target (the live      *)
(* version is checked against the plan after planning, and again by the    *)
(* pre-upgrade gate, while another operator may have moved it).            *)
(***************************************************************************)
OneStepUp ==
  [][ server' # server /\ drifts' = drifts =>
      IF ~admin THEN server' = Target(releases)
      ELSE /\ \E i \in 1..(Len(releases) - 1) :
                server = releases[i] /\ server' = releases[i + 1]
           /\ ~Mixed(server) ]_vars

(***************************************************************************)
(* A command that reports success leaves the target release on the API     *)
(* server and on every registered node, and a full apply also leaves the   *)
(* platform ready, even if it was handed off several upgrades earlier.     *)
(***************************************************************************)
DoneMeansConverged ==
  [][ outcome' = "done" /\ outcome # "done" /\ drifts = 0 =>
        /\ Healthy(Target(releases))
        /\ mode = "Full" => root = "ready" ]_vars

(***************************************************************************)
(* A full apply that has begun to publish is not turned away: no later     *)
(* plan and no handoff refuses what the plan of applyCommand's preflight   *)
(* admitted, and the bound of convergeOrchestration cuts no convergence    *)
(* short unless the platform lost its readiness again and again.  Only     *)
(* another operator who moves the cluster can bring either about.          *)
(***************************************************************************)
NoLateRefusal ==
  [][ outcome' # outcome /\ drifts = 0 =>
        /\ outcome' = "refused" /\ mode = "Full" => pc \in {"preflight", "status"}
        /\ outcome' = "exceeded" => relapses >= Len(releases) + 3 ]_vars

(***************************************************************************)
(* Rerunning the full apply brings API server, nodes and platform to the   *)
(* target: "an idempotent rerun path".                                     *)
(***************************************************************************)
Converged == Healthy(Target(releases)) /\ root = "ready" /\ outcome = "done"
Converges == automatic => <>Converged

(***************************************************************************)
(* After a successful full apply every machine of the inventory is a node  *)
(* of the cluster (the rerun of an interrupted install).                   *)
(***************************************************************************)
DoneMeansAllNodes ==
  [][ outcome' = "done" /\ outcome # "done" /\ mode = "Full" =>
        Registered = Node ]_vars

(***************************************************************************)
(* convergencePlanDetail announces "before platform reconciliation": the   *)
(* desired platform is not deployed on a version it does not support.      *)
(***************************************************************************)
PlatformWhereSupported == root = "new" => server \in supports \/ drifts > 0
============================================================================
