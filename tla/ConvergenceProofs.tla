-------------------------- MODULE ConvergenceProofs --------------------------
(***************************************************************************)
(* The climb of a cluster along any ladder, with any number of nodes, any  *)
(* commands, interruptions and moves by another operator.  The skew bound  *)
(* holds because a run of Kubespray starts only from a cluster that one    *)
(* observation found uniform and on the planned version, and that lasts:   *)
(* while Kubespray runs the API server and the kubelets are on the two     *)
(* ends of one step of the ladder (Moving).  That an undisturbed apply is  *)
(* not refused late is a matter of counting: every iteration of its loop   *)
(* stands on a later place of the ladder than the one before (AloneInv).   *)
(* Last, the pulls that build the ladder.                                  *)
(***************************************************************************)
EXTENDS Convergence, SequenceTheorems, WellFoundedInduction, TLAPS

(* What a plan of LivePlan looks like. *)
Shaped(p) ==
  /\ p.order # "None"
  /\ p.order = "InstallTarget" => p.step = Target(releases)
  /\ p.order = "AlreadyCurrent" => p.current = Target(releases) /\ p.step = Target(releases)
  /\ p.order \in {"KubernetesFirst", "PlatformFirst"} =>
       \E i \in 1..(Len(releases) - 1) : p.current = releases[i] /\ p.step = releases[i + 1]

Planned == pc \in {"converge", "gate", "kubespray", "verify", "finish", "handoff", "wait", "status"}
           => Shaped(plan)

(* An interrupted install has brought nothing but the target; only a        *)
(* cluster with a kubeconfig is moved by others.                            *)
Fresh == /\ server \in {Absent, Target(releases)}
         /\ \A n \in Node : kubelet[n] \in {Absent, server}

Reachable == IF admin THEN server \in Version ELSE Fresh

(* Kubespray is between the two ends of a step. *)
Moving ==
  IF plan.order = "InstallTarget" THEN Fresh
  ELSE /\ admin /\ server \in {plan.current, plan.step}
       /\ \A n \in Registered : kubelet[n] \in {plan.current, plan.step}
       /\ server = plan.current => ~Mixed(plan.current)

Guarded ==
  /\ pc = "converge" => (plan.order = "InstallTarget" <=> ~admin)
  /\ pc = "gate" => plan.order # "InstallTarget" /\ admin
  /\ pc = "kubespray" => Moving

(* What is left of the command needs the target to be there. *)
Arrived ==
  \/ pc \in {"finish", "status"}
  \/ pc \in {"handoff", "wait"} /\ plan.order # "PlatformFirst"
Settled == Arrived => plan.order = "AlreadyCurrent" /\ (drifts = 0 => Healthy(Target(releases)))

ClimbInv == TypeOK /\ Planned /\ Reachable /\ Guarded /\ SkewBounded /\ Settled

(* The ladder under its type: the versions of a step and their minors. *)
LEMMA LadderSteps ==
  ASSUME TypeOK
  PROVE  /\ Len(releases) \in Nat \ {0} /\ DOMAIN releases = 1..Len(releases)
         /\ Target(releases) \in Version
         /\ \A i \in 1..Len(releases) : releases[i] \in Version
         /\ \A i \in 1..(Len(releases) - 1) :
              /\ releases[i] < releases[i + 1]
              /\ Minor[releases[i + 1]] - Minor[releases[i]] \in {0, 1}
<1>1. releases \in Seq(Version) /\ releases # <<>>
  BY DEF TypeOK, WellShaped
<1>2. Len(releases) \in Nat \ {0} /\ DOMAIN releases = 1..Len(releases)
  BY <1>1, EmptySeq, LenProperties
<1>3. \A i \in 1..Len(releases) : releases[i] \in Version
  BY <1>1, <1>2, ElementOfSeq
<1> QED
  BY <1>2, <1>3 DEF TypeOK, WellShaped, Target

(* A plan made from a live version that is on the ladder has the shape. *)
LEMMA LivePlanShaped ==
  ASSUME TypeOK, ~PlanFails
  PROVE  LivePlan \in Plans /\ Shaped(LivePlan) /\ (LivePlan.order = "InstallTarget" <=> ~admin)
<1> USE LadderSteps, VersionAssumption
<1>1. CASE ~admin
  BY <1>1 DEF LivePlan, Shaped, Plans, Orders
<1>2. CASE admin /\ server = Target(releases)
  BY <1>2 DEF LivePlan, Shaped, Plans, Orders
<1>3. CASE admin /\ server # Target(releases)
  <2> DEFINE i == ReleaseIndex(server, releases)
  <2>1. OnLadder(server, releases)
    BY <1>3 DEF PlanFails
  <2>2. i \in DOMAIN releases /\ releases[i] = server
    BY <2>1 DEF ReleaseIndex, OnLadder
  <2>3. i \in 1..(Len(releases) - 1)
    BY <2>2, <1>3 DEF Target
  <2>4. /\ LivePlan.order \in {"PlatformFirst", "KubernetesFirst"}
        /\ LivePlan.current = releases[i] /\ LivePlan.step = releases[i + 1]
    BY <1>3, <2>2 DEF LivePlan
  <2>5. LivePlan \in Plans
    BY <1>3, <2>2, <2>3 DEF LivePlan, Plans, Orders
  <2> QED
    BY <1>3, <2>3, <2>4, <2>5 DEF Shaped
<1> QED
  BY <1>1, <1>2, <1>3

(* The two ends of a step are within the skew, and so are equal versions.   *)
LEMMA SkewOfStep ==
  ASSUME NEW v \in Version, NEW w \in Version,
         v = w \/ (v < w /\ Minor[w] - Minor[v] \in {0, 1})
  PROVE  v <= w /\ Minor[w] - Minor[v] <= 1
<1>1. v \in Nat /\ w \in Nat /\ Minor[v] \in Nat /\ Minor[w] \in Nat
  BY VersionAssumption
<1> QED
  BY <1>1

LEMMA ClimbInitially == Init => ClimbInv
<1> SUFFICES ASSUME Init
             PROVE  ClimbInv
  OBVIOUS
<1> USE VersionAssumption DEF Init
<1>1. releases \in Seq(Version) /\ WellShaped(releases)
  <2>1. PICK n \in 1..MaxLadder : releases \in [1..n -> Version]
    BY DEF Ladders
  <2> QED
    BY <2>1, SeqDef, ConvergenceAssumption DEF Ladders
<1>2. server \in Version \cup {Absent}
  BY <1>1, LenProperties
<1>3. TypeOK
  <2>1. supports \subseteq Version /\ Target(releases) \in supports
    BY DEF Ranges
  <2>2. NoPlan \in Plans
    BY DEF NoPlan, Plans, Orders
  <2>3. /\ admin \in BOOLEAN /\ kubelet \in [Node -> Version \cup {Absent}]
        /\ root \in {"none", "old", "ready"} /\ main \in {"old", "new"} /\ flux \in BOOLEAN
    BY Zenon, <1>2
  <2> QED
    BY Zenon, <1>1, <1>2, <2>1, <2>2, <2>3 DEF TypeOK, Steps, Modes, Outcomes
<1>4. SkewBounded
  <2>1. kubelet = [n \in Node |-> server]
    BY Zenon
  <2> HIDE DEF Init
  <2> QED
    BY <1>2, <2>1 DEF SkewBounded, Registered, Absent
<1>5. Reachable
  BY Zenon, <1>2 DEF Reachable, Fresh, Absent
<1> QED
  BY <1>3, <1>4, <1>5 DEF ClimbInv, Planned, Guarded, Settled, Arrived

(* A step that leaves the ladder, the cluster and the drifts alone keeps    *)
(* what is said of them.                                                    *)
LEMMA ClusterKept ==
  ASSUME ClimbInv, UNCHANGED <<releases, server, admin, kubelet, drifts>>
  PROVE  /\ Reachable' /\ SkewBounded'
         /\ \A v : Healthy(v)' <=> Healthy(v)
BY DEF ClimbInv, Reachable, Fresh, SkewBounded, Healthy, Mixed, Registered

LEMMA ClimbPreserved == ClimbInv /\ [Next]_vars => ClimbInv'
<1> SUFFICES ASSUME ClimbInv, [Next]_vars
             PROVE  ClimbInv'
  OBVIOUS
<1>1. ASSUME NEW m \in Modes, Start(m)
      PROVE  ClimbInv'
  <2>1. TypeOK'
    <3>1. NoPlan \in Plans
      BY DEF NoPlan, Plans, Orders
    <3> QED
      BY ZenonT(30), <1>1, <3>1 DEF Start, ClimbInv, TypeOK, config, cluster, platform, budgets,
         Steps, Modes, Outcomes
  <2>2. Planned' /\ Guarded' /\ Settled'
    BY <1>1 DEF Start, Planned, Guarded, Settled, Arrived
  <2> QED
    BY <1>1, <2>1, <2>2, ClusterKept DEF ClimbInv, Start, config, cluster, budgets
<1>2. CASE Preflight \/ Seed
  <2>1. TypeOK'
    <3>1. CASE Preflight
      BY <3>1 DEF Preflight, End, Goto, ClimbInv, TypeOK, config, cluster, platform, budgets,
                  Steps, Outcomes
    <3>2. CASE Seed
      BY <3>2 DEF Seed, Goto, ClimbInv, TypeOK, config, cluster, platform, budgets, Steps
    <3> QED
      BY <1>2, <3>1, <3>2
  <2>2. Planned' /\ Guarded' /\ Settled'
    BY <1>2 DEF Preflight, Seed, End, Goto, Planned, Guarded, Settled, Arrived
  <2> QED
    BY <1>2, <2>1, <2>2, ClusterKept DEF ClimbInv, Preflight, Seed, config, cluster, budgets
<1>3. CASE PlanRound
  <2>1. CASE pc' = "idle"
    <3>1. TypeOK'
      BY <1>3, <2>1 DEF PlanRound, End, ClimbInv, TypeOK, config, cluster, platform, budgets,
                  Steps, Outcomes
    <3>2. Planned' /\ Guarded' /\ Settled'
      BY <2>1 DEF Planned, Guarded, Settled, Arrived
    <3> QED
      BY ZenonT(30), <1>3, <3>1, <3>2, ClusterKept DEF ClimbInv, PlanRound, config, cluster, budgets
  <2>2. CASE pc' # "idle"
    <3>1. /\ ~PlanFails /\ plan' = LivePlan /\ rounds' = rounds + 1
          /\ pc' = (IF LivePlan.order = "PlatformFirst" THEN "handoff" ELSE "converge")
          /\ UNCHANGED <<mode, applied, outcome, config, cluster, platform, budgets>>
      BY <1>3, <2>2 DEF PlanRound, End
    <3>2. LivePlan \in Plans /\ Shaped(LivePlan) /\ (LivePlan.order = "InstallTarget" <=> ~admin)
      BY <3>1, LivePlanShaped DEF ClimbInv
    <3>3. TypeOK'
      BY <3>1, <3>2 DEF ClimbInv, TypeOK, config, cluster, platform, budgets, Steps
    <3>4. Shaped(plan)'
      BY <3>1, <3>2 DEF Shaped, config
    <3>5. Planned' /\ Guarded' /\ Settled'
      BY <3>1, <3>2, <3>4 DEF Planned, Guarded, Settled, Arrived, cluster
    <3> QED
      BY <3>1, <3>3, <3>5, ClusterKept DEF ClimbInv, config, cluster, budgets
  <2> QED
    BY <2>1, <2>2
<1>4. CASE Check
  <2>1. TypeOK'
    BY SMTT(30), <1>4 DEF Check, End, Goto, ClimbInv, TypeOK, config, cluster, platform, budgets,
                Steps, Outcomes
  <2>2. Planned' /\ Settled'
    BY ZenonT(30), <1>4 DEF Check, End, Goto, ClimbInv, Planned, Shaped, Settled, Arrived, config
  <2>3. Guarded'
    BY <1>4 DEF Check, End, Goto, ClimbInv, Guarded, Moving, Reachable, Fresh, cluster, config
  <2> QED
    BY ZenonT(30), <1>4, <2>1, <2>2, <2>3, ClusterKept DEF ClimbInv, Check, config, cluster, budgets
<1>5. CASE Gate
  <2>1. TypeOK'
    BY <1>5 DEF Gate, End, Goto, ClimbInv, TypeOK, config, cluster, platform, budgets,
                Steps, Outcomes
  <2>2. Planned'
    BY ZenonT(30), <1>5 DEF Gate, End, Goto, ClimbInv, Planned, Shaped, config
  <2>3. Settled'
    BY ZenonT(30), <1>5, ClusterKept DEF Gate, End, Goto, ClimbInv, Planned, Shaped, Settled,
       Arrived, config, cluster, budgets
  <2>4. Guarded'
    BY <1>5 DEF Gate, End, Goto, ClimbInv, Guarded, Moving, Healthy, Mixed, Registered, cluster
  <2> QED
    BY ZenonT(30), <1>5, <2>1, <2>2, <2>3, <2>4, ClusterKept DEF ClimbInv, Gate, config, cluster,
       budgets
<1>6. ASSUME NEW n \in Node, ControlPlane(n)
      PROVE  ClimbInv'
  <2>1. /\ pc = "kubespray" /\ server # plan.step /\ server' = plan.step
        /\ kubelet' = [kubelet EXCEPT ![n] = plan.step]
        /\ UNCHANGED <<config, admin, platform, command, budgets>>
    BY <1>6 DEF ControlPlane
  <2>2. Moving /\ Shaped(plan) /\ TypeOK /\ plan \in Plans
    BY <2>1 DEF ClimbInv, Guarded, Planned, TypeOK
  <2>3. plan.step \in Version
    BY SMTT(30), VersionAssumption, LadderSteps, <2>2 DEF Shaped, Plans, Orders
  <2>4. TypeOK'
    BY <2>1, <2>2, <2>3 DEF TypeOK, config, platform, command, budgets
  <2>5. Planned' /\ Settled'
    BY <2>1, <2>2 DEF Planned, Shaped, Settled, Arrived, config, command
  <2>6. CASE plan.order = "InstallTarget"
    <3>1. Fresh /\ plan.step = Target(releases) /\ server = Absent /\ server' = Target(releases)
      BY <2>1, <2>2, <2>6 DEF Moving, Shaped, Fresh
    <3>2. \A k \in Node : kubelet[k] = Absent
      BY ZenonT(30), <3>1 DEF Fresh, Absent
    <3>3. Fresh'
      BY ZenonT(30), <2>1, <2>2, <3>1, <3>2 DEF Fresh, config, TypeOK
    <3>4. Guarded' /\ Reachable'
      BY <2>1, <2>3, <2>6, <3>3 DEF Guarded, Moving, Reachable, command
    <3>5. SkewBounded'
      <4>1. \A k \in Registered' : kubelet'[k] = server'
        BY <2>1, <2>2, <3>2 DEF Registered, TypeOK
      <4> QED
        BY Zenon, <2>1, <2>3, <4>1, SkewOfStep DEF SkewBounded
    <3> QED
      BY ZenonT(30), <2>4, <2>5, <3>4, <3>5 DEF ClimbInv
  <2>7. CASE plan.order # "InstallTarget"
    <3>1. /\ admin /\ server = plan.current /\ ~Mixed(plan.current)
          /\ plan.order \in {"KubernetesFirst", "PlatformFirst"}
      BY <2>1, <2>2, <2>7 DEF Moving, Shaped, Plans, Orders
    <3>2. PICK i \in 1..(Len(releases) - 1) :
            plan.current = releases[i] /\ plan.step = releases[i + 1]
      BY <2>2, <3>1 DEF Shaped
    <3>3. plan.current < plan.step /\ Minor[plan.step] - Minor[plan.current] \in {0, 1}
      BY ZenonT(30), VersionAssumption, LadderSteps, <2>2, <3>2
    <3>4. plan.current \in Version
      BY SMTT(30), VersionAssumption, LadderSteps, <2>2, <3>2
    <3>5. \A k \in Registered' : kubelet'[k] \in {plan.current, plan.step}
      BY ZenonT(30), <2>1, <2>2, <3>1 DEF Registered, Mixed, TypeOK
    <3>6. SkewBounded'
      BY Zenon, <2>1, <2>3, <3>3, <3>4, <3>5, SkewOfStep DEF SkewBounded
    <3>7. Guarded' /\ Reachable'
      BY <2>1, <2>3, <2>7, <3>1, <3>3, <3>4, <3>5 DEF Guarded, Moving, Reachable, command
    <3> QED
      BY <2>4, <2>5, <3>6, <3>7 DEF ClimbInv
  <2> QED
    BY <2>6, <2>7
<1>7. CASE FetchConfig
  <2>1. /\ pc = "kubespray" /\ server = plan.step /\ ~admin /\ admin' = TRUE
        /\ UNCHANGED <<config, server, kubelet, platform, command, budgets>>
    BY ZenonT(30), <1>7 DEF FetchConfig
  <2>2. plan.order = "InstallTarget" /\ Fresh /\ server = Target(releases) /\ TypeOK
    BY ZenonT(30), <2>1 DEF ClimbInv, Guarded, Planned, Moving, Shaped, Plans, Orders
  <2>3. TypeOK'
    BY ZenonT(30), <2>1, <2>2 DEF TypeOK, config, platform, command, budgets
  <2>4. Planned' /\ Settled'
    BY Zenon, <2>1 DEF ClimbInv, Planned, Shaped, Settled, Arrived, config, command
  <2>5. Guarded' /\ Reachable'
    BY ZenonT(30), VersionAssumption, LadderSteps, <2>1, <2>2 DEF Guarded, Moving, Fresh, Reachable,
       config, command
  <2>6. SkewBounded'
    BY <2>1 DEF ClimbInv, SkewBounded, Registered
  <2> QED
    BY <2>3, <2>4, <2>5, <2>6 DEF ClimbInv
<1>8. ASSUME NEW n \in Node, NodeStep(n)
      PROVE  ClimbInv'
  <2>1. /\ pc = "kubespray" /\ server = plan.step /\ admin
        /\ kubelet' = [kubelet EXCEPT ![n] = plan.step]
        /\ UNCHANGED <<config, server, admin, platform, command, budgets>>
    BY <1>8 DEF NodeStep
  <2>2. Moving /\ TypeOK /\ server \in Version
    BY ZenonT(30), <2>1 DEF ClimbInv, Guarded, Reachable
  <2>3. TypeOK'
    BY ZenonT(30), <2>1, <2>2 DEF TypeOK, config, platform, command, budgets
  <2>4. Planned' /\ Settled'
    BY ZenonT(30), <2>1 DEF ClimbInv, Planned, Shaped, Settled, Arrived, config, command
  <2>5. SkewBounded'
    <3>1. \A k \in Registered' : kubelet'[k] = server \/ (k \in Registered /\ kubelet'[k] = kubelet[k])
      BY ZenonT(30), <2>1, <2>2 DEF Registered, TypeOK
    <3> QED
      BY ZenonT(30), <2>1, <2>2, <3>1, SkewOfStep DEF ClimbInv, SkewBounded
  <2>6. Guarded' /\ Reachable'
    BY <2>1, <2>2 DEF Guarded, Moving, Fresh, Mixed, Registered, Reachable, config, command, TypeOK
  <2> QED
    BY <2>3, <2>4, <2>5, <2>6 DEF ClimbInv
<1>9. CASE KubesprayDone \/ Interrupt \/ Fail
  <2>1. TypeOK'
    <3>1. CASE KubesprayDone
      BY ZenonT(30), <3>1 DEF KubesprayDone, Goto, ClimbInv, TypeOK, config, cluster, platform,
         budgets, Steps
    <3>2. CASE Interrupt
      BY SMTT(30), <3>2 DEF Interrupt, End, ClimbInv, TypeOK, config, cluster, platform, Steps,
         Outcomes
    <3>3. CASE Fail
      BY SMTT(30), <3>3 DEF Fail, End, ClimbInv, TypeOK, config, cluster, platform, Steps, Outcomes
    <3> QED
      BY ZenonT(30), <1>9, <3>1, <3>2, <3>3
  <2>2. Planned' /\ Guarded' /\ Settled'
    BY SMTT(30), <1>9 DEF KubesprayDone, Interrupt, Fail, End, Goto, ClimbInv, Planned, Shaped,
       Guarded, Settled, Arrived, config
  <2> QED
    BY Zenon, <1>9, <2>1, <2>2, ClusterKept
    DEF ClimbInv, KubesprayDone, Interrupt, Fail, config, cluster, budgets
<1>10. CASE Verify
  <2>1. TypeOK'
    BY SMTT(30), <1>10 DEF Verify, End, Goto, ClimbInv, TypeOK, config, cluster, platform, budgets,
       Steps, Outcomes
  <2>2. Planned' /\ Guarded'
    BY ZenonT(30), <1>10 DEF Verify, End, Goto, ClimbInv, Planned, Shaped, Guarded, config
  <2>3. Settled'
    BY <1>10, ClusterKept DEF Verify, End, Goto, ClimbInv, Planned, Shaped, Settled, Arrived,
                              config, cluster, budgets
  <2> QED
    BY ZenonT(30), <1>10, <2>1, <2>2, <2>3, ClusterKept DEF ClimbInv, Verify, config, cluster, budgets
<1>11. CASE Finish
  <2>1. TypeOK'
    BY SMTT(30), <1>11 DEF Finish, End, Goto, ClimbInv, TypeOK, config, cluster, platform, budgets,
       Steps, Outcomes
  <2>2. Planned' /\ Guarded'
    BY SMTT(30), <1>11 DEF Finish, End, Goto, ClimbInv, Planned, Shaped, Guarded, config
  <2>3. Settled'
    BY ZenonT(30), <1>11, ClusterKept DEF Finish, End, Goto, ClimbInv, Settled, Arrived, config,
       cluster, budgets
  <2> QED
    BY ZenonT(30), <1>11, <2>1, <2>2, <2>3, ClusterKept DEF ClimbInv, Finish, config, cluster, budgets
<1>12. CASE Handoff
  <2>1. TypeOK'
    <3>1. flux' \in BOOLEAN /\ pc' \in {"wait", "idle"} /\ outcome' \in {outcome, "refused"}
      BY Zenon, <1>12 DEF Handoff, End, Goto, ClimbInv, TypeOK
    <3>2. UNCHANGED <<config, cluster, root, main, budgets, mode, plan, rounds, applied>>
      BY ZenonT(30), <1>12 DEF Handoff, End, Goto
    <3> QED
      BY SMTT(30), <3>1, <3>2 DEF ClimbInv, TypeOK, config, cluster, budgets, Steps, Outcomes
  <2>2. Planned' /\ Guarded'
    BY SMTT(30), <1>12 DEF Handoff, End, Goto, ClimbInv, Planned, Shaped, Guarded, config
  <2>3. Settled'
    BY <1>12, ClusterKept DEF Handoff, End, Goto, ClimbInv, Settled, Arrived, config, cluster,
                              budgets
  <2> QED
    BY ZenonT(30), <1>12, <2>1, <2>2, <2>3, ClusterKept DEF ClimbInv, Handoff, config, cluster,
       budgets
<1>13. CASE Wait
  <2>1. TypeOK'
    BY ZenonT(30), <1>13 DEF Wait, ClimbInv, TypeOK, config, cluster, platform, budgets, Steps
  <2>2. Planned' /\ Guarded'
    BY ZenonT(30), <1>13 DEF Wait, ClimbInv, Planned, Shaped, Guarded, config
  <2>3. Settled'
    BY <1>13, ClusterKept DEF Wait, ClimbInv, Settled, Arrived, config, cluster, budgets
  <2> QED
    BY ZenonT(30), <1>13, <2>1, <2>2, <2>3, ClusterKept DEF ClimbInv, Wait, config, cluster, budgets
<1>14. CASE Status
  <2>1. TypeOK'
    BY <1>14 DEF Status, End, ClimbInv, TypeOK, config, cluster, platform, budgets, Steps, Outcomes
  <2>2. Planned' /\ Guarded' /\ Settled'
    BY ZenonT(30), <1>14 DEF Status, End, Planned, Guarded, Settled, Arrived
  <2> QED
    BY ZenonT(30), <1>14, <2>1, <2>2, ClusterKept DEF ClimbInv, Status, config, cluster, budgets
<1>15. CASE FluxSync \/ FluxReady \/ Relapse
  <2>1. /\ root' \in {"new", "ready"} /\ relapses' \in Nat
        /\ UNCHANGED <<config, cluster, main, flux, command, faults, interrupts, drifts>>
    BY SMTT(30), <1>15 DEF FluxSync, FluxReady, Relapse, ClimbInv, TypeOK, budgets
  <2>2. TypeOK'
    BY ZenonT(30), <2>1 DEF ClimbInv, TypeOK, config, cluster, command
  <2>3. Planned'
    BY ZenonT(30), <2>1 DEF ClimbInv, Planned, Shaped, config, command
  <2>4. Guarded'
    BY Zenon, <2>1 DEF ClimbInv, Guarded, Moving, Fresh, Mixed, Registered, config, cluster, command
  <2>5. Settled'
    BY ZenonT(30), <2>1, ClusterKept DEF ClimbInv, Settled, Arrived, config, cluster, command
  <2> QED
    BY ZenonT(30), <2>1, <2>2, <2>3, <2>4, <2>5, ClusterKept DEF ClimbInv, config, cluster
<1>16. ASSUME NEW v \in Version, Drift(v)
       PROVE  ClimbInv'
  <2>1. /\ admin /\ pc \notin {"kubespray", "verify"} /\ server' = v
        /\ kubelet' = [n \in Node |-> IF n \in Registered THEN v ELSE Absent]
        /\ drifts' = drifts + 1
        /\ UNCHANGED <<config, admin, platform, command, faults, interrupts, relapses>>
    BY ZenonT(30), <1>16 DEF Drift
  <2>2. TypeOK'
    BY SMTT(30), <2>1 DEF ClimbInv, TypeOK, config, platform, command
  <2>3. Planned'
    BY ZenonT(30), <2>1 DEF ClimbInv, Planned, Shaped, config, command
  <2>4. Guarded' /\ Reachable'
    BY ZenonT(30), <2>1 DEF ClimbInv, Guarded, Reachable, command
  <2>5. Settled'
    BY SMTT(30), <2>1 DEF ClimbInv, TypeOK, Settled, Arrived, command
  <2>6. SkewBounded'
    <3>1. \A k \in Registered' : kubelet'[k] = server'
      BY ZenonT(30), <2>1 DEF Registered, Absent
    <3> QED
      BY ZenonT(30), <2>1, <3>1, SkewOfStep DEF SkewBounded
  <2> QED
    BY ZenonT(30), <2>2, <2>3, <2>4, <2>5, <2>6 DEF ClimbInv
<1>17. CASE UNCHANGED vars
  <2>1. TypeOK' /\ Planned'
    <3>1. TypeOK'
      BY <1>17, Zenon DEF vars, ClimbInv, TypeOK, config, cluster, platform, command, budgets
    <3>2. Planned'
      BY <1>17, Zenon DEF vars, ClimbInv, Planned, Shaped, config, command
    <3> QED
      BY <3>1, <3>2
  <2>2. Guarded'
    BY Zenon, <1>17 DEF vars, ClimbInv, Guarded, Moving, Fresh, Mixed, Registered, config, cluster,
       command
  <2>3. Settled'
    BY <1>17, ClusterKept DEF vars, ClimbInv, Settled, Arrived, config, cluster, command, budgets
  <2> QED
    BY ZenonT(30), <1>17, <2>1, <2>2, <2>3, ClusterKept DEF ClimbInv, vars, config, cluster, budgets
<1> QED
  BY <1>1, <1>2, <1>3, <1>4, <1>5, <1>6, <1>7, <1>8, <1>9, <1>10, <1>11, <1>12, <1>13, <1>14,
     <1>15, <1>16, <1>17 DEF Next, Command, Kubespray, Flux

LEMMA ClimbInvariance == Spec => []ClimbInv
BY ClimbInitially, ClimbPreserved, PTL DEF Spec

(* The API server stays at most one minor ahead of every node and never     *)
(* falls behind one, however many runs are interrupted and rerun.           *)
THEOREM SkewAlwaysBounded == Spec => []SkewBounded
<1>1. ClimbInv => SkewBounded
  BY DEF ClimbInv
<1> QED
  BY <1>1, ClimbInvariance, PTL

(* ConvergePlanned and Kubespray move a reachable cluster one committed     *)
(* step at a time and only when all its nodes agree.                        *)
THEOREM ClimbsStepByStep == Spec => OneStepUp
<1> DEFINE Move == server' # server /\ drifts' = drifts =>
              IF ~admin THEN server' = Target(releases)
              ELSE /\ \E i \in 1..(Len(releases) - 1) :
                        server = releases[i] /\ server' = releases[i + 1]
                   /\ ~Mixed(server)
<1>1. ClimbInv /\ [Next]_vars => [Move]_vars
  <2> SUFFICES ASSUME ClimbInv, [Next]_vars, server' # server, drifts' = drifts
               PROVE  Move
    BY ZenonT(30)
  <2>1. PICK n \in Node : ControlPlane(n)
    <3>1. \A v \in Version : ~Drift(v)
      BY DEF Drift, ClimbInv, TypeOK
    <3> QED
      BY Zenon, <3>1 DEF Next, Command, Kubespray, Flux, Start, Preflight, Seed, PlanRound, Check,
         Gate, NodeStep, FetchConfig, KubesprayDone, Verify, Finish, Handoff, Wait, Status,
         FluxSync, FluxReady, Interrupt, Fail, Relapse, vars, cluster
  <2>2. pc = "kubespray" /\ server # plan.step /\ server' = plan.step
    BY ZenonT(30), <2>1 DEF ControlPlane
  <2>3. Moving /\ Shaped(plan) /\ plan \in Plans /\ Reachable
    BY ZenonT(30), <2>2 DEF ClimbInv, Guarded, Planned, TypeOK
  <2>4. CASE plan.order = "InstallTarget"
    BY ZenonT(30), <2>2, <2>3, <2>4, VersionAssumption DEF Moving, Fresh, Shaped, Reachable, Absent
  <2>5. CASE plan.order # "InstallTarget"
    BY <2>2, <2>3, <2>5 DEF Moving, Shaped, Plans, Orders
  <2> QED
    BY <2>4, <2>5
<1> QED
  BY <1>1, ClimbInvariance, PTL DEF Spec, OneStepUp

(* A command that reports success left the target on the API server and on  *)
(* every node, and a full apply a ready platform.                           *)
THEOREM SuccessMeansTarget == Spec => DoneMeansConverged
<1> DEFINE Done == outcome' = "done" /\ outcome # "done" /\ drifts = 0 =>
              Healthy(Target(releases)) /\ (mode = "Full" => root = "ready")
<1>1. ClimbInv /\ [Next]_vars => [Done]_vars
  <2> SUFFICES ASSUME ClimbInv, [Next]_vars, outcome' = "done", outcome # "done", drifts = 0
               PROVE  Done
    BY ZenonT(30)
  <2>1. Finish \/ Status
    BY Zenon DEF Next, Command, Kubespray, Flux, Start, Preflight, Seed, PlanRound, Check, Gate,
       ControlPlane, NodeStep, FetchConfig, KubesprayDone, Verify, Handoff, Wait, FluxSync,
       FluxReady, Interrupt, Fail, Relapse, Drift, vars, command, End, Goto
  <2> QED
    BY <2>1 DEF ClimbInv, Settled, Arrived, Finish, Status, End, Goto
<1> QED
  BY <1>1, ClimbInvariance, PTL DEF Spec, DoneMeansConverged

----------------------------------------------------------------------------
(* A later step of the ladder is a later release. *)
LEMMA Increasing ==
  ASSUME TypeOK
  PROVE  \A i, j \in 1..Len(releases) : i < j => releases[i] < releases[j]
<1> DEFINE Falls(k) == \E i \in 1..Len(releases) :
                         i + k + 1 \in 1..Len(releases) /\ ~(releases[i] < releases[i + k + 1])
<1>0. /\ Len(releases) \in Nat /\ \A i \in 1..Len(releases) : releases[i] \in Nat
      /\ \A i \in 1..(Len(releases) - 1) : releases[i] < releases[i + 1]
  BY Zenon, LadderSteps, VersionAssumption
<1>1. ASSUME NEW S, S = {k \in Nat : Falls(k)}, S # {}
      PROVE  FALSE
  <2>1. S \subseteq Nat
    BY Zenon, <1>1
  <2>2. PICK k \in S : \A n \in S : ~(<<n, k>> \in OpToRel(<, Nat))
    BY Zenon, <1>1, <2>1, WFMin, NatLessThanWellFounded
  <2>3. \A n \in Nat : n < k => ~Falls(n)
    <3>1. \A n \in S : <<n, k>> \notin {ss \in Nat \X Nat : ss[1] < ss[2]}
      BY Zenon, <2>2 DEF OpToRel
    <3>2. ASSUME NEW n \in S
          PROVE  ~(n < k)
      <4>1. n \in Nat /\ k \in Nat /\ <<n, k>> \notin {ss \in Nat \X Nat : ss[1] < ss[2]}
        BY Zenon, <2>1, <3>1
      <4> QED
        BY SMTT(30), <4>1
    <3> QED
      BY Zenon, <1>1, <3>2
  <2>4. k \in Nat /\ Falls(k)
    BY Zenon, <1>1
  <2> HIDE DEF Falls
  <2>5. PICK i \in 1..Len(releases) :
          i + k + 1 \in 1..Len(releases) /\ ~(releases[i] < releases[i + k + 1])
    BY Zenon, <2>4 DEF Falls
  <2>6. CASE k = 0
    <3>1. i \in 1..(Len(releases) - 1) /\ i + k + 1 = i + 1
      BY SMTT(30), <1>0, <2>5, <2>6
    <3> QED
      BY Zenon, <1>0, <2>5, <3>1
  <2>7. CASE k # 0
    <3>1. /\ k - 1 \in Nat /\ k - 1 < k /\ i + (k - 1) + 1 = i + k /\ i + k \in 1..(Len(releases) - 1)
          /\ i + k \in 1..Len(releases)
      BY SMTT(30), <1>0, <2>4, <2>5, <2>7
    <3>2. releases[i] < releases[i + k]
      BY Zenon, <2>3, <3>1 DEF Falls
    <3>3. releases[i + k] < releases[i + k + 1]
      BY Zenon, <1>0, <3>1
    <3>4. releases[i] \in Nat /\ releases[i + k] \in Nat /\ releases[i + k + 1] \in Nat
      BY Zenon, <1>0, <2>5, <3>1
    <3> QED
      BY SMTT(30), <2>5, <3>2, <3>3, <3>4
  <2> QED
    BY Zenon, <2>6, <2>7
<1>2. ASSUME NEW i \in 1..Len(releases), NEW j \in 1..Len(releases), i < j
      PROVE  releases[i] < releases[j]
  <2>1. j - i - 1 \in Nat /\ i + (j - i - 1) + 1 = j
    BY SMTT(30), <1>0, <1>2
  <2>2. ~Falls(j - i - 1)
    BY Zenon, <1>1, <2>1
  <2> QED
    BY Zenon, <2>1, <2>2
<1> QED
  BY Zenon, <1>2

(* A release has one place on the ladder, and only the last is the target. *)
LEMMA OnePlace ==
  ASSUME TypeOK
  PROVE  /\ \A i, j \in 1..Len(releases) : releases[i] = releases[j] => i = j
         /\ \A i \in 1..(Len(releases) - 1) : releases[i] # Target(releases)
         /\ \A i \in 1..Len(releases) : ~(releases[i] > Target(releases))
<1>1. Len(releases) \in Nat \ {0} /\ \A i \in 1..Len(releases) : releases[i] \in Nat
  BY Zenon, LadderSteps, VersionAssumption
<1>2. ASSUME NEW i \in 1..Len(releases), NEW j \in 1..Len(releases), releases[i] = releases[j]
      PROVE  i = j
  <2>1. ~(i < j) /\ ~(j < i)
    <3>1. releases[i] \in Nat /\ releases[j] \in Nat
      BY Zenon, <1>1
    <3>2. ~(releases[i] < releases[j]) /\ ~(releases[j] < releases[i])
      BY SMTT(30), <1>2, <3>1
    <3> QED
      BY Zenon, <3>2, Increasing
  <2> QED
    BY SMTT(30), <2>1
<1>3. Len(releases) \in 1..Len(releases) /\ \A i \in 1..(Len(releases) - 1) :
        i \in 1..Len(releases) /\ i # Len(releases)
  BY SMTT(30), <1>1
<1>4. ASSUME NEW i \in 1..Len(releases)
      PROVE  ~(releases[i] > releases[Len(releases)])
  <2>1. i = Len(releases) \/ i < Len(releases)
    BY SMTT(30), <1>1
  <2>2. i = Len(releases) \/ releases[i] < releases[Len(releases)]
    BY Zenon, <1>3, <2>1, Increasing
  <2>3. releases[i] \in Nat /\ releases[Len(releases)] \in Nat
    BY Zenon, <1>1, <1>3
  <2> QED
    BY SMTT(30), <2>2, <2>3
<1> QED
  BY Zenon, <1>2, <1>3, <1>4 DEF Target

(***************************************************************************)
(* What is known of a command that no other operator came between.  Its    *)
(* cluster is on the ladder (Tracked); what the preflight of a full apply  *)
(* admitted stays admitted (Foreseen); what was planned is still so        *)
(* (Standing).  Every round but the first of an install has either climbed *)
(* a step or made the platform ready, which only a relapse undoes, so      *)
(* there are at most as many as steps and relapses (Counted).              *)
(***************************************************************************)
Tracked == server # Absent => \E i \in 1..Len(releases) : server = releases[i]

Foreseen == mode = "Full" /\ ~automatic /\ pc \notin {"idle", "preflight"}
            => ~admin \/ server = Target(releases)

Standing ==
  /\ pc = "converge" /\ plan.order # "InstallTarget" => server = plan.current
  /\ pc \in {"handoff", "wait"} /\ plan.order = "PlatformFirst" =>
       admin /\ server = plan.current /\ server \in supports

Readied == IF root = "ready" THEN relapses + 1 ELSE relapses

AtPlan == IF admin
          THEN \/ server = Target(releases) /\ rounds <= 1
               \/ \E i \in 1..Len(releases) : server = releases[i] /\ rounds + 1 <= i + Readied
          ELSE rounds = 0
AtWork == /\ plan.order # "PlatformFirst"
          /\ plan.order = "InstallTarget" => rounds <= 1
          /\ plan.order = "KubernetesFirst" =>
               \E i \in 1..(Len(releases) - 1) :
                 /\ plan.current = releases[i] /\ plan.step = releases[i + 1]
                 /\ rounds <= i + Readied
AtHandoff == plan.order = "PlatformFirst" =>
               \E i \in 1..(Len(releases) - 1) : plan.current = releases[i] /\ rounds <= i + relapses
Counted ==
  /\ pc \in {"preflight", "seed"} => rounds = 0
  /\ pc = "plan" => AtPlan
  /\ pc \in {"converge", "gate", "kubespray", "verify"} => AtWork
  /\ pc \in {"handoff", "wait"} => AtHandoff

AloneInv == drifts = 0 => Tracked /\ Foreseen /\ Standing /\ Counted

(* A command that ends leaves the cluster where it is. *)
LEMMA AloneEnds ==
  ASSUME AloneInv, drifts = 0, UNCHANGED <<releases, server>>, pc' = "idle"
  PROVE  AloneInv'
BY Zenon DEF AloneInv, Tracked, Foreseen, Standing, Counted

LEMMA MoreRounds ==
  /\ \A n \in Nat : n + 1 \in Nat /\ n + 1 # 0 /\ n <= n + 1 /\ n <= n
  /\ \A n \in Nat \ {0} : n \in 1..n
  /\ 0 + 1 <= 1
BY SMTT(30)

LEMMA MoreRoom ==
  ASSUME NEW r \in Nat, NEW n \in Nat, NEW a \in Nat, NEW b \in Nat, a <= b
  PROVE  /\ \A i \in 1..n : r + 1 <= i + a => r + 1 <= i + b
         /\ \A i \in 1..(n - 1) : r <= i + a => r <= i + b
BY SMTT(30)

(* Flux and relapses only add to what the rounds may be. *)
LEMMA AloneFlux ==
  ASSUME AloneInv, drifts = 0, TypeOK, Readied <= Readied', relapses <= relapses', relapses' \in Nat,
         UNCHANGED <<config, cluster, command>>
  PROVE  AloneInv'
<1>0. /\ UNCHANGED <<releases, automatic, supports, server, admin, pc, mode, plan, rounds>>
      /\ Target(releases)' = Target(releases)
  BY Zenon DEF config, cluster, command, Target
<1>1. rounds \in Nat /\ Readied \in Nat /\ Readied' \in Nat /\ relapses \in Nat /\ Len(releases) \in Nat
  <2>1. relapses \in Nat /\ relapses' \in Nat /\ rounds \in Nat /\ Len(releases) \in Nat
    BY Zenon, LadderSteps DEF TypeOK
  <2>2. relapses + 1 \in Nat /\ relapses' + 1 \in Nat
    BY Zenon, <2>1, MoreRounds
  <2> QED
    BY Zenon, <2>1, <2>2 DEF Readied
<1>2. /\ \A i \in 1..Len(releases) : rounds + 1 <= i + Readied => rounds + 1 <= i + Readied'
      /\ \A i \in 1..(Len(releases) - 1) : /\ rounds <= i + Readied => rounds <= i + Readied'
                                           /\ rounds <= i + relapses => rounds <= i + relapses'
  BY Zenon, <1>1, MoreRoom
<1>3. AtPlan => AtPlan'
  BY Zenon, <1>0, <1>2 DEF AtPlan
<1>4. (AtWork => AtWork') /\ (AtHandoff => AtHandoff')
  BY Zenon, <1>0, <1>2 DEF AtWork, AtHandoff
<1>5. Counted'
  BY Zenon, <1>0, <1>3, <1>4 DEF AloneInv, Counted
<1>6. Tracked' /\ Foreseen' /\ Standing'
  BY Zenon, <1>0 DEF AloneInv, Tracked, Foreseen, Standing
<1> QED
  BY Zenon, <1>5, <1>6 DEF AloneInv

(* The numbers a round adds. *)
LEMMA Inside ==
  ASSUME NEW l \in Nat, NEW i \in 1..(l - 1), NEW a \in Nat, NEW r \in Nat
  PROVE  /\ i \in 1..l /\ i + 1 \in 1..l
         /\ r <= i + a => r + 1 <= (i + 1) + a /\ r + 1 <= i + (a + 1)
BY SMTT(30)

LEMMA Exhausted ==
  ASSUME NEW l \in Nat \ {0}, NEW r \in Nat, NEW a \in Nat, NEW b \in Nat,
         r = 2 * l + 3, a <= b + 1, r <= 1 \/ \E i \in 1..l : r + 1 <= i + a
  PROVE  b >= l + 3
BY SMTT(30)

(* The plan of a live version, by its place on the ladder. *)
LEMMA LivePlanPlaces ==
  ASSUME TypeOK, ~PlanFails
  PROVE  /\ ~admin => LivePlan.order = "InstallTarget"
         /\ admin /\ server = Target(releases) =>
              LivePlan.order = "AlreadyCurrent" /\ LivePlan.current = server
         /\ admin /\ server # Target(releases) =>
              \E i \in 1..(Len(releases) - 1) :
                /\ server = releases[i] /\ LivePlan.current = releases[i] /\ LivePlan.step = releases[i + 1]
                /\ LivePlan.order \in {"PlatformFirst", "KubernetesFirst"}
                /\ LivePlan.order = "PlatformFirst" => root # "ready" /\ server \in supports
<1> USE LadderSteps, VersionAssumption
<1>1. CASE ~admin
  BY <1>1 DEF LivePlan
<1>2. CASE admin /\ server = Target(releases)
  BY <1>2 DEF LivePlan
<1>3. CASE admin /\ server # Target(releases)
  <2> DEFINE i == ReleaseIndex(server, releases)
  <2>1. OnLadder(server, releases)
    BY <1>3 DEF PlanFails
  <2>2. i \in DOMAIN releases /\ releases[i] = server
    BY <2>1 DEF ReleaseIndex, OnLadder
  <2>3. i \in 1..(Len(releases) - 1)
    BY <2>2, <1>3 DEF Target
  <2>4. /\ LivePlan.order \in {"PlatformFirst", "KubernetesFirst"}
        /\ LivePlan.current = releases[i] /\ LivePlan.step = releases[i + 1]
        /\ LivePlan.order = "PlatformFirst" => root # "ready" /\ server \in supports
    BY <1>3, <2>2 DEF LivePlan
  <2> QED
    BY Zenon, <1>3, <2>2, <2>3, <2>4
<1> QED
  BY Zenon, <1>1, <1>2, <1>3

(* Where the command goes, and what stays as it was. *)
LEMMA AlonePreserved == AloneInv /\ ClimbInv /\ [Next]_vars => AloneInv'
<1> SUFFICES ASSUME AloneInv, ClimbInv, [Next]_vars, drifts' = 0
             PROVE  AloneInv'
  BY Zenon DEF AloneInv
<1>t. TypeOK /\ drifts \in Nat /\ rounds \in Nat /\ relapses \in Nat
  BY Zenon DEF ClimbInv, TypeOK
<1>n. ASSUME NEW v \in Version, Drift(v)
      PROVE  FALSE
  BY Zenon, <1>n, <1>t, MoreRounds DEF Drift
<1>d. drifts = 0
  BY Zenon, <1>n DEF Next, Command, Kubespray, Flux, Start, Preflight, Seed, PlanRound, Check, Gate,
     ControlPlane, NodeStep, FetchConfig, KubesprayDone, Verify, Finish, Handoff, Wait, Status,
     FluxSync, FluxReady, Interrupt, Fail, Relapse, vars, budgets
<1>i. Tracked /\ Foreseen /\ Standing /\ Counted
  BY Zenon, <1>d DEF AloneInv
<1>r. Readied \in Nat /\ relapses + 1 \in Nat
  BY Zenon, <1>t, MoreRounds DEF Readied
<1>e. ASSUME NEW o, End(o), UNCHANGED <<releases, server>>
      PROVE  AloneInv'
  BY Zenon, <1>d, <1>e, AloneEnds DEF End
<1>p. ASSUME UNCHANGED <<releases, server, admin, root, relapses>>, rounds' = 0
      PROVE  AtPlan'
  <2>1. \A i \in 1..Len(releases) : 0 + 1 <= i + Readied
    <3>1. \A n \in Nat, l \in Nat : \A i \in 1..l : 0 + 1 <= i + n
      BY SMTT(30)
    <3> QED
      BY Zenon, <1>r, <1>t, <3>1, LadderSteps
  <2>2. Readied' = Readied
    BY Zenon, <1>p DEF Readied
  <2>3. server = Absent => ~admin
    BY Zenon, VersionAssumption DEF ClimbInv, Reachable, Absent
  <2> QED
    BY Zenon, <1>i, <1>p, <2>1, <2>2, <2>3 DEF AtPlan, Tracked
<1>f. ASSUME UNCHANGED <<releases, automatic, server, admin, mode>>, pc \notin {"idle", "preflight"}
      PROVE  Tracked' /\ Foreseen'
  BY Zenon, <1>i, <1>f DEF Tracked, Foreseen, Target
<1>w. ASSUME AtWork, UNCHANGED <<releases, plan, rounds, root, relapses>>
      PROVE  AtWork'
  <2>1. Readied' = Readied
    BY Zenon, <1>w DEF Readied
  <2> QED
    BY Zenon, <1>w, <2>1 DEF AtWork
<1>1. ASSUME NEW m \in Modes, Start(m)
      PROVE  AloneInv'
  <2>1. /\ UNCHANGED <<releases, automatic, supports, server, admin, root, relapses>>
        /\ pc' \in {"preflight", "plan"} /\ rounds' = 0 /\ (mode' = "Full" => pc' = "preflight")
    BY Zenon, <1>1 DEF Start, config, cluster, platform, budgets
  <2>2. Tracked' /\ Foreseen' /\ Standing' /\ Counted'
    BY Zenon, <1>i, <1>p, <2>1 DEF Tracked, Foreseen, Standing, Counted
  <2> QED
    BY Zenon, <2>2 DEF AloneInv
<1>2. CASE Preflight
  <2>1. /\ UNCHANGED <<releases, automatic, supports, server, admin, root, relapses>> /\ pc = "preflight"
        /\ (\E o : End(o)) \/ (Goto("seed") /\ ~PlanFails /\ ~PlanRefused(LivePlan, "Full"))
    BY Zenon, <1>2 DEF Preflight, config, cluster, platform, budgets
  <2>2. CASE Goto("seed") /\ ~PlanFails /\ ~PlanRefused(LivePlan, "Full")
    <3>1. pc' = "seed" /\ UNCHANGED <<mode, plan, rounds>>
      BY Zenon, <2>2 DEF Goto
    <3>2. automatic \/ ~admin \/ server = Target(releases)
      BY Zenon, <1>t, <2>2, LivePlanPlaces DEF PlanRefused
    <3>3. Foreseen'
      BY Zenon, <2>1, <3>1, <3>2 DEF Foreseen, Target
    <3>4. Tracked' /\ Standing' /\ Counted'
      BY Zenon, <1>i, <2>1, <3>1 DEF Tracked, Standing, Counted
    <3> QED
      BY Zenon, <3>3, <3>4 DEF AloneInv
  <2> QED
    BY Zenon, <1>e, <2>1, <2>2
<1>3. CASE Seed
  <2>1. /\ UNCHANGED <<releases, automatic, supports, server, admin, root, relapses, mode, plan, rounds>>
        /\ pc = "seed" /\ pc' = "plan" /\ rounds = 0
    BY Zenon, <1>i, <1>3 DEF Seed, Goto, config, cluster, budgets, Counted
  <2>2. Tracked' /\ Foreseen' /\ Standing' /\ Counted'
    BY Zenon, <1>f, <1>p, <2>1 DEF Standing, Counted
  <2> QED
    BY Zenon, <2>2 DEF AloneInv
<1>4. CASE PlanRound
  <2>1. /\ UNCHANGED <<releases, automatic, supports, server, admin, root, relapses>> /\ pc = "plan"
        /\ \/ \E o : End(o)
           \/ /\ ~PlanFails /\ plan' = LivePlan /\ rounds' = rounds + 1 /\ UNCHANGED mode
              /\ pc' = IF plan'.order = "PlatformFirst" THEN "handoff" ELSE "converge"
    BY Zenon, <1>4 DEF PlanRound, config, cluster, platform, budgets
  <2>2. CASE /\ ~PlanFails /\ plan' = LivePlan /\ rounds' = rounds + 1 /\ UNCHANGED mode
             /\ pc' = IF plan'.order = "PlatformFirst" THEN "handoff" ELSE "converge"
    <3>0. Tracked' /\ Foreseen' /\ AtPlan /\ Readied' = Readied
      BY Zenon, <1>f, <1>i, <2>1, <2>2 DEF Counted, Readied
    <3>1. CASE ~admin
      <4>1. plan'.order = "InstallTarget" /\ rounds' <= 1
        BY Zenon, <1>t, <2>2, <3>0, <3>1, LivePlanPlaces, MoreRounds DEF AtPlan
      <4>2. AtWork' /\ pc' = "converge"
        BY Zenon, <2>2, <4>1 DEF AtWork
      <4>3. Standing' /\ Counted'
        BY Zenon, <4>1, <4>2 DEF Standing, Counted
      <4> QED
        BY Zenon, <3>0, <4>3 DEF AloneInv
    <3>2. CASE admin /\ server = Target(releases)
      <4>1. plan'.order = "AlreadyCurrent" /\ plan'.current = server
        BY Zenon, <1>t, <2>2, <3>2, LivePlanPlaces
      <4>2. AtWork' /\ pc' = "converge"
        BY Zenon, <2>2, <4>1 DEF AtWork
      <4>3. Standing' /\ Counted'
        BY Zenon, <2>1, <4>1, <4>2 DEF Standing, Counted
      <4> QED
        BY Zenon, <3>0, <4>3 DEF AloneInv
    <3>3. CASE admin /\ server # Target(releases)
      <4>1. PICK i \in 1..(Len(releases) - 1) :
              /\ server = releases[i] /\ plan'.current = releases[i] /\ plan'.step = releases[i + 1]
              /\ plan'.order \in {"PlatformFirst", "KubernetesFirst"}
              /\ plan'.order = "PlatformFirst" => root # "ready" /\ server \in supports
        BY Zenon, <1>t, <2>2, <3>3, LivePlanPlaces
      <4>2. PICK j \in 1..Len(releases) : server = releases[j] /\ rounds + 1 <= j + Readied
        BY Zenon, <3>0, <3>3 DEF AtPlan
      <4>3. i \in 1..Len(releases)
        BY Zenon, <1>t, LadderSteps, Inside
      <4>4. j = i
        BY Zenon, <1>t, <4>1, <4>2, <4>3, OnePlace
      <4>5. rounds' <= i + Readied' /\ (plan'.order = "PlatformFirst" => rounds' <= i + relapses')
        BY Zenon, <2>1, <2>2, <3>0, <4>1, <4>2, <4>4 DEF Readied
      <4>6. AtWork' \/ plan'.order = "PlatformFirst"
        BY Zenon, <2>1, <4>1, <4>5 DEF AtWork
      <4>7. AtHandoff'
        BY Zenon, <2>1, <4>1, <4>5 DEF AtHandoff
      <4>8. Counted'
        BY Zenon, <2>2, <4>6, <4>7 DEF Counted
      <4>9. Standing'
        BY Zenon, <2>1, <2>2, <3>3, <4>1 DEF Standing
      <4> QED
        BY Zenon, <3>0, <4>8, <4>9 DEF AloneInv
    <3> QED
      BY Zenon, <3>1, <3>2, <3>3
  <2> QED
    BY Zenon, <1>e, <2>1, <2>2
<1>5. CASE Check \/ Gate \/ KubesprayDone
  <2>1. /\ UNCHANGED <<releases, automatic, supports, server, admin, root, relapses>>
        /\ pc \in {"converge", "gate", "kubespray"}
        /\ \/ \E o : End(o)
           \/ pc' \in {"kubespray", "gate", "finish", "verify"} /\ UNCHANGED <<mode, plan, rounds>>
    BY Zenon, <1>5 DEF Check, Gate, KubesprayDone, Goto, config, cluster, platform, budgets
  <2>2. CASE pc' \in {"kubespray", "gate", "finish", "verify"} /\ UNCHANGED <<mode, plan, rounds>>
    <3>1. Standing' /\ Counted'
      BY Zenon, <1>i, <1>w, <2>1, <2>2 DEF Standing, Counted
    <3> QED
      BY Zenon, <1>f, <2>1, <2>2, <3>1 DEF AloneInv
  <2> QED
    BY Zenon, <1>e, <2>1, <2>2
<1>6. ASSUME UNCHANGED <<releases, automatic, supports, root, relapses, pc, mode, plan, rounds>>,
             pc = "kubespray",
             \/ server' = plan.step /\ admin' = admin /\ server # plan.step
             \/ server' = server /\ admin' = admin
             \/ server' = server /\ admin' /\ ~admin /\ server = plan.step
      PROVE  AloneInv'
  <2>1. Shaped(plan) /\ Moving /\ AtWork
    BY Zenon, <1>i, <1>6 DEF ClimbInv, Planned, Guarded, Counted
  <2>2. plan.order \in {"InstallTarget", "KubernetesFirst", "AlreadyCurrent"}
    <3>1. plan \in Plans /\ plan.order \in Orders
      BY SMTT(30), <1>t DEF TypeOK, Plans
    <3> QED
      BY Zenon, <2>1, <3>1 DEF Orders, Shaped, AtWork
  <2>3. \E i \in 1..Len(releases) : plan.step = releases[i]
    <3>1. Len(releases) \in 1..Len(releases) /\ \A i \in 1..(Len(releases) - 1) : i + 1 \in 1..Len(releases)
      BY Zenon, <1>t, LadderSteps, Inside, MoreRounds
    <3> QED
      BY Zenon, <2>1, <2>2, <3>1 DEF Shaped, Target
  <2>4. Tracked'
    BY Zenon, <1>i, <1>6, <2>3 DEF Tracked
  <2>5. Foreseen'
    <3>1. Target(releases)' = Target(releases)
      BY Zenon, <1>6 DEF Target
    <3>2. CASE plan.order # "KubernetesFirst"
      <4>1. plan.step = Target(releases)
        BY Zenon, <2>1, <2>2, <3>2 DEF Shaped
      <4> QED
        BY Zenon, <1>i, <1>6, <3>1, <4>1 DEF Foreseen
    <3>3. CASE plan.order = "KubernetesFirst"
      <4>1. admin /\ server \in {plan.current, plan.step}
        BY Zenon, <2>1, <3>3 DEF Moving
      <4>2. plan.current # Target(releases)
        BY Zenon, <1>t, <2>1, <3>3, OnePlace DEF Shaped
      <4> QED
        BY Zenon, <1>i, <1>6, <3>1, <4>1, <4>2 DEF Foreseen
    <3> QED
      BY Zenon, <3>2, <3>3
  <2>6. Standing' /\ Counted'
    BY Zenon, <1>6, <1>w, <2>1 DEF Standing, Counted
  <2> QED
    BY Zenon, <2>4, <2>5, <2>6 DEF AloneInv
<1>7. CASE FetchConfig \/ \E n \in Node : ControlPlane(n) \/ NodeStep(n)
  BY Zenon, <1>6, <1>7 DEF ControlPlane, NodeStep, FetchConfig, config, platform, command, budgets
<1>8. CASE Verify
  <2>1. /\ UNCHANGED <<releases, automatic, supports, server, admin, root, relapses>> /\ pc = "verify"
        /\ \/ \E o : End(o)
           \/ /\ Healthy(plan.step) /\ UNCHANGED <<mode, plan, rounds>>
              /\ pc' = IF plan.order = "AlreadyCurrent" THEN "finish" ELSE "plan"
    BY Zenon, <1>8 DEF Verify, Goto, config, cluster, platform, budgets
  <2>2. CASE /\ Healthy(plan.step) /\ UNCHANGED <<mode, plan, rounds>>
             /\ pc' = IF plan.order = "AlreadyCurrent" THEN "finish" ELSE "plan"
    <3>0. Shaped(plan) /\ AtWork /\ admin /\ server = plan.step /\ Readied' = Readied /\ plan \in Plans
      BY Zenon, <1>i, <1>t, <2>1, <2>2 DEF ClimbInv, Planned, Counted, Healthy, Readied, TypeOK
    <3>1. CASE plan.order = "InstallTarget"
      <4>1. AtPlan'
        BY Zenon, <2>1, <2>2, <3>0, <3>1 DEF AtPlan, AtWork, Shaped, Target
      <4>2. Standing' /\ Counted'
        BY Zenon, <2>2, <3>1, <4>1 DEF Standing, Counted
      <4> QED
        BY Zenon, <1>f, <2>1, <2>2, <4>2 DEF AloneInv
    <3>2. CASE plan.order = "AlreadyCurrent"
      <4>1. Standing' /\ Counted'
        BY Zenon, <2>2, <3>2 DEF Standing, Counted
      <4> QED
        BY Zenon, <1>f, <2>1, <2>2, <4>1 DEF AloneInv
    <3>3. CASE plan.order = "KubernetesFirst"
      <4>1. PICK i \in 1..(Len(releases) - 1) : plan.step = releases[i + 1] /\ rounds <= i + Readied
        BY Zenon, <3>0, <3>3 DEF AtWork
      <4>2. i + 1 \in 1..Len(releases)
        BY Zenon, <1>t, LadderSteps, Inside
      <4>3. rounds + 1 <= (i + 1) + Readied
        BY Zenon, <1>r, <1>t, <4>1, LadderSteps, Inside
      <4>4. AtPlan'
        BY Zenon, <2>1, <2>2, <3>0, <4>1, <4>2, <4>3 DEF AtPlan
      <4>5. Standing' /\ Counted'
        BY Zenon, <2>2, <3>3, <4>4 DEF Standing, Counted
      <4> QED
        BY Zenon, <1>f, <2>1, <2>2, <4>5 DEF AloneInv
    <3> QED
      BY Zenon, <3>0, <3>1, <3>2, <3>3 DEF Plans, Orders, Shaped, AtWork
  <2> QED
    BY Zenon, <1>e, <2>1, <2>2
<1>9. CASE Finish
  <2>1. /\ UNCHANGED <<releases, automatic, supports, server, admin, root, relapses>> /\ pc = "finish"
        /\ \/ \E o : End(o)
           \/ pc' \in {"status", "handoff"} /\ UNCHANGED <<mode, plan, rounds>>
    BY Zenon, <1>9 DEF Finish, Goto, config, cluster, platform, budgets
  <2>2. plan.order = "AlreadyCurrent"
    BY Zenon, <2>1 DEF ClimbInv, Settled, Arrived
  <2>3. CASE pc' \in {"status", "handoff"} /\ UNCHANGED <<mode, plan, rounds>>
    <3>1. AtHandoff'
      BY Zenon, <2>2, <2>3 DEF AtHandoff
    <3>2. Standing' /\ Counted'
      BY Zenon, <2>2, <2>3, <3>1 DEF Standing, Counted
    <3> QED
      BY Zenon, <1>f, <2>1, <2>3, <3>2 DEF AloneInv
  <2> QED
    BY Zenon, <1>e, <2>1, <2>3
<1>10. CASE Handoff
  <2>1. /\ UNCHANGED <<releases, automatic, supports, server, admin, root, relapses>> /\ pc = "handoff"
        /\ \/ \E o : End(o)
           \/ pc' = "wait" /\ UNCHANGED <<mode, plan, rounds>>
    BY Zenon, <1>10 DEF Handoff, Goto, config, cluster, budgets
  <2>2. CASE pc' = "wait" /\ UNCHANGED <<mode, plan, rounds>>
    <3>1. AtHandoff'
      BY Zenon, <1>i, <2>1, <2>2 DEF Counted, AtHandoff
    <3>2. Standing' /\ Counted'
      BY Zenon, <1>i, <2>1, <2>2, <3>1 DEF Standing, Counted
    <3> QED
      BY Zenon, <1>f, <2>1, <2>2, <3>2 DEF AloneInv
  <2> QED
    BY Zenon, <1>e, <2>1, <2>2
<1>11. CASE Wait
  <2>1. /\ UNCHANGED <<releases, automatic, supports, server, admin, root, relapses, mode, plan, rounds>>
        /\ pc = "wait" /\ root = "ready"
        /\ pc' = IF plan.order = "PlatformFirst" THEN "plan" ELSE "status"
    BY Zenon, <1>11 DEF Wait, config, cluster, platform, budgets
  <2>2. plan.order = "PlatformFirst" => AtPlan'
    <3> SUFFICES ASSUME plan.order = "PlatformFirst"
                 PROVE  AtPlan'
      OBVIOUS
    <3>1. PICK i \in 1..(Len(releases) - 1) : plan.current = releases[i] /\ rounds <= i + relapses
      BY Zenon, <1>i, <2>1 DEF Counted, AtHandoff
    <3>2. i \in 1..Len(releases) /\ rounds + 1 <= i + (relapses + 1)
      BY Zenon, <1>t, <3>1, LadderSteps, Inside
    <3>3. admin /\ server = releases[i] /\ Readied' = relapses + 1
      BY Zenon, <1>i, <2>1, <3>1 DEF Standing, Readied
    <3> QED
      BY Zenon, <2>1, <3>2, <3>3 DEF AtPlan
  <2>3. Standing' /\ Counted'
    BY Zenon, <2>1, <2>2 DEF Standing, Counted
  <2> QED
    BY Zenon, <1>f, <2>1, <2>3 DEF AloneInv
<1>12. CASE Status \/ Interrupt \/ Fail
  BY Zenon, <1>e, <1>12 DEF Status, Interrupt, Fail, config, cluster
<1>13. CASE FluxSync \/ FluxReady \/ Relapse \/ UNCHANGED vars
  <2>1. /\ UNCHANGED <<config, cluster, command>> /\ relapses' \in {relapses, relapses + 1}
        /\ \/ relapses' = relapses /\ (root = "ready" => root' = "ready")
           \/ relapses' = relapses + 1 /\ root = "ready" /\ root' = "new"
    BY Zenon, <1>13 DEF FluxSync, FluxReady, Relapse, vars, budgets, platform
  <2>2. Readied <= Readied' /\ relapses <= relapses' /\ relapses' \in Nat
    BY Zenon, <1>t, <2>1, MoreRounds DEF Readied
  <2> QED
    BY Zenon, <1>d, <1>t, <2>1, <2>2, AloneFlux
<1> QED
  BY ZenonT(30), <1>n, <1>1, <1>2, <1>3, <1>4, <1>5, <1>7, <1>8, <1>9, <1>10, <1>11, <1>12, <1>13
  DEF Next, Command, Kubespray, Flux

LEMMA AloneInitially == Init => AloneInv
<1>1. Init => TypeOK
  BY Zenon, ClimbInitially DEF ClimbInv
<1>2. ASSUME Init
      PROVE  Tracked
  BY Zenon, <1>1, <1>2, LadderSteps DEF Init, Tracked
<1>3. ASSUME Init
      PROVE  Foreseen /\ Standing /\ Counted
  BY Zenon, <1>3 DEF Init, Foreseen, Standing, Counted
<1> QED
  BY Zenon, <1>2, <1>3 DEF AloneInv

(***************************************************************************)
(* A full apply that has begun to publish is not turned away, and the      *)
(* bound of convergeOrchestration cuts no convergence short unless the     *)
(* platform relapsed as often as the ladder has steps, and three times     *)
(* more, for every ladder and any number of nodes and interruptions.       *)
(***************************************************************************)
THEOREM NeverTurnedAway == Spec => NoLateRefusal
<1> DEFINE Late == outcome' # outcome /\ drifts = 0 =>
              /\ outcome' = "refused" /\ mode = "Full" => pc \in {"preflight", "status"}
              /\ outcome' = "exceeded" => relapses >= Len(releases) + 3
<1>1. AloneInv /\ ClimbInv /\ [Next]_vars => [Late]_vars
  <2> SUFFICES ASSUME AloneInv, ClimbInv, [Next]_vars, outcome' # outcome, drifts = 0
               PROVE  Late
    BY ZenonT(30)
  <2>t. TypeOK /\ rounds \in Nat /\ relapses \in Nat
    BY Zenon DEF ClimbInv, TypeOK
  <2>i. Tracked /\ Foreseen /\ Standing /\ Counted
    BY Zenon DEF AloneInv
  <2>1. ASSUME outcome' = "refused", mode = "Full", pc \notin {"preflight", "status"}
        PROVE  FALSE
    <3>1. \/ pc = "plan" /\ (PlanFails \/ (~PlanFails /\ PlanRefused(LivePlan, "Full")))
          \/ pc = "converge" /\ plan.order # "InstallTarget" /\ server # plan.current
          \/ pc = "handoff" /\ ~(admin /\ OnLadder(server, releases) /\ server \in supports)
      BY ZenonT(60), <2>1 DEF Next, Command, Kubespray, Flux, Start, Preflight, Seed, PlanRound, Check,
         Gate, ControlPlane, NodeStep, FetchConfig, KubesprayDone, Verify, Finish, Handoff, Wait,
         Status, FluxSync, FluxReady, Interrupt, Fail, Relapse, Drift, vars, command, End, Goto
    <3>a. admin => server # Absent /\ OnLadder(server, releases) /\ ~(server > Target(releases))
      <4>1. admin => server # Absent
        BY Zenon, VersionAssumption DEF ClimbInv, Reachable, Absent
      <4> QED
        BY Zenon, <2>i, <2>t, <4>1, LadderSteps, OnePlace DEF Tracked, OnLadder
    <3>2. CASE pc = "plan"
      <4>1. ~PlanFails
        BY Zenon, <3>a DEF PlanFails
      <4>2. automatic \/ ~admin \/ server = Target(releases)
        BY Zenon, <2>1, <2>i, <3>2 DEF Foreseen
      <4>3. ~PlanRefused(LivePlan, "Full")
        <5>1. ~admin \/ server = Target(releases) => LivePlan.order \in {"InstallTarget", "AlreadyCurrent"}
          BY Zenon, <2>t, <4>1, LivePlanPlaces
        <5> QED
          BY Zenon, <4>2, <5>1 DEF PlanRefused
      <4> QED
        BY Zenon, <3>1, <3>2, <4>1, <4>3
    <3>3. CASE pc = "converge"
      BY Zenon, <2>i, <3>1, <3>3 DEF Standing
    <3>4. CASE pc = "handoff"
      <4>1. CASE plan.order = "PlatformFirst"
        BY Zenon, <2>i, <3>1, <3>4, <3>a, <4>1 DEF Standing
      <4>2. CASE plan.order # "PlatformFirst"
        <5>1. Healthy(Target(releases))
          BY Zenon, <3>4, <4>2 DEF ClimbInv, Settled, Arrived
        <5> QED
          BY Zenon, <2>t, <3>1, <3>4, <3>a, <5>1 DEF Healthy, TypeOK
      <4> QED
        BY Zenon, <4>1, <4>2
    <3> QED
      BY Zenon, <3>1, <3>2, <3>3, <3>4
  <2>2. ASSUME outcome' = "exceeded"
        PROVE  relapses >= Len(releases) + 3
    <3>1. pc = "plan" /\ rounds = Limit
      BY ZenonT(60), <2>2 DEF Next, Command, Kubespray, Flux, Start, Preflight, Seed, PlanRound, Check,
         Gate, ControlPlane, NodeStep, FetchConfig, KubesprayDone, Verify, Finish, Handoff, Wait,
         Status, FluxSync, FluxReady, Interrupt, Fail, Relapse, Drift, vars, command, End, Goto
    <3>2. AtPlan
      BY Zenon, <2>i, <3>1 DEF Counted
    <3>3. Readied <= relapses + 1 /\ Readied \in Nat
      BY Zenon, <2>t, MoreRounds DEF Readied
    <3>4. Len(releases) \in Nat \ {0} /\ rounds = 2 * Len(releases) + 3
      BY Zenon, <2>t, <3>1, LadderSteps DEF Limit
    <3>5. rounds <= 1 \/ \E i \in 1..Len(releases) : rounds + 1 <= i + Readied
      <4>1. rounds = 0 => rounds <= 1
        BY SMTT(30)
      <4> QED
        BY Zenon, <3>2, <4>1 DEF AtPlan
    <3> QED
      BY Zenon, <2>t, <3>3, <3>4, <3>5, Exhausted
  <2> QED
    BY Zenon, <2>1, <2>2
<1> QED
  BY <1>1, AloneInitially, AlonePreserved, ClimbInvariance, PTL DEF Spec, NoLateRefusal

----------------------------------------------------------------------------
(* The pulls that build the ladder. *)

(* A set of numbers has a least member, and one of releases also a newest. *)
LEMMA LeastOne ==
  ASSUME NEW S \in SUBSET Nat, S # {}
  PROVE  \E m \in S : \A n \in S : m <= n
<1>1. PICK m \in S : \A n \in S : ~(<<n, m>> \in OpToRel(<, Nat))
  BY Zenon, WFMin, NatLessThanWellFounded
<1>2. ASSUME NEW n \in S
      PROVE  m <= n
  <2>1. n \in Nat /\ m \in Nat /\ <<n, m>> \notin {ss \in Nat \X Nat : ss[1] < ss[2]}
    BY Zenon, <1>1 DEF OpToRel
  <2> QED
    BY SMTT(30), <2>1
<1> QED
  BY Zenon, <1>2

LEMMA EndsExist ==
  ASSUME NEW S \in SUBSET Version, S # {}
  PROVE  Oldest(S) \in S /\ Newest(S) \in S
<1>0. S \subseteq Nat /\ \A v \in S : v \in Nat
  BY Zenon, VersionAssumption
<1>1. Oldest(S) \in S
  BY Zenon, <1>0, LeastOne DEF Oldest
<1>2. \E v \in S : \A w \in S : w <= v
  <2>1. PICK top \in Nat : \A w \in S : w <= top
    BY Zenon, NewestRelease, VersionAssumption
  <2>2. PICK R : R = {n \in Nat : \A w \in S : w <= n}
    BY Zenon
  <2>3. PICK m \in R : \A n \in R : m <= n
    BY Zenon, <2>1, <2>2, LeastOne
  <2>4. m \in Nat /\ \A w \in S : w <= m
    BY Zenon, <2>2, <2>3
  <2>5. m \in S
    <3> SUFFICES ASSUME m \notin S
                 PROVE  FALSE
      OBVIOUS
    <3>1. PICK v \in S : TRUE
      BY Zenon
    <3>2. m # 0 /\ m - 1 \in Nat
      <4>1. v \in Nat /\ v <= m /\ v # m
        BY Zenon, <1>0, <2>4
      <4> QED
        BY SMTT(30), <2>4, <4>1
    <3>3. \A w \in S : w <= m - 1
      <4> SUFFICES ASSUME NEW w \in S
                   PROVE  w <= m - 1
        OBVIOUS
      <4>1. w \in Nat /\ w <= m /\ w # m
        BY Zenon, <1>0, <2>4
      <4> QED
        BY SMTT(30), <2>4, <4>1
    <3>4. m <= m - 1
      BY Zenon, <2>2, <2>3, <3>2, <3>3
    <3> QED
      BY SMTT(30), <2>4, <3>4
  <2> QED
    BY Zenon, <2>4, <2>5
<1>3. Newest(S) \in S
  BY Zenon, <1>2 DEF Newest
<1> QED
  BY Zenon, <1>1, <1>3

(* A ladder that validateClusterReleases accepts. *)
Valid(l) == l \in Seq(Version) /\ WellShaped(l)

LEMMA ValidSteps ==
  ASSUME NEW l, Valid(l)
  PROVE  /\ Len(l) \in Nat \ {0} /\ DOMAIN l = 1..Len(l) /\ Target(l) \in Version
         /\ \A i \in 1..Len(l) : l[i] \in Version /\ l[i] \in Nat
         /\ \A i \in 1..(Len(l) - 1) : l[i] < l[i + 1] /\ Minor[l[i + 1]] - Minor[l[i]] \in {0, 1}
<1>1. l \in Seq(Version) /\ l # <<>>
  BY Zenon DEF Valid, WellShaped
<1>2. Len(l) \in Nat \ {0} /\ DOMAIN l = 1..Len(l)
  BY <1>1, EmptySeq, LenProperties
<1>3. \A i \in 1..Len(l) : l[i] \in Version
  BY <1>1, <1>2, ElementOfSeq
<1>4. Target(l) \in Version
  BY SMTT(30), <1>2, <1>3 DEF Target
<1> QED
  BY Zenon, <1>2, <1>3, <1>4, VersionAssumption DEF Valid, WellShaped

LEMMA Singleton ==
  ASSUME NEW v \in Version
  PROVE  Valid(<<v>>) /\ Target(<<v>>) = v
BY SMTT(30) DEF Valid, WellShaped, Target

(* Retirement keeps the shape, the target and the live step. *)
LEMMA RetireKeeps ==
  ASSUME NEW l, Valid(l), NEW s, ~RetireFails(l, s)
  PROVE  /\ Valid(Retire(l, s)) /\ Target(Retire(l, s)) = Target(l)
         /\ OnLadder(s, l) => OnLadder(s, Retire(l, s))
<1>0. /\ Len(l) \in Nat \ {0} /\ DOMAIN l = 1..Len(l)
      /\ \A i \in 1..Len(l) : l[i] \in Version /\ l[i] \in Nat
      /\ \A i \in 1..(Len(l) - 1) : l[i] < l[i + 1] /\ Minor[l[i + 1]] - Minor[l[i]] \in {0, 1}
  BY Zenon, ValidSteps
<1>1. CASE Len(l) <= 1 \/ s = Absent
  BY Zenon, <1>1 DEF Retire
<1>2. CASE ~(Len(l) <= 1 \/ s = Absent)
  <2>1. PICK k \in 1..Len(l) : l[k] = s /\ Retire(l, s) = SubSeq(l, k, Len(l))
    <3>1. OnLadder(s, l)
      <4>1. Len(l) > 1
        BY SMTT(30), <1>0, <1>2
      <4> QED
        BY Zenon, <1>2, <4>1 DEF RetireFails
    <3>2. ReleaseIndex(s, l) \in DOMAIN l /\ l[ReleaseIndex(s, l)] = s
      BY Zenon, <3>1 DEF ReleaseIndex, OnLadder
    <3> QED
      BY Zenon, <1>0, <1>2, <3>2 DEF Retire
  <2>2. PICK r : r = SubSeq(l, k, Len(l))
    BY Zenon
  <2>3. /\ r \in Seq(Version) /\ Len(r) = Len(l) - k + 1
        /\ \A i \in 1..(Len(l) - k + 1) : r[i] = l[k + i - 1]
    <3>1. l \in Seq(Version)
      BY Zenon DEF Valid
    <3> QED
      BY SMTT(30), <1>0, <2>2, <3>1
  <2>4. Len(r) \in Nat \ {0} /\ r # <<>> /\ r[1] = l[k] /\ r[Len(r)] = l[Len(l)] /\ DOMAIN r = 1..Len(r)
    BY SMTT(30), <1>0, <2>3
  <2>5. \A i \in 1..(Len(r) - 1) : r[i] < r[i + 1] /\ Minor[r[i + 1]] - Minor[r[i]] \in {0, 1}
    <3> SUFFICES ASSUME NEW i \in 1..(Len(r) - 1)
                 PROVE  r[i] < r[i + 1] /\ Minor[r[i + 1]] - Minor[r[i]] \in {0, 1}
      OBVIOUS
    <3>1. /\ k + i - 1 \in 1..(Len(l) - 1) /\ r[i] = l[k + i - 1] /\ r[i + 1] = l[(k + i - 1) + 1]
      BY SMTT(30), <1>0, <2>3
    <3> QED
      BY Zenon, <1>0, <3>1
  <2>6. Valid(r) /\ Target(r) = Target(l)
    BY Zenon, <2>3, <2>4, <2>5 DEF Valid, WellShaped, Target
  <2>7. OnLadder(s, r)
    <3>1. 1 \in 1..Len(r)
      BY SMTT(30), <2>4
    <3> QED
      BY Zenon, <2>1, <2>4, <3>1 DEF OnLadder
  <2> QED
    BY Zenon, <2>1, <2>2, <2>6, <2>7
<1> QED
  BY Zenon, <1>1, <1>2

(* What is appended: one release of every minor on the way. *)
Climb(l, C, s) == [i \in 1..(Minor[s] - Minor[Target(l)]) |-> Newest(OfMinor(C, Minor[Target(l)] + i))]

LEMMA ClimbSteps ==
  ASSUME NEW l, Valid(l), NEW C \in SUBSET Version, NEW s \in Version, ~BuildFails(l, C, s),
         Minor[s] # Minor[Target(l)]
  PROVE  /\ Minor[s] - Minor[Target(l)] \in Nat \ {0} /\ Minor[Target(l)] \in Nat
         /\ Climb(l, C, s) \in Seq(Version) /\ Len(Climb(l, C, s)) = Minor[s] - Minor[Target(l)]
         /\ \A i \in 1..(Minor[s] - Minor[Target(l)]) :
              Climb(l, C, s)[i] \in Version /\ Minor[Climb(l, C, s)[i]] = Minor[Target(l)] + i
<1>1. /\ Target(l) \in Version /\ Minor[Target(l)] \in Nat /\ Minor[s] \in Nat /\ s \in Nat /\ Target(l) \in Nat
  BY Zenon, ValidSteps, VersionAssumption
<1>2. PICK t, m, n : t = Target(l) /\ m = Minor[t] /\ n = Minor[s] - m
  BY Zenon
<1>3. /\ ~(s < t)
      /\ \A x \in (m + 1)..Minor[s] : OfMinor(C, x) # {}
  BY Zenon, <1>2 DEF BuildFails, Valid, WellShaped
<1>4. n \in Nat \ {0}
  <2>1. t <= s
    BY SMTT(30), <1>1, <1>2, <1>3
  <2>2. m <= Minor[s] /\ m # Minor[s]
    BY Zenon, <1>1, <1>2, <2>1, VersionAssumption
  <2> QED
    BY SMTT(30), <1>1, <1>2, <2>2
<1>5. ASSUME NEW i \in 1..n
      PROVE  Newest(OfMinor(C, m + i)) \in Version /\ Minor[Newest(OfMinor(C, m + i))] = m + i
  <2>1. m + i \in (m + 1)..Minor[s]
    BY SMTT(30), <1>1, <1>2, <1>4
  <2>2. OfMinor(C, m + i) # {} /\ OfMinor(C, m + i) \in SUBSET Version
    BY Zenon, <1>3, <2>1 DEF OfMinor
  <2>3. Newest(OfMinor(C, m + i)) \in OfMinor(C, m + i)
    BY Zenon, <2>2, EndsExist
  <2> QED
    BY Zenon, <2>3 DEF OfMinor
<1>6. PICK c : c = Climb(l, C, s)
  BY Zenon
<1>7. c = [i \in 1..n |-> Newest(OfMinor(C, m + i))]
  BY Zenon, <1>2, <1>6 DEF Climb
<1>8. \A i \in 1..n : c[i] \in Version /\ Minor[c[i]] = m + i
  BY Zenon, <1>5, <1>7
<1>9. c \in Seq(Version) /\ Len(c) = n
  <2>1. c \in [1..n -> Version]
    BY Zenon, <1>5, <1>7
  <2> QED
    BY SMTT(30), <1>4, <2>1
<1> QED
  BY Zenon, <1>1, <1>2, <1>4, <1>6, <1>8, <1>9

(* A later minor is a later release. *)
LEMMA MinorOrders ==
  ASSUME NEW v \in Version, NEW w \in Version, Minor[w] = Minor[v] + 1
  PROVE  v < w /\ Minor[w] - Minor[v] \in {0, 1}
<1>1. v \in Nat /\ w \in Nat /\ Minor[v] \in Nat /\ Minor[w] \in Nat /\ (w <= v => Minor[w] <= Minor[v])
  BY Zenon, VersionAssumption
<1> QED
  BY SMTT(30), <1>1

(* Sequences with their last element replaced, and their indices. *)
LEMMA LastReplaced ==
  ASSUME NEW S, NEW l \in Seq(S), Len(l) \in Nat \ {0}, NEW s \in S, NEW b, b = [l EXCEPT ![Len(l)] = s]
  PROVE  /\ b \in Seq(S) /\ Len(b) = Len(l) /\ DOMAIN b = 1..Len(l) /\ b # <<>>
         /\ b[Len(l)] = s /\ \A i \in 1..Len(l) : i # Len(l) => b[i] = l[i]
  BY SMTT(30)

LEMMA Interior ==
  ASSUME NEW n \in Nat, NEW i \in 1..(n - 1)
  PROVE  i \in 1..n /\ i # n /\ i + 1 \in 1..n
  BY SMTT(30)

LEMMA Around ==
  ASSUME NEW k \in Nat, NEW n \in Nat, NEW i \in 1..((k + n) - 1)
  PROVE  /\ i < k \/ i = k \/ i > k
         /\ i < k => i \in 1..(k - 1)
         /\ i > k => i - k \in 1..n /\ (i - k) + 1 \in 1..n /\ i = k + (i - k) /\ i + 1 = k + ((i - k) + 1)
  BY SMTT(30)

(* buildReleaseLadder extends a valid ladder to a valid one, and takes      *)
(* nothing off it but a target of which it has a newer patch.               *)
LEMMA BuildKeeps ==
  ASSUME NEW l, Valid(l), NEW C \in SUBSET Version, NEW s \in Version, ~BuildFails(l, C, s)
  PROVE  /\ Valid(BuildReleaseLadder(l, C, s)) /\ s >= Target(l)
         /\ \A v : 
              OnLadder(v, l) => OnLadder(v, BuildReleaseLadder(l, C, s)) \/ (v = Target(l) /\ Minor[s] = Minor[v])
<1>0. /\ Len(l) \in Nat \ {0} /\ DOMAIN l = 1..Len(l) /\ Target(l) \in Version /\ Target(l) \in Nat
      /\ \A i \in 1..Len(l) : l[i] \in Version /\ l[i] \in Nat
      /\ \A i \in 1..(Len(l) - 1) : l[i] < l[i + 1] /\ Minor[l[i + 1]] - Minor[l[i]] \in {0, 1}
      /\ l \in Seq(Version) /\ l # <<>> /\ Target(l) = l[Len(l)] /\ Len(l) \in 1..Len(l)
  <2>1. \A n \in Nat \ {0} : n \in 1..n
    BY SMTT(30)
  <2> QED
    BY Zenon, ValidSteps, VersionAssumption, <2>1 DEF Valid, WellShaped, Target
<1>1. s >= Target(l)
  <2>1. ~(s < Target(l)) /\ s \in Nat
    BY Zenon, <1>0, VersionAssumption DEF BuildFails
  <2> QED
    BY SMTT(30), <1>0, <2>1
<1>2. CASE s = Target(l)
  <2>1. BuildReleaseLadder(l, C, s) = l
    BY Zenon, <1>0, <1>2 DEF BuildReleaseLadder
  <2> QED
    BY Zenon, <1>1, <2>1
<1>3. CASE s # Target(l) /\ Minor[s] = Minor[Target(l)]
  <2>1. PICK b : b = BuildReleaseLadder(l, C, s)
    BY Zenon
  <2>2. b = [l EXCEPT ![Len(l)] = s]
    BY Zenon, <1>0, <1>3, <2>1 DEF BuildReleaseLadder
  <2>3. /\ b \in Seq(Version) /\ Len(b) = Len(l) /\ DOMAIN b = 1..Len(l)
        /\ b[Len(l)] = s /\ \A i \in 1..Len(l) : i # Len(l) => b[i] = l[i]
        /\ b # <<>>
    <3>1. l \in Seq(Version) /\ Len(l) \in Nat \ {0}
      BY Zenon, <1>0
    <3> QED
      BY SMTT(30), <2>2, <3>1, LastReplaced
  <2>4. \A i \in 1..(Len(b) - 1) : b[i] < b[i + 1] /\ Minor[b[i + 1]] - Minor[b[i]] \in {0, 1}
    <3> SUFFICES ASSUME NEW i \in 1..(Len(l) - 1)
                 PROVE  b[i] < b[i + 1] /\ Minor[b[i + 1]] - Minor[b[i]] \in {0, 1}
      BY Zenon, <2>3
    <3>1. i \in 1..Len(l) /\ i # Len(l) /\ i + 1 \in 1..Len(l)
      BY Zenon, <1>0, Interior
    <3>2. b[i] = l[i] /\ l[i] < l[i + 1] /\ Minor[l[i + 1]] - Minor[l[i]] \in {0, 1}
      BY Zenon, <1>0, <2>3, <3>1
    <3>3. CASE i + 1 = Len(l)
      <4>1. /\ b[i + 1] = s /\ l[i + 1] = Target(l) /\ Minor[b[i + 1]] = Minor[l[i + 1]]
        BY Zenon, <1>0, <1>3, <2>3, <3>3
      <4>2. l[i] \in Nat /\ l[i + 1] \in Nat /\ s \in Nat /\ s >= l[i + 1]
        BY Zenon, <1>0, <1>1, <3>1, <4>1, VersionAssumption
      <4>3. l[i] < s
        BY SMTT(30), <3>2, <4>2
      <4> QED
        BY Zenon, <3>2, <4>1, <4>3
    <3>4. CASE i + 1 # Len(l)
      BY Zenon, <2>3, <3>1, <3>2, <3>4
    <3> QED
      BY Zenon, <3>3, <3>4
  <2>5. Valid(b)
    <3> QED
      BY Zenon, <2>3, <2>4 DEF Valid, WellShaped
  <2>6. \A v : OnLadder(v, l) => OnLadder(v, b) \/ (v = Target(l) /\ Minor[s] = Minor[v])
    BY Zenon, <1>0, <1>3, <2>3 DEF OnLadder
  <2> QED
    BY Zenon, <1>1, <2>1, <2>5, <2>6
<1>4. CASE s # Target(l) /\ Minor[s] # Minor[Target(l)]
  <2>1. PICK b, c, n, m : /\ b = BuildReleaseLadder(l, C, s) /\ c = Climb(l, C, s)
                          /\ m = Minor[Target(l)] /\ n = Minor[s] - m
    BY Zenon
  <2>2. b = l \o c
    BY Zenon, <1>0, <1>4, <2>1 DEF BuildReleaseLadder, Climb
  <2>3. /\ n \in Nat \ {0} /\ m \in Nat /\ c \in Seq(Version) /\ Len(c) = n
        /\ \A i \in 1..n : c[i] \in Version /\ Minor[c[i]] = m + i
    BY Zenon, <1>4, <2>1, ClimbSteps
  <2>4. /\ b \in Seq(Version) /\ Len(b) = Len(l) + n /\ DOMAIN b = 1..(Len(l) + n)
        /\ \A i \in 1..Len(l) : b[i] = l[i]
        /\ \A i \in 1..n : b[Len(l) + i] = c[i]
        /\ b # <<>>
    <3>1. l \in Seq(Version) /\ c \in Seq(Version) /\ l # <<>>
      BY Zenon, <1>0, <2>3
    <3>2. /\ l \o c \in Seq(Version) /\ Len(l \o c) = Len(l) + Len(c) /\ DOMAIN (l \o c) = 1..(Len(l) + Len(c))
          /\ l \o c # <<>>
          /\ \A i \in 1..Len(l) : (l \o c)[i] = l[i]
          /\ \A i \in 1..Len(c) : (l \o c)[Len(l) + i] = c[i]
      BY SMTT(30), <3>1
    <3>3. Len(c) = n
      BY Zenon, <2>3
    <3> QED
      BY Zenon, <2>2, <3>2, <3>3
  <2>5. \A i \in 1..(Len(b) - 1) : b[i] < b[i + 1] /\ Minor[b[i + 1]] - Minor[b[i]] \in {0, 1}
    <3>0. Len(b) = Len(l) + n
      BY Zenon, <2>4
    <3> SUFFICES ASSUME NEW i \in 1..(Len(b) - 1)
                 PROVE  b[i] < b[i + 1] /\ Minor[b[i + 1]] - Minor[b[i]] \in {0, 1}
      OBVIOUS
    <3>00. i \in 1..((Len(l) + n) - 1)
      <4>1. \A x, y : x = y => 1..(x - 1) = 1..(y - 1)
        BY Zenon
      <4> QED
        BY Zenon, <3>0, <4>1
    <3>1. CASE i < Len(l)
      <4>1. i \in 1..(Len(l) - 1) /\ i \in 1..Len(l) /\ i + 1 \in 1..Len(l)
        BY Zenon, <1>0, <2>3, <3>1, <3>00, Around, Interior
      <4> QED
        BY Zenon, <1>0, <2>4, <4>1
    <3>2. CASE i = Len(l)
      <4>1. 1 \in 1..n
        BY SMTT(30), <2>3
      <4>2. b[i] = Target(l) /\ b[i + 1] = c[1] /\ c[1] \in Version /\ Minor[c[1]] = Minor[Target(l)] + 1
        BY Zenon, <1>0, <2>1, <2>3, <2>4, <3>2, <4>1
      <4> QED
        BY Zenon, <1>0, <4>2, MinorOrders
    <3>3. CASE i > Len(l)
      <4>1. PICK j : j = i - Len(l)
        BY Zenon
      <4>2. j \in 1..n /\ j + 1 \in 1..n /\ i = Len(l) + j /\ i + 1 = Len(l) + (j + 1) /\ m + (j + 1) = (m + j) + 1
        <5>1. j \in 1..n /\ j + 1 \in 1..n /\ i = Len(l) + j /\ i + 1 = Len(l) + (j + 1)
          BY Zenon, <1>0, <2>3, <3>3, <3>00, <4>1, Around
        <5>2. m + (j + 1) = (m + j) + 1
          BY SMTT(30), <2>3, <5>1
        <5> QED
          BY Zenon, <5>1, <5>2
      <4>3. /\ b[i] = c[j] /\ b[i + 1] = c[j + 1] /\ c[j] \in Version /\ c[j + 1] \in Version
            /\ Minor[c[j + 1]] = Minor[c[j]] + 1
        BY Zenon, <2>3, <2>4, <4>2
      <4> QED
        BY Zenon, <4>3, MinorOrders
    <3>4. i < Len(l) \/ i = Len(l) \/ i > Len(l)
      BY Zenon, <1>0, <2>3, <3>00, Around
    <3> QED
      BY Zenon, <3>1, <3>2, <3>3, <3>4
  <2>6. Valid(b)
    <3> QED
      BY Zenon, <2>4, <2>5 DEF Valid, WellShaped
  <2>7. \A v : OnLadder(v, l) => OnLadder(v, b)
    <3>1. \A i \in 1..Len(l) : i \in 1..(Len(l) + n)
      BY SMTT(30), <1>0, <2>3
    <3> QED
      BY Zenon, <1>0, <2>4, <3>1 DEF OnLadder
  <2> QED
    BY Zenon, <1>1, <2>1, <2>6, <2>7
<1> QED
  BY Zenon, <1>2, <1>3, <1>4

VARIABLES steps, kubernetes, live, verdict

Pulls == INSTANCE ReleaseLadder WITH releases <- steps

(* A pull that found C, of which it could use U, chose s and built b from k. *)
Built(C, U, s, k, b, seen, pinned) ==
  /\ U # {} /\ s = (IF pinned THEN Oldest(U) ELSE Newest(U))
  /\ k = (IF pinned THEN <<>> ELSE Retire(steps, seen))
  /\ \A v \in U : ~BuildFails(k, C, v)
  /\ b = BuildReleaseLadder(k, C, s)
  /\ \/ ~WellShaped(b) /\ verdict' = "misshapen" /\ steps' = steps
     \/ WellShaped(b) /\ Target(b) # s /\ verdict' = "mismatch" /\ steps' = steps
     \/ /\ WellShaped(b) /\ Target(b) = s /\ steps' = b
        /\ verdict' = (IF pinned THEN "reset" ELSE "committed")

(* What a pull has found when it commits, or why it has not. *)
LEMMA PullOutcome ==
  ASSUME NEW found \in SUBSET Version, NEW pinned \in BOOLEAN, NEW admissible \in SUBSET found, NEW seen,
         Pulls!Pull(found, admissible, seen, pinned)
  PROVE  \/ verdict' = "failed" /\ steps' = steps
         \/ /\ ~RetireFails(steps, seen)
            /\ \E C \in SUBSET Version : \E U \in SUBSET C : \E s, k, b : Built(C, U, s, k, b, seen, pinned)
<1>1. CASE Pulls!RetireFails(steps, seen) /\ verdict' = "failed"
  BY Zenon, <1>1 DEF Pulls!Pull
<1>2. CASE ~Pulls!RetireFails(steps, seen)
  <2>0. ~RetireFails(steps, seen)
    BY Zenon, <1>2 DEF Pulls!RetireFails, RetireFails, Pulls!OnLadder, OnLadder, Pulls!Absent, Absent
  <2>1. PICK r, f, C, k, U, s, b :
          /\ r = Pulls!Retire(steps, seen)
          /\ f = (IF pinned THEN Head(r) ELSE Pulls!Target(r))
          /\ C = Pulls!Candidates(found, f)
          /\ k = (IF pinned THEN <<>> ELSE r)
          /\ U = Pulls!Usable(k, C, admissible)
          /\ s = Pulls!Selected(U, pinned)
          /\ b = Pulls!BuildReleaseLadder(k, C, s)
    BY Zenon
  <2>2. /\ IF U = {} THEN verdict' = "failed"
           ELSE /\ verdict' = Pulls!Validation(b, s, pinned)
                /\ verdict' \in {"committed", "reset"} => steps' = b /\ kubernetes' = s
        /\ verdict' \notin {"committed", "reset"} => steps' = steps
    BY Zenon, <1>2, <2>1 DEF Pulls!Pull
  <2>3. CASE U = {}
    BY Zenon, <2>2, <2>3
  <2>4. CASE U # {}
    <3>1. C \in SUBSET Version /\ U \in SUBSET C
      BY Zenon, <2>1 DEF Pulls!Candidates, Pulls!Usable
    <3>2. \A x, y, z : /\ Pulls!BuildFails(x, y, z) <=> BuildFails(x, y, z)
                       /\ Pulls!BuildReleaseLadder(x, y, z) = BuildReleaseLadder(x, y, z)
      BY Zenon DEF Pulls!BuildFails, BuildFails, Pulls!BuildReleaseLadder, BuildReleaseLadder, Pulls!Target, Target,
                   Pulls!OfMinor, OfMinor, Pulls!Newest, Newest
    <3>3. /\ Pulls!Retire(steps, seen) = Retire(steps, seen) /\ \A l : Pulls!Target(l) = Target(l)
          /\ \A l : Pulls!WellShaped(l) <=> WellShaped(l)
          /\ \A S : Pulls!Oldest(S) = Oldest(S) /\ Pulls!Newest(S) = Newest(S)
      BY Zenon DEF Pulls!Retire, Retire, Pulls!Target, Target, Pulls!WellShaped, WellShaped, Pulls!Oldest, Oldest,
                   Pulls!Newest, Newest, Pulls!ReleaseIndex, ReleaseIndex, Pulls!OnLadder, OnLadder, Pulls!Absent, Absent
    <3>4. s = (IF pinned THEN Oldest(U) ELSE Newest(U))
      BY Zenon, <2>1, <3>3 DEF Pulls!Selected
    <3>5. k = (IF pinned THEN <<>> ELSE Retire(steps, seen)) /\ b = BuildReleaseLadder(k, C, s)
      BY Zenon, <2>1, <3>2, <3>3
    <3>6. \A v \in U : ~BuildFails(k, C, v)
      BY Zenon, <2>1, <3>2 DEF Pulls!Usable
    <3>7. /\ verdict' = Pulls!Validation(b, s, pinned)
          /\ verdict' \in {"committed", "reset"} => steps' = b
          /\ verdict' \notin {"committed", "reset"} => steps' = steps
      BY Zenon, <2>2, <2>4
    <3>8. \/ ~WellShaped(b) /\ verdict' = "misshapen"
          \/ WellShaped(b) /\ Target(b) # s /\ verdict' = "mismatch"
          \/ WellShaped(b) /\ Target(b) = s /\ verdict' = (IF pinned THEN "reset" ELSE "committed")
      BY Zenon, <3>3, <3>7 DEF Pulls!Validation
    <3>9. \/ ~WellShaped(b) /\ verdict' = "misshapen" /\ steps' = steps
          \/ WellShaped(b) /\ Target(b) # s /\ verdict' = "mismatch" /\ steps' = steps
          \/ /\ WellShaped(b) /\ Target(b) = s /\ steps' = b
             /\ verdict' = (IF pinned THEN "reset" ELSE "committed")
      <4>1. "misshapen" \notin {"committed", "reset"} /\ "mismatch" \notin {"committed", "reset"}
        BY SMTT(30)
      <4>2. (IF pinned THEN "reset" ELSE "committed") \in {"committed", "reset"}
        BY Zenon
      <4> QED
        BY Zenon, <3>7, <3>8, <4>1, <4>2
    <3>10. Built(C, U, s, k, b, seen, pinned)
      BY Zenon, <2>4, <3>4, <3>5, <3>6, <3>9 DEF Built
    <3> QED
      BY Zenon, <2>0, <3>1, <3>10
  <2> QED
    BY Zenon, <2>3, <2>4
<1> QED
  BY Zenon, <1>1, <1>2 DEF Pulls!Pull

(* What one step does to the ladder. *)
LadderKept ==
  /\ verdict' # "misshapen" /\ Valid(steps')
  /\ verdict' # "reset" =>
       /\ Target(steps') >= Target(steps)
       /\ OnLadder(live, steps) /\ live' = live /\ ~OnLadder(live, steps')
          => live = Target(steps) /\ Minor[Target(steps')] = Minor[live]

LEMMA Unmoved ==
  ASSUME Valid(steps), steps' = steps, verdict' # "misshapen"
  PROVE  LadderKept
<1>1. Target(steps) \in Nat
  BY Zenon, ValidSteps, VersionAssumption
<1>2. Target(steps) >= Target(steps)
  BY SMTT(30), <1>1
<1>3. Target(steps') = Target(steps) /\ (OnLadder(live, steps') <=> OnLadder(live, steps)) /\ Valid(steps')
  BY Zenon
<1> QED
  BY Zenon, <1>2, <1>3 DEF LadderKept

LEMMA PullKeeps ==
  ASSUME NEW found \in SUBSET Version, NEW pinned \in BOOLEAN, NEW admissible \in SUBSET found,
         NEW seen \in {Absent, live}, Valid(steps), Pulls!Pull(found, admissible, seen, pinned)
  PROVE  LadderKept
<1>0. "failed" # "misshapen" /\ "mismatch" # "misshapen" /\ "committed" # "misshapen" /\ "reset" # "misshapen"
  OBVIOUS
<1>1. CASE verdict' = "failed" /\ steps' = steps
  BY Zenon, <1>0, <1>1, Unmoved
<1>2. CASE ~(verdict' = "failed" /\ steps' = steps)
  <2>1. ~RetireFails(steps, seen)
    BY Zenon, <1>2, PullOutcome
  <2>2. PICK C \in SUBSET Version : \E U \in SUBSET C : \E s, k, b : Built(C, U, s, k, b, seen, pinned)
    BY Zenon, <1>2, PullOutcome
  <2>3. PICK U \in SUBSET C : \E s, k, b : Built(C, U, s, k, b, seen, pinned)
    BY Zenon, <2>2
  <2>4. PICK s, k, b : Built(C, U, s, k, b, seen, pinned)
    BY Zenon, <2>3
  <2>5. /\ U # {} /\ s = (IF pinned THEN Oldest(U) ELSE Newest(U))
        /\ k = (IF pinned THEN <<>> ELSE Retire(steps, seen))
        /\ \A v \in U : ~BuildFails(k, C, v)
        /\ b = BuildReleaseLadder(k, C, s)
    BY Zenon, <2>4 DEF Built
  <2>6. s \in U /\ s \in Version /\ ~BuildFails(k, C, s)
    BY Zenon, <2>5, EndsExist
  <2>7. CASE pinned
    <3>1. k = <<>> /\ b = <<s>>
      BY Zenon, <2>5, <2>7 DEF BuildReleaseLadder
    <3>2. Valid(b) /\ Target(b) = s /\ WellShaped(b)
      BY Zenon, <2>6, <3>1, Singleton DEF Valid
    <3>3. verdict' = "reset" /\ steps' = b
      BY Zenon, <2>4, <2>7, <3>2 DEF Built
    <3> QED
      BY Zenon, <1>0, <3>2, <3>3 DEF LadderKept
  <2>8. CASE ~pinned
    <3>1. k = Retire(steps, seen)
      BY Zenon, <2>5, <2>8
    <3>2. Valid(k) /\ Target(k) = Target(steps) /\ (OnLadder(seen, steps) => OnLadder(seen, k))
      BY Zenon, <2>1, <3>1, RetireKeeps
    <3>3. /\ Valid(b) /\ s >= Target(k)
          /\ \A v : OnLadder(v, k) => OnLadder(v, b) \/ (v = Target(k) /\ Minor[s] = Minor[v])
      BY Zenon, <2>5, <2>6, <3>2, BuildKeeps
    <3>4. OnLadder(live, steps) => OnLadder(live, k)
      <4>1. CASE seen = live
        BY Zenon, <3>2, <4>1
      <4>2. CASE seen = Absent
        BY Zenon, <3>1, <4>2 DEF Retire
      <4> QED
        BY Zenon, <4>1, <4>2
    <3>5. CASE Target(b) # s
      <4>1. verdict' = "mismatch" /\ steps' = steps
        BY Zenon, <2>4, <3>3, <3>5 DEF Built, Valid
      <4> QED
        BY Zenon, <1>0, <4>1, Unmoved
    <3>6. CASE Target(b) = s
      <4>1. verdict' = "committed" /\ steps' = b
        BY Zenon, <2>4, <2>8, <3>3, <3>6 DEF Built, Valid
      <4>2. verdict' # "misshapen" /\ Valid(steps') /\ Target(steps') >= Target(steps) /\ Target(steps') = s
        BY Zenon, <1>0, <3>2, <3>3, <3>6, <4>1
      <4>3. OnLadder(live, steps) /\ ~OnLadder(live, steps')
            => live = Target(steps) /\ Minor[Target(steps')] = Minor[live]
        <5> SUFFICES ASSUME OnLadder(live, steps), ~OnLadder(live, steps')
                     PROVE  live = Target(steps) /\ Minor[Target(steps')] = Minor[live]
          BY Zenon
        <5>1. OnLadder(live, k) /\ ~OnLadder(live, b)
          BY Zenon, <3>4, <4>1
        <5>2. live = Target(k) /\ Minor[s] = Minor[live]
          BY Zenon, <3>3, <5>1
        <5> QED
          BY Zenon, <3>2, <4>2, <5>2
      <4> QED
        BY Zenon, <4>2, <4>3 DEF LadderKept
    <3> QED
      BY Zenon, <3>5, <3>6
  <2> QED
    BY Zenon, <2>7, <2>8
<1> QED
  BY Zenon, <1>1, <1>2

(* The ladder a pull starts from is always a valid one. *)
LadderInv == Valid(steps) /\ verdict # "misshapen"

(***************************************************************************)
(* Whatever releases there are and whatever a pull finds, `atum pull       *)
(* updates' commits only ladders that validateClusterReleases accepts,     *)
(* never moves the target backwards unless it is pinned, and leaves the    *)
(* step the live cluster stands on unless it refreshes that very release.  *)
(***************************************************************************)
THEOREM LadderAlwaysKept == Pulls!Spec => Pulls!PullsKeepTheLadder
<1>1. Pulls!Init => LadderInv
  <2> SUFFICES ASSUME Pulls!Init
               PROVE  LadderInv
    OBVIOUS
  <2>1. PICK v \in Version : steps = <<v>>
    BY Zenon DEF Pulls!Init
  <2>2. "none" # "misshapen"
    OBVIOUS
  <2> QED
    BY Zenon, <2>1, <2>2, Singleton DEF Pulls!Init, LadderInv
<1>2. LadderInv /\ [Pulls!Next]_(Pulls!vars) => LadderInv' /\ LadderKept
  <2> SUFFICES ASSUME LadderInv, [Pulls!Next]_(Pulls!vars)
               PROVE  LadderInv' /\ LadderKept
    OBVIOUS
  <2>1. Valid(steps) /\ verdict # "misshapen"
    BY Zenon DEF LadderInv
  <2>2. steps' = steps /\ verdict' = verdict => LadderKept
    BY Zenon, <2>1, Unmoved
  <2>3. Pulls!Converge => LadderKept
    BY Zenon, <2>2 DEF Pulls!Converge
  <2>4. ASSUME NEW found \in SUBSET Version, NEW pinned \in BOOLEAN, NEW admissible \in SUBSET found,
               NEW seen \in {Pulls!Absent, live}, Pulls!Pull(found, admissible, seen, pinned)
        PROVE  LadderKept
    <3>1. seen \in {Absent, live}
      BY Zenon DEF Pulls!Absent, Absent
    <3> QED
      BY Zenon, <2>1, <2>4, <3>1, PullKeeps
  <2>5. LadderKept
    BY Zenon, <2>2, <2>3, <2>4 DEF Pulls!Next, Pulls!vars
  <2>6. LadderInv'
    BY Zenon, <2>5 DEF LadderKept, LadderInv
  <2> QED
    BY Zenon, <2>5, <2>6
<1>3. LadderKept => /\ verdict' # "misshapen" /\ Pulls!WellShaped(steps')
                    /\ verdict' # "reset" =>
                         /\ Pulls!Target(steps') >= Pulls!Target(steps)
                         /\ Pulls!OnLadder(live, steps) /\ live' = live /\ ~Pulls!OnLadder(live, steps')
                            => live = Pulls!Target(steps) /\ Minor[Pulls!Target(steps')] = Minor[live]
  BY Zenon DEF LadderKept, Valid, Pulls!WellShaped, WellShaped, Pulls!Target, Target, Pulls!OnLadder, OnLadder
<1> QED
  BY <1>1, <1>2, <1>3, PTL DEF Pulls!Spec, Pulls!PullsKeepTheLadder
==============================================================================
