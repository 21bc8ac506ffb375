----------------------------- MODULE Lifecycle ------------------------------
(***************************************************************************)
(* `atum apply' and `atum destroy' against the machines, the cluster and   *)
(* the two local files that stand for them: inventory/hosts.yaml and       *)
(* inventory/artifacts/admin.conf.  An apply holds the project lock; a     *)
(* destroy takes none, so the two interleave and only Terraform's state    *)
(* lock is between them.  Each set of node machines has a generation; a    *)
(* cluster, an inventory and a kubeconfig belong to one.                   *)
(***************************************************************************)
EXTENDS Naturals

CONSTANTS
    MaxTears,        \* destroys that nothing called for, applies beside a destroy
    MaxTroubles      \* failures and interruptions

ASSUME LifeBounds == MaxTears \in Nat /\ MaxTroubles \in Nat

VARIABLES
    machines, bastion,   \* what exists: a generation of nodes (0: none), the seed bastion
    outputs,             \* the generation Terraform's outputs describe
    stateLock,           \* "free", "apply" or "destroy"
    api,                 \* the generation on which a Kubernetes API answers
    hosts, kubeconf,     \* the local files
    fetched,             \* admin.conf between its node and the workstation
    access,              \* local workstation access is installed
    applyAt, destroyAt,  \* steps of the two commands
    keep,                \* destroy --keep-bastion
    input,               \* the inventory the running convergence began with
    torn,                \* a destroy ran since the apply was started
    revived,             \* an apply ran since the destroy was started
    tears, troubles

machineVars == <<machines, bastion, outputs, api>>
localVars == <<hosts, kubeconf, fetched, access>>
applyVars == <<applyAt, input>>
destroyVars == <<destroyAt, keep>>
lifeVars == <<machineVars, localVars, applyVars, destroyVars, stateLock, torn, revived, tears, troubles>>

LifeInit ==
    /\ machines = 0 /\ bastion = FALSE /\ outputs = 0 /\ stateLock = "free" /\ api = 0
    /\ hosts = 0 /\ kubeconf = 0 /\ fetched = 0 /\ access = FALSE
    /\ applyAt = "idle" /\ destroyAt = "idle" /\ keep = FALSE /\ input = 0
    /\ torn = FALSE /\ revived = FALSE /\ tears = 0 /\ troubles = 0

Resting == {"idle", "done", "failed", "unavailable"}
Applies(from, to) == applyAt = from /\ applyAt' = to
Destroys(from, to) == destroyAt = from /\ destroyAt' = to
Trouble == troubles < MaxTroubles /\ troubles' = troubles + 1
Untroubled == UNCHANGED <<tears, troubles, torn, revived>>

\* A generation nothing refers to.
Fresh == CHOOSE g \in 1 .. 6 : g \notin {outputs, hosts, kubeconf, fetched, input}

(***************************************************************************)
(* Apply                                                                   *)
(***************************************************************************)
\* Beside a running destroy, too.
startApply ==
    /\ IF destroyAt \in Resting THEN UNCHANGED tears ELSE tears < MaxTears /\ tears' = tears + 1
    /\ applyAt \in Resting /\ applyAt' = "preflight" /\ input' = 0
    /\ torn' = (destroyAt \notin Resting) /\ revived' = TRUE
    /\ UNCHANGED <<machineVars, localVars, destroyVars, stateLock, troubles>>

\* Plan: without a kubeconfig the cluster is absent; with one, its API must answer.
NoConfig == kubeconf = 0
Answers == kubeconf # 0 /\ api = kubeconf

\* The orchestration preflight comes before Terraform.
preflightPlan ==
    /\ IF NoConfig \/ Answers THEN Applies("preflight", "terraform") ELSE Applies("preflight", "unavailable")
    /\ Untroubled /\ UNCHANGED <<machineVars, localVars, destroyVars, stateLock, input>>

\* Terraform does not wait for its state lock.
terraformApply ==
    /\ IF stateLock = "free" THEN Applies("terraform", "applying") /\ stateLock' = "apply"
       ELSE Applies("terraform", "failed") /\ UNCHANGED stateLock
    /\ Untroubled /\ UNCHANGED <<machineVars, localVars, destroyVars, input>>

\* Missing machines are made, existing ones kept.
terraformApplied ==
    /\ Applies("applying", "seed") /\ stateLock' = "free"
    /\ machines' = IF machines = 0 THEN Fresh ELSE machines
    /\ outputs' = machines' /\ bastion' = TRUE
    /\ Untroubled /\ UNCHANGED <<api, localVars, destroyVars, input>>

\* Seed publishes through the bastion.
seedBastion ==
    /\ IF bastion THEN Applies("seed", "inventory") ELSE Applies("seed", "failed")
    /\ Untroubled /\ UNCHANGED <<machineVars, localVars, destroyVars, stateLock, input>>

\* Generate reads Terraform's outputs, which do not need the state lock.
Generate ==
    /\ IF outputs = 0 THEN Applies("inventory", "failed") /\ UNCHANGED <<hosts, input>>
       ELSE Applies("inventory", "converge") /\ hosts' = outputs /\ input' = outputs
    /\ Untroubled /\ UNCHANGED <<machineVars, kubeconf, fetched, access, destroyVars, stateLock>>

\* convergeOrchestration plans again.
planConvergence ==
    /\ Applies("converge", IF NoConfig THEN "install" ELSE IF Answers THEN "verify" ELSE "unavailable")
    /\ Untroubled /\ UNCHANGED <<machineVars, localVars, destroyVars, stateLock, input>>

\* waitForInstallConnections and cluster.yml reach the machines of the inventory;
\* the API answers, and admin.conf is read from the first node ...
installCluster ==
    /\ IF hosts # 0 /\ hosts = machines
         THEN Applies("install", "fetch") /\ api' = machines /\ fetched' = machines
         ELSE Applies("install", "failed") /\ UNCHANGED <<api, fetched>>
    /\ Untroubled
    /\ UNCHANGED <<machines, bastion, outputs, hosts, kubeconf, access, destroyVars, stateLock, input>>

\* ... and written to the workstation.
writeKubeconfig ==
    /\ Applies("fetch", "verify") /\ kubeconf' = fetched /\ fetched' = 0
    /\ Untroubled /\ UNCHANGED <<machineVars, hosts, access, destroyVars, stateLock, input>>

\* waitHealthy, requireOrchestrationInput and discoverState.
verifyCluster ==
    /\ IF Answers /\ hosts = input THEN Applies("verify", "integrate") ELSE Applies("verify", "failed")
    /\ Untroubled /\ UNCHANGED <<machineVars, localVars, destroyVars, stateLock, input>>

\* The platform is ready and its status observed through the kubeconfig.
integrate ==
    /\ IF Answers THEN Applies("integrate", "done") /\ access' = TRUE
       ELSE Applies("integrate", "failed") /\ UNCHANGED access
    /\ Untroubled /\ UNCHANGED <<machineVars, hosts, kubeconf, fetched, destroyVars, stateLock, input>>

\* A step fails or the command is interrupted; Terraform may have made the machines.
applyFails ==
    /\ applyAt \notin Resting /\ applyAt' = "failed" /\ Trouble
    /\ stateLock' = (IF stateLock = "apply" THEN "free" ELSE stateLock) /\ fetched' = 0
    /\ machines' \in {machines} \cup (IF applyAt = "applying" /\ machines = 0 THEN {Fresh} ELSE {})
    /\ UNCHANGED <<bastion, outputs, api, hosts, kubeconf, access, destroyVars, input, torn, revived, tears>>

(***************************************************************************)
(* Destroy                                                                 *)
(***************************************************************************)
\* Confirmed or forced.  The owner destroys for reasons of their own, or because an
\* apply found a kubeconfig whose cluster does not answer.
startDestroy(keepBastion) ==
    /\ destroyAt \in Resting /\ destroyAt' = "access" /\ keep' = keepBastion
    /\ \/ applyAt = "unavailable" /\ applyAt' = "idle" /\ UNCHANGED tears
       \/ applyAt # "unavailable" /\ tears < MaxTears /\ tears' = tears + 1 /\ UNCHANGED applyAt
    /\ torn' = TRUE /\ revived' = (applyAt \notin Resting)
    /\ UNCHANGED <<machineVars, localVars, input, stateLock, troubles>>

\* uninstallActiveLocalAccess
uninstallAccess ==
    /\ Destroys("access", "terraform") /\ access' = FALSE
    /\ Untroubled /\ UNCHANGED <<machineVars, hosts, kubeconf, fetched, applyVars, keep, stateLock>>

terraformDestroy ==
    /\ IF stateLock = "free" THEN Destroys("terraform", "destroying") /\ stateLock' = "destroy"
       ELSE Destroys("terraform", "failed") /\ UNCHANGED stateLock
    /\ Untroubled /\ UNCHANGED <<machineVars, localVars, applyVars, keep>>

\* The targets of --keep-bastion are the nodes and the load balancer; outputs that
\* only depend on the rest may stay.
terraformDestroyed ==
    /\ Destroys("destroying", "clear") /\ stateLock' = "free"
    /\ machines' = 0 /\ api' = 0 /\ bastion' = (keep /\ bastion)
    /\ outputs' \in (IF keep THEN {outputs, 0} ELSE {0})
    /\ Untroubled /\ UNCHANGED <<localVars, applyVars, keep>>

\* ClearLocalState: hosts.yaml, then the artifacts, outside every lock.
clearHosts ==
    /\ Destroys("clear", "artifacts") /\ hosts' = 0
    /\ Untroubled /\ UNCHANGED <<machineVars, kubeconf, fetched, access, applyVars, keep, stateLock>>

clearArtifacts ==
    /\ Destroys("artifacts", "done") /\ kubeconf' = 0
    /\ Untroubled /\ UNCHANGED <<machineVars, hosts, fetched, access, applyVars, keep, stateLock>>

\* A step fails or the command is interrupted; Terraform may have removed machines.
destroyFails ==
    /\ destroyAt \notin Resting /\ destroyAt' = "failed" /\ Trouble
    /\ stateLock' = (IF stateLock = "destroy" THEN "free" ELSE stateLock)
    /\ \/ UNCHANGED <<machines, api>>
       \/ destroyAt = "destroying" /\ machines' = 0 /\ api' = 0
    /\ UNCHANGED <<bastion, outputs, localVars, applyVars, keep, torn, revived, tears>>

ApplyStep ==
    \/ startApply \/ preflightPlan \/ terraformApply \/ terraformApplied \/ seedBastion \/ Generate
    \/ planConvergence \/ installCluster \/ writeKubeconfig \/ verifyCluster \/ integrate
DestroyStep ==
    \/ uninstallAccess \/ terraformDestroy \/ terraformDestroyed \/ clearHosts \/ clearArtifacts
LifeNext ==
    ApplyStep \/ DestroyStep \/ applyFails \/ destroyFails \/ \E k \in BOOLEAN : startDestroy(k)

\* Commands go on, and the owner follows a refused apply by a destroy and an apply.
recover == destroyAt \in Resting /\ applyAt = "unavailable" /\ \E k \in BOOLEAN : startDestroy(k)
LifeFairness == WF_lifeVars(ApplyStep) /\ WF_lifeVars(DestroyStep) /\ SF_lifeVars(recover)
LifeSpec == LifeInit /\ [][LifeNext]_lifeVars /\ LifeFairness

(***************************************************************************)
(* Properties                                                              *)
(***************************************************************************)
\* The state is well formed; an API answers only on machines that exist, and only
\* the command that runs Terraform has its lock.
LifeTypeOK ==
    /\ {machines, outputs, hosts, kubeconf, fetched, input} \subseteq 0 .. 6 /\ api \in {0, machines}
    /\ stateLock = "apply" <=> applyAt = "applying"
    /\ stateLock = "destroy" <=> destroyAt = "destroying"

\* An apply that reports success, with no destroy since it was started, leaves one
\* cluster: the machines that exist, the inventory, the kubeconfig and the API that
\* answers are of the same generation, whatever earlier commands left behind.
DoneIsOneCluster ==
    applyAt = "done" /\ ~ torn
        => machines # 0 /\ {hosts, kubeconf, api, outputs} = {machines} /\ bastion /\ access

\* A destroy that reports success, with no apply since it was started, has forgotten
\* the cluster: the next apply starts from an absent one.
DestroyedIsForgotten ==
    destroyAt = "done" /\ ~ revived
        => machines = 0 /\ hosts = 0 /\ NoConfig /\ ~ access /\ (bastion => keep)

\* However a destroy was interrupted, and whatever ran beside it, the owner who
\* follows a refused apply by a destroy and an apply has a cluster again.
LifeRecovers == []<>(applyAt = "done")
=============================================================================
