------------------------------ MODULE Preflight -----------------------------
(***************************************************************************)
(* The prerequisites of a command: which tools a scope selects, how they   *)
(* are probed (cli/preflight) and how a command uses what the check found  *)
(* (cli/command/preflight.go and the commands of root.go, engines.go,      *)
(* platform_command.go, access.go, secrets.go, lifecycle.go).  A command   *)
(* is the sequence of its steps that read or replace a.preflight, a.sops   *)
(* or a.project, or that change something outside the checkout.            *)
(***************************************************************************)
EXTENDS Naturals, Sequences, FiniteSetsExt

CONSTANTS Parallelism,  \* probes that run at a time
          MaxBroken,    \* tools of the workstation that are not usable
          NoReport,     \* no report is held back by a local access step
          Unprobed      \* a slot of the results that no probe filled yet

ASSUME PreflightAssumption == Parallelism \in Nat \ {0} /\ MaxBroken \in Nat

VARIABLES broken,      \* the tools that are missing, fail or have another version
          hanging,     \* the tools that never answer
          sealed,      \* the credentials are only in the SOPS document
          name,        \* the command
          step,        \* its next step
          slots,       \* the results of the check that runs, in order
          probes,      \* probes started
          validated,   \* a.preflight: the tools that were found good
          held,        \* managedReport of a local access step
          sops,        \* a.sops is a validated adapter
          cancelled,   \* the user cancelled the command
          changed,     \* what the command has changed so far
          end          \* how it ended: "none", "done", "preflight", ...

pfVars == <<broken, hanging, sealed, name, step, slots, probes, validated, held, sops,
            cancelled, changed, end>>

(* The tools by how they are probed.  A versioned tool is run once and its  *)
(* output parsed; a stateful one is run a second time and must be in the    *)
(* expected state; restorecon, here an installed one, relabels nothing; a   *)
(* capability is only looked up and KVM only opened, so that neither waits. *)
Versioned == {"terraform", "docker", "buildx", "python", "ssh", "flux", "sops", "velero",
              "getfacl", "setfacl"}
Stateful == {"virsh", "firewall"}
Relabel == {"restorecon"}
Capability == {"resolvectl", "systemctl", "sudo", "trust"}
Device == {"kvm"}
Executed == Versioned \union Stateful \union Relabel
Tools == Executed \union Capability \union Device

----------------------------------------------------------------------------
(* requirementsFor and specifications, for the local target: the tools of a *)
(* scope in the order in which they are declared.                           *)

ScopeTools(scope) ==
    CASE scope = "Infrastructure"         -> <<"terraform", "virsh", "kvm">>
      [] scope = "OrchestrationPrepare"   -> <<"python">>
      [] scope = "OrchestrationInventory" -> <<"terraform">>
      [] scope = "TerraformDirect"        -> <<"terraform">>
      [] scope = "OrchestrationConverge"  -> <<"terraform", "python", "ssh">>
      [] scope = "OrchestrationAnsible"   -> <<"python", "ssh">>
      [] scope = "PermissionsInstall"     -> <<"restorecon", "getfacl", "setfacl">>
      [] scope = "PermissionsFile"        -> <<"getfacl", "setfacl">>
      [] scope = "LibvirtForwarding"      -> <<"firewall", "virsh">>
      [] scope = "FluxDirect"             -> <<"flux">>
      [] scope = "VeleroDirect"           -> <<"velero">>
      [] scope = "CommittedSecrets"       -> <<"sops">>
      [] scope = "ArtifactPublication"    -> <<"terraform", "docker", "buildx", "python", "ssh", "sops">>
      [] scope = "Platform" -> <<"terraform", "docker", "buildx", "python", "ssh", "flux", "sops">>
      [] scope = "Full"     -> <<"terraform", "docker", "buildx", "python", "ssh", "flux", "sops",
                                 "virsh", "kvm">>
      [] scope = "AccessDNS"       -> <<"resolvectl", "systemctl", "sudo">>
      [] scope = "AccessCA"        -> <<"sudo", "trust">>
      [] scope = "AccessUninstall" -> <<"resolvectl", "systemctl", "sudo", "trust">>

----------------------------------------------------------------------------
(* The steps of the commands.                                               *)

Check(scope)          == [op |-> "check", arg |-> scope, needs |-> {}]
Publish(scope)        == [op |-> "publish", arg |-> scope, needs |-> {}]
Load                  == [op |-> "load", arg |-> "credentials", needs |-> {}]
Access(scope, what)   == [op |-> "access", arg |-> scope, needs |-> what]
Change(what, tools)   == [op |-> "change", arg |-> what, needs |-> tools]

Deliver == Change("delivery", {"docker"})
Infrastructure == Change("infrastructure", {"terraform"})
Convergence == Change("cluster", {"terraform", "python", "ssh"})
LocalAccess == <<Access("AccessDNS", {"dns"}), Access("AccessCA", {"trust"}), Load>>

applyCommand ==
    <<Check("Full"), Deliver, Publish("Full"), Load, Infrastructure,
      Change("publication", {"ssh", "flux"}), Convergence, Load, Change("platform", {"flux"})>>
      \o LocalAccess \o <<Load>>
platformPrepare ==
    <<Check("Platform"), Deliver, Publish("Platform"), Load, Change("publication", {"ssh", "flux"}), Load,
      Change("platform", {"flux"})>>
platformApply == platformPrepare \o LocalAccess \o <<Load>>
platformStatus == <<Load>>
artifactsPublish ==
    <<Check("ArtifactPublication"), Deliver, Publish("ArtifactPublication"), Load,
      Change("publication", {"ssh"})>>
infraApply == <<Check("Infrastructure"), Infrastructure>>
accessUninstall ==
    <<Check("AccessUninstall"), Change("host", {"sudo", "resolvectl", "systemctl", "trust"})>>
uninstallDNS == <<Check("AccessDNS"), Change("host", {"sudo", "resolvectl", "systemctl"})>>
uninstallCA == <<Check("AccessCA"), Change("host", {"sudo", "trust"})>>
destroyCommand == accessUninstall \o infraApply
accessInstall == <<Load>> \o LocalAccess
orchestrationPrepare == <<Check("OrchestrationPrepare"), Change("toolchains", {"python"})>>
orchestrationInventory == <<Check("OrchestrationInventory"), Change("inventory", {"terraform"})>>
orchestrationConverge == <<Check("OrchestrationConverge"), Load, Convergence>>
runAnsible == <<Check("OrchestrationAnsible"), Change("cluster", {"python", "ssh"})>>
secretsInit == <<Check("CommittedSecrets"), Change("credentials", {"sops"})>>
secretsValidate == <<Check("CommittedSecrets"), Load>>
permissionsInstall ==
    <<Check("PermissionsInstall"), Change("acl", {"restorecon", "getfacl", "setfacl"})>>
permissionsUninstall == <<Check("PermissionsFile"), Change("acl", {"getfacl", "setfacl"})>>
forwardingInstall == <<Check("LibvirtForwarding"), Change("firewall", {"firewall", "virsh"})>>
runTerraform == <<Check("TerraformDirect"), Infrastructure>>
runFlux == <<Check("FluxDirect"), Change("platform", {"flux"})>>
runVelero == <<Check("VeleroDirect"), Change("platform", {"velero"})>>

Programs ==
    [apply |-> applyCommand, platformPrepare |-> platformPrepare, platformApply |-> platformApply,
     platformStatus |-> platformStatus, artifactsPublish |-> artifactsPublish,
     infraApply |-> infraApply, destroy |-> destroyCommand, accessInstall |-> accessInstall,
     accessUninstall |-> accessUninstall, uninstallDNS |-> uninstallDNS,
     uninstallCA |-> uninstallCA,
     orchestrationPrepare |-> orchestrationPrepare,
     orchestrationInventory |-> orchestrationInventory,
     orchestrationApply |-> orchestrationConverge, ansible |-> runAnsible,
     secretsInit |-> secretsInit, secretsValidate |-> secretsValidate,
     permissionsInstall |-> permissionsInstall, permissionsUninstall |-> permissionsUninstall,
     forwardingInstall |-> forwardingInstall, terraform |-> runTerraform, flux |-> runFlux,
     velero |-> runVelero]

Now == Programs[name][step]
Selects(s) == IF s.op \in {"check", "publish", "access"}
              THEN {ScopeTools(s.arg)[k] : k \in 1..Len(ScopeTools(s.arg))} ELSE {}
Relevant == UNION {Selects(Programs[name][k]) : k \in 1..Len(Programs[name])}

PreflightInit ==
    /\ name \in DOMAIN Programs /\ step = 1 /\ sealed \in BOOLEAN
    /\ broken \in UNION {kSubset(n, Relevant) : n \in 0..MaxBroken}
    /\ hanging \in UNION {kSubset(n, (Relevant \intersect Executed) \ broken) :
                             n \in 0..MaxBroken - Cardinality(broken)}
    /\ slots = <<>> /\ probes = 0 /\ validated = {} /\ held = NoReport /\ sops = FALSE
    /\ cancelled = FALSE /\ changed = {} /\ end = "none"

Usable(tool) == tool \notin broken \union hanging
Done(s) == IF s = Len(Programs[name]) THEN "done" ELSE "none"

----------------------------------------------------------------------------
(* Check: the probes start in order, at most Parallelism of them running.   *)

Checking == slots # <<>>
Running == {k \in 1..probes : slots[k] = Unprobed}

(* ensurePublication forgets the validated, prepares the publication with the  *)
(* project unlocked and loads the project again, which forgets the adapter, *)
(* before it checks the scope again.                                        *)
startCheck ==
    /\ end = "none" /\ ~Checking /\ held = NoReport /\ Now.op \in {"check", "publish", "access"}
    /\ slots' = [k \in 1..Len(ScopeTools(Now.arg)) |-> Unprobed] /\ probes' = 0
    /\ validated' = IF Now.op = "publish" THEN {} ELSE validated
    /\ sops' = IF Now.op = "publish" THEN FALSE ELSE sops
    /\ UNCHANGED <<broken, hanging, sealed, name, step, held, cancelled, changed, end>>

MutantStartProbe ==
    /\ Checking /\ probes < Len(slots)
    /\ probes' = probes + 1
    /\ UNCHANGED <<broken, hanging, sealed, name, step, slots, validated, held, sops, cancelled,
                   changed, end>>

startProbe ==
    /\ Checking /\ probes < Len(slots) /\ Cardinality(Running) < Parallelism
    /\ probes' = probes + 1
    /\ UNCHANGED <<broken, hanging, sealed, name, step, slots, validated, held, sops, cancelled,
                   changed, end>>

(* What a probe returns: a tool that is not there, fails, floods its output *)
(* or has another version is a problem, and so is an expired context.       *)
Probe(k, late) ==
    IF late \/ ~Usable(ScopeTools(Now.arg)[k]) THEN "problem" ELSE "good"

finishProbe(k) ==
    /\ k \in Running /\ (ScopeTools(Now.arg)[k] \notin hanging \/ cancelled)
    /\ slots' = [slots EXCEPT ![k] = Probe(k, cancelled)]
    /\ UNCHANGED <<broken, hanging, sealed, name, step, probes, validated, held, sops, cancelled,
                   changed, end>>

(* Mutant: only the context of the command ends a probe. *)
MutantProbeTimeout(k) ==
    /\ k \in Running /\ ScopeTools(Now.arg)[k] \in hanging /\ cancelled
    /\ slots' = [slots EXCEPT ![k] = "problem"]
    /\ UNCHANGED <<broken, hanging, sealed, name, step, probes, validated, held, sops, cancelled,
                   changed, end>>

(* The probe's own deadline, 5 seconds after it started.                   *)
probeTimeout(k) ==
    /\ k \in Running /\ ScopeTools(Now.arg)[k] \in hanging
    /\ slots' = [slots EXCEPT ![k] = "problem"]
    /\ UNCHANGED <<broken, hanging, sealed, name, step, probes, validated, held, sops, cancelled,
                   changed, end>>

Found == {ScopeTools(Now.arg)[k] : k \in {j \in 1..Len(slots) : slots[j] = "good"}}

(* A report without problems.                                               *)
Passed == \A k \in 1..Len(slots) : slots[k] = "good"

MutantFinishCheck ==
    /\ Checking /\ \A k \in 1..Len(slots) : slots[k] # Unprobed
    /\ slots' = <<>> /\ probes' = 0
    /\ validated' = (IF Now.op = "publish" THEN validated ELSE Found)
    /\ held' = IF Now.op = "access" /\ Passed THEN validated ELSE held
    /\ sops' = IF "sops" \in Selects(Now) THEN Passed ELSE sops
    /\ IF Passed
       THEN /\ step' = IF Now.op = "access" THEN step ELSE step + 1
            /\ end' = IF Now.op = "access" THEN end ELSE Done(step)
       ELSE UNCHANGED step /\ end' = "preflight"
    /\ UNCHANGED <<broken, hanging, sealed, name, cancelled, changed>>

(* Every slot is filled: the report replaces the last one, the adapter is   *)
(* made anew when SOPS is in the scope, and a problem ends the command; a   *)
(* local access step keeps the report of the command aside meanwhile.       *)
finishCheck ==
    /\ Checking /\ \A k \in 1..Len(slots) : slots[k] # Unprobed
    /\ slots' = <<>> /\ probes' = 0
    /\ validated' = IF Now.op = "access" /\ ~Passed THEN validated ELSE Found
    /\ held' = IF Now.op = "access" /\ Passed THEN validated ELSE held
    /\ sops' = IF "sops" \in Selects(Now) THEN Passed ELSE sops
    /\ IF Passed
       THEN /\ step' = IF Now.op = "access" THEN step ELSE step + 1
            /\ end' = IF Now.op = "access" THEN end ELSE Done(step)
       ELSE UNCHANGED step /\ end' = "preflight"
    /\ UNCHANGED <<broken, hanging, sealed, name, cancelled, changed>>

----------------------------------------------------------------------------
(* The other steps.                                                         *)

(* The resolver or the trust store is already as it should be.              *)
alreadyExact ==
    /\ end = "none" /\ ~Checking /\ held = NoReport /\ Now.op = "access"
    /\ step' = step + 1 /\ end' = Done(step)
    /\ UNCHANGED <<broken, hanging, sealed, name, slots, probes, validated, held, sops, cancelled,
                   changed>>

(* The privileged helper changes the host; the report comes back.           *)
privilegedChange ==
    /\ end = "none" /\ held # NoReport
    /\ changed' = changed \union Now.needs
    /\ validated' = held /\ held' = NoReport
    /\ step' = step + 1 /\ end' = Done(step)
    /\ UNCHANGED <<broken, hanging, sealed, name, slots, probes, sops, cancelled>>

(* Load and Ensure: without an adapter a committed document is unreadable.  *)
loadCredentials ==
    /\ end = "none" /\ Now.op = "load"
    /\ IF sealed /\ ~sops THEN end' = "undecryptable" /\ UNCHANGED step
       ELSE step' = step + 1 /\ end' = Done(step)
    /\ UNCHANGED <<broken, hanging, sealed, name, slots, probes, validated, held, sops, cancelled,
                   changed>>

(* A step that runs tools: requiredBinary and its like fail the command     *)
(* when the report has no identity for one of them.                         *)
runTools ==
    /\ end = "none" /\ Now.op = "change"
    /\ IF Now.needs \subseteq validated
       THEN changed' = changed \union {Now.arg} /\ step' = step + 1 /\ end' = Done(step)
       ELSE end' = "unvalidated" /\ UNCHANGED <<changed, step>>
    /\ UNCHANGED <<broken, hanging, sealed, name, slots, probes, validated, held, sops, cancelled>>

(* The context of the command is cancelled while a check runs.              *)
cancelCheck ==
    /\ Checking /\ ~cancelled /\ cancelled' = TRUE
    /\ UNCHANGED <<broken, hanging, sealed, name, step, slots, probes, validated, held, sops,
                   changed, end>>

PreflightStep ==
    \/ startCheck \/ startProbe \/ finishCheck
    \/ \E k \in 1..Len(slots) : finishProbe(k) \/ probeTimeout(k)
    \/ alreadyExact \/ privilegedChange \/ loadCredentials \/ runTools

PreflightNext == PreflightStep \/ cancelCheck

----------------------------------------------------------------------------
(* The types, and the limit on the probes that run at a time.               *)
PreflightTypeOK ==
    /\ broken \union hanging \subseteq Tools
    /\ step \in 1..Len(Programs[name]) + 1 /\ probes \in 0..Len(slots)
    /\ validated \subseteq Tools /\ (held = NoReport \/ held \subseteq Tools)
    /\ Cardinality(Running) <= Parallelism
    /\ end \in {"none", "done", "preflight", "undecryptable", "unvalidated"}

(* Every tool is checked before it is used.  A command never reaches a step *)
(* that runs a tool which its checks did not validate, also after           *)
(* ensurePublication dropped the report and loaded the project again.  A    *)
(* check finds all unusable tools at once: one failing or hanging tool      *)
(* neither hides nor spoils the probe of another ("aggregate all missing or *)
(* incompatible tools").  Nothing is changed with a tool that is not        *)
(* usable, and the local infrastructure not without libvirt and KVM ("a     *)
(* failed preflight stops before Terraform, host DNS, or CA trust           *)
(* changes").                                                               *)
ToolsAreChecked ==
    /\ end # "unvalidated"
    /\ Checking /\ ~cancelled /\ (\A k \in 1..Len(slots) : slots[k] # Unprobed)
       => Found = {t \in Selects(Now) : Usable(t)}
    /\ "infrastructure" \in changed /\ name # "terraform"
       => \A t \in {"terraform", "virsh", "kvm"} : Usable(t)
    /\ "cluster" \in changed => \A t \in {"python", "ssh"} : Usable(t)
    /\ "dns" \in changed => \A t \in {"sudo", "resolvectl", "systemctl"} : Usable(t)
    /\ "trust" \in changed => Usable("trust")

(* Every command comes to its end.                                          *)
CommandOver == end # "none"

PreflightSpec == PreflightInit /\ [][PreflightNext]_pfVars
=============================================================================
