----------------------------- MODULE HostAccess -----------------------------
(***************************************************************************)
(* The workstation half of the platform: the systemd-resolved drop-in and  *)
(* the CA anchor that Atum installs on, and removes from, the operator's   *)
(* own machine (cli/infra/access.go, cli/command/access.go,                *)
(* cli/command/sudo.go).                                                   *)
(*                                                                         *)
(* Two pieces of state exist twice on a host: the drop-in on disk and the  *)
(* configuration the running resolver has loaded, the anchor on disk and   *)
(* the trust bundle the updater built from it.  Atum changes the first of  *)
(* each pair with a root helper, and asks a daemon to change the second.   *)
(* Between any two steps the process may die, the owner of the machine may *)
(* edit a file, sudo may be revoked, or the cluster may get another root.  *)
(***************************************************************************)
EXTENDS Naturals, FiniteSets

CONSTANTS
    Facts,      \* local access facts the project may declare (one drop-in text each)
    Roots,      \* root certificates of the cluster that validate as Atum roots
    NoFile,     \* the file is absent
    Foreign,    \* a readable file that Atum did not write
    Unmanaged,  \* a file the managed reader refuses (owner, mode or symlink)
    MaxOutside, \* bound: changes made by anything but Atum
    MaxFaults   \* bound: crashes, failed daemon calls and failed sudo calls

ASSUME HostAccessAssumption ==
    /\ {NoFile, Foreign, Unmanaged} \cap (Facts \cup Roots) = {}
    /\ Cardinality({NoFile, Foreign, Unmanaged}) = 3
    /\ MaxOutside \in Nat
    /\ MaxFaults \in Nat

VARIABLES
    facts,    \* access facts of the active target
    dropIn,   \* /etc/systemd/resolved.conf.d drop-in
    loaded,   \* the drop-in text the running resolver last read
    managed,  \* systemd-resolved is active and owns /etc/resolv.conf
    root,     \* the in-cluster root certificate
    anchor,   \* the CA anchor file
    trusted,  \* the anchor the system trust bundle was last built from
    pc,       \* where the command is, "idle" between commands
    cmd,      \* the running command
    cert,     \* in-cluster root read by ensureLocalCA
    plan,     \* the removal plan the operator authorized
    report,   \* which preflight report the command holds
    lease,    \* the sudo authorization of an apply
    obs,      \* the DNS observation goroutine of an apply
    outcome,  \* how the last command ended
    meddled,  \* something but Atum changed the host since the command last looked
    outside,  \* changes made by anything but Atum so far
    faults    \* failures so far

host == <<dropIn, loaded, anchor, trusted>>
world == <<facts, managed, root>>
control == <<cmd, cert, plan, report, lease, obs, outcome>>
bounds == <<meddled, outside, faults>>
vars == <<facts, dropIn, loaded, managed, root, anchor, trusted, pc, cmd, cert,
          plan, report, lease, obs, outcome, meddled, outside, faults>>

DropIns == Facts \cup {NoFile, Foreign, Unmanaged}
Anchors == Roots \cup {NoFile, Foreign, Unmanaged}
NoPlan == [resolver |-> NoFile, trust |-> NoFile]
Commands == {"install", "apply", "uninstall"}

InstallSteps == {"platform", "dns_inspect", "dns_auth", "dns_write", "dns_reload",
                 "dns_verify", "observe", "ca_compare", "ca_auth", "ca_write",
                 "ca_update", "ca_check", "ca_https", "wait", "final"}
UninstallSteps == {"un_plan", "un_auth", "un_replan", "un_remove_dns",
                   "un_remove_ca", "un_reload", "un_update", "un_absent"}

\* Type of every variable.  The steps of an apply that read over SSH hold the managed
\* preflight report again, although ensureLocalDNS and ensureLocalCA replace it.
TypeOK ==
    /\ facts \in Facts
    /\ dropIn \in DropIns
    /\ loaded \in DropIns
    /\ managed \in BOOLEAN
    /\ root \in Roots
    /\ anchor \in Anchors
    /\ trusted \in Anchors
    /\ pc \in {"idle"} \cup InstallSteps \cup UninstallSteps
    /\ cmd \in [name : Commands, dry : BOOLEAN]
    /\ cert \in Roots \cup {NoFile}
    /\ plan \in [resolver : Facts \cup {NoFile}, trust : Roots \cup {NoFile}]
    /\ report \in {"managed", "access"}
    /\ pc \in {"observe", "ca_compare", "ca_https", "wait", "final"} => report = "managed"
    /\ lease \in {"none", "valid", "lost"}
    /\ obs \in {"off", "probing", "exact", "failed"}
    /\ outcome \in {"none", "planned", "installed", "applied", "removed",
                    "absent", "failed", "crashed"}
    /\ meddled \in BOOLEAN
    /\ outside \in 0..MaxOutside
    /\ faults \in 0..MaxFaults

Init ==
    /\ facts \in Facts
    /\ dropIn = NoFile /\ loaded = NoFile
    /\ managed = TRUE
    /\ root \in Roots
    /\ anchor = NoFile /\ trusted = NoFile
    /\ pc = "idle"
    /\ cmd = [name |-> "install", dry |-> FALSE]
    /\ cert = NoFile
    /\ plan = NoPlan
    /\ report = "managed"
    /\ lease = "none"
    /\ obs = "off"
    /\ outcome = "none"
    /\ meddled = FALSE
    /\ outside = 0 /\ faults = 0

-----------------------------------------------------------------------------
(* Reading the host.                                                       *)

\* readManagedHostFile refuses anything but a root-owned regular file of the
\* expected mode.
Readable(file) == file # Unmanaged

\* atomicHostFile: a temporary file renamed over the old one, so a crash leaves
\* the old content or the new; a file that is there must be Atum-managed.
Replaceable(file) == file # Unmanaged

\* removeHostFile: an absent file is fine, an unmanaged one is refused.
Removable(file) == file # Unmanaged

\* AccessStatus.DNSExact over DNSConfigurationStatus: the drop-in has the exact
\* text for these facts, and the resolver is active and owns resolv.conf.  What
\* the resolver has loaded is not part of it.
DNSExact == dropIn = facts /\ managed

\* The lookups of Status: the running resolver answers for the domain.
LookupsExact == managed /\ loaded = facts

\* ValidateRootCA as PlanUninstall uses it: only a root with Atum's identity
\* counts as Atum's own anchor.
AtumRoot(file) == file \in Roots

\* PlanUninstall: the files Atum would remove.  It refuses a drop-in that is
\* not the exact text for the current facts, and an anchor that is no Atum root.
Plannable ==
    /\ Readable(dropIn) /\ Readable(anchor)
    /\ dropIn \in {NoFile, facts}
    /\ anchor = NoFile \/ AtumRoot(anchor)

PlanUninstall == [resolver |-> dropIn, trust |-> anchor]

-----------------------------------------------------------------------------
(* How a command ends.                                                     *)

\* The deferred dns.Cancel and authorization.Close: both cancel their goroutine
\* and wait for it, so neither outlives the command.
End(result) ==
    /\ pc' = "idle"
    /\ outcome' = result
    /\ lease' = "none"
    /\ obs' = "off"
    /\ report' = "managed"
    /\ UNCHANGED <<cmd, cert, plan>>

Goto(step) == pc' = step /\ UNCHANGED control

Fault == faults < MaxFaults /\ faults' = faults + 1 /\ UNCHANGED <<meddled, outside>>

\* A call to something outside Atum that fails: the command returns its error.
Failed(step) ==
    /\ pc = step
    /\ Fault
    /\ End("failed")
    /\ UNCHANGED <<host, world>>

-----------------------------------------------------------------------------
(* Starting.                                                               *)

\* atum infra access install, platform apply (from the point where Flux is
\* ready) or infra access uninstall starts.  An apply first takes a sudo lease
\* unless it is a dry run.
Start(name, dry) ==
    /\ pc = "idle"
    /\ cmd' = [name |-> name, dry |-> dry]
    /\ pc' = CASE name = "install" -> "platform"
               [] name = "apply" -> "dns_inspect"
               [] name = "uninstall" -> "un_plan"
    /\ lease' = IF name = "apply" /\ ~dry THEN "valid" ELSE "none"
    /\ cert' = NoFile /\ plan' = NoPlan
    /\ obs' = "off" /\ outcome' = "none" /\ report' = "managed"
    /\ meddled' = FALSE
    /\ UNCHANGED <<host, world, outside, faults>>

\* requireNativePlatformForLocalAccess: an incomplete platform ends the install
\* before it touches the host.
requireNativePlatform ==
    \/ /\ pc = "platform"
       /\ Goto("dns_inspect")
       /\ UNCHANGED <<host, world, bounds>>
    \/ Failed("platform")

-----------------------------------------------------------------------------
(* ensureLocalDNS.                                                         *)

AfterDNS == IF cmd.name = "apply" THEN "observe" ELSE "ca_compare"

\* The unprivileged look: an exact configuration, or a dry run, needs no root.
inspectDNS ==
    /\ pc = "dns_inspect"
    /\ IF ~Readable(dropIn) THEN End("failed")
       ELSE Goto(IF DNSExact \/ cmd.dry THEN AfterDNS ELSE "dns_auth")
    /\ UNCHANGED <<host, world, bounds>>

\* runPrivilegedHelper: an apply reuses its lease, which must not have failed
\* and is refreshed once more; another command asks sudo on the terminal.  The
\* access preflight report replaces the managed one while the helper runs.
Authorize(step, next) ==
    \/ /\ pc = step
       /\ lease # "lost"
       /\ pc' = next
       /\ report' = "access"
       /\ UNCHANGED <<cmd, cert, plan, lease, obs, outcome, host, world, bounds>>
    \/ /\ pc = step
       /\ lease = "lost"
       /\ End("failed")
       /\ UNCHANGED <<host, world, bounds>>
    \/ Failed(step)

\* InstallDNS as root: it refuses a host whose resolver it does not own, then
\* writes the drop-in whole.
writeDNS ==
    /\ pc = "dns_write"
    /\ IF managed /\ Replaceable(dropIn)
       THEN /\ dropIn' = facts
            /\ Goto("dns_reload")
       ELSE /\ End("failed")
            /\ UNCHANGED dropIn
    /\ UNCHANGED <<loaded, anchor, trusted, world, bounds>>

\* systemctl reload-or-restart: the daemon reads whatever is on disk.
reloadDNS ==
    \/ /\ pc = "dns_reload"
       /\ loaded' = dropIn
       /\ Goto("dns_verify")
       /\ UNCHANGED <<dropIn, anchor, trusted, world, bounds>>
    \/ Failed("dns_reload")

\* verifyDNSPostWrite, and ensureLocalDNS putting the managed report back.
verifyDNS ==
    /\ pc = "dns_verify"
    /\ IF DNSExact
       THEN /\ pc' = AfterDNS
            /\ report' = "managed"
            /\ UNCHANGED <<cmd, cert, plan, lease, obs, outcome>>
       ELSE End("failed")
    /\ UNCHANGED <<host, world, bounds>>

-----------------------------------------------------------------------------
(* The DNS observation of an apply.                                        *)

\* startLocalDNSObservation: a dry run gets an observation that is done.
startObservation ==
    /\ pc = "observe"
    /\ pc' = "ca_compare"
    /\ obs' = IF cmd.dry THEN "exact" ELSE "probing"
    /\ UNCHANGED <<cmd, cert, plan, report, lease, outcome, host, world, bounds>>

\* runLocalDNSObservation: a probe that finds the resolver exact ends the loop,
\* an unreadable drop-in is a permanent error, anything else is tried again.
probeDNS ==
    /\ obs = "probing"
    /\ \/ DNSExact /\ LookupsExact /\ obs' = "exact"
       \/ ~Readable(dropIn) /\ obs' = "failed"
    /\ UNCHANGED <<pc, cmd, cert, plan, report, lease, outcome, host, world, bounds>>

\* The convergence timeout of the worker context.
observationDeadline ==
    /\ obs = "probing"
    /\ obs' = "failed"
    /\ UNCHANGED <<pc, cmd, cert, plan, report, lease, outcome, host, world, bounds>>

-----------------------------------------------------------------------------
(* ensureLocalCA.                                                          *)

\* Mutant: an exact anchor file is taken for a trusted root.
MutantCompareCA ==
    /\ pc = "ca_compare"
    /\ IF cmd.dry \/ anchor = root
       THEN IF cmd.name = "apply" THEN Goto("wait")
            ELSE End(IF cmd.dry THEN "planned" ELSE "installed")
       ELSE IF ~Readable(anchor) THEN End("failed")
       ELSE /\ cert' = root
            /\ pc' = "ca_auth"
            /\ UNCHANGED <<cmd, plan, report, lease, obs, outcome>>
    /\ UNCHANGED <<host, world, bounds>>

\* inClusterRootCA and CompareCA: an exact anchor goes straight to the HTTPS
\* check, another one to the root helper.  A dry run stops here.
compareCA ==
    /\ pc = "ca_compare"
    /\ \/ cmd.dry /\ IF cmd.name = "apply" THEN Goto("wait") ELSE End("planned")
       \/ ~cmd.dry /\ ~Readable(anchor) /\ End("failed")
       \/ /\ ~cmd.dry /\ Readable(anchor)
          /\ cert' = root
          /\ pc' = IF anchor = root THEN "ca_https" ELSE "ca_auth"
          /\ UNCHANGED <<cmd, plan, report, lease, obs, outcome>>
    /\ UNCHANGED <<host, world, bounds>>

\* InstallCA as root: the certificate handed over on stdin is validated again
\* and written whole.
writeCA ==
    /\ pc = "ca_write"
    /\ IF Replaceable(anchor)
       THEN anchor' = cert /\ Goto("ca_update")
       ELSE End("failed") /\ UNCHANGED anchor
    /\ UNCHANGED <<dropIn, loaded, trusted, world, bounds>>

\* The distribution's trust updater rebuilds the bundle from the anchors on disk.
updateTrust ==
    \/ /\ pc = "ca_update"
       /\ trusted' = anchor
       /\ Goto("ca_check")
       /\ UNCHANGED <<dropIn, loaded, anchor, world, bounds>>
    \/ Failed("ca_update")

\* InstallCA's read-back and ensureLocalCA's second CompareCA, after which the
\* managed report is in place again.
checkCA ==
    /\ pc = "ca_check"
    /\ IF anchor = cert
       THEN /\ pc' = "ca_https"
            /\ report' = "managed"
            /\ UNCHANGED <<cmd, cert, plan, lease, obs, outcome>>
       ELSE End("failed")
    /\ UNCHANGED <<host, world, bounds>>

\* verifyTrustedHTTPS: a fresh process dials the ingress, whose chain ends at
\* the cluster's root, and every chain the system verifies must end at the root
\* this command read.
verifyHTTPS ==
    /\ pc = "ca_https"
    /\ IF trusted = root /\ root = cert
       THEN IF cmd.name = "apply" THEN Goto("wait") ELSE End("installed")
       ELSE End("failed")
    /\ UNCHANGED <<host, world, bounds>>

\* dns.Wait: blocks until the observation is done and returns its error.
waitDNS ==
    /\ pc = "wait"
    /\ obs \in {"exact", "failed"}
    /\ IF obs = "exact" THEN Goto("final") ELSE End("failed")
    /\ UNCHANGED <<host, world, bounds>>

\* verifyLocalAccessStatus: the DNS answer is the one the observation cached,
\* the anchor is compared with the root the cluster has now.
finishApply ==
    /\ pc = "final"
    /\ IF cmd.dry THEN End("planned")
       ELSE IF anchor = root THEN End("applied") ELSE End("failed")
    /\ UNCHANGED <<host, world, bounds>>

-----------------------------------------------------------------------------
(* Uninstall.                                                              *)

\* The unprivileged plan: nothing to remove ends the command.
planRemoval ==
    /\ pc = "un_plan"
    /\ CASE cmd.dry -> End("planned")
         [] ~cmd.dry /\ ~Plannable -> End("failed")
         [] ~cmd.dry /\ Plannable /\ PlanUninstall = NoPlan -> End("absent")
         [] OTHER -> /\ pc' = "un_auth"
                     /\ plan' = PlanUninstall
                     /\ UNCHANGED <<cmd, cert, report, lease, obs, outcome>>
    /\ UNCHANGED <<host, world, bounds>>

\* The helper plans again, compares its digest with the authorized one, and
\* Uninstall plans and compares once more before it removes anything.
replanRemoval ==
    /\ pc = "un_replan"
    /\ IF Plannable /\ PlanUninstall = plan
       THEN /\ Goto("un_remove_dns")
            /\ meddled' = FALSE
       ELSE /\ End("failed")
            /\ UNCHANGED meddled
    /\ UNCHANGED <<host, world, outside, faults>>

\* The two removals, in plan order.
removeDropIn ==
    /\ pc = "un_remove_dns"
    /\ IF plan.resolver = NoFile THEN Goto("un_remove_ca") /\ UNCHANGED dropIn
       ELSE IF Removable(dropIn) THEN Goto("un_remove_ca") /\ dropIn' = NoFile
       ELSE End("failed") /\ UNCHANGED dropIn
    /\ UNCHANGED <<loaded, anchor, trusted, world, bounds>>

removeAnchor ==
    /\ pc = "un_remove_ca"
    /\ IF plan.trust = NoFile THEN Goto("un_reload") /\ UNCHANGED anchor
       ELSE IF Removable(anchor) THEN Goto("un_reload") /\ anchor' = NoFile
       ELSE End("failed") /\ UNCHANGED anchor
    /\ UNCHANGED <<dropIn, loaded, trusted, world, bounds>>

\* Only then are the daemons told, each if its file was planned.
reloadRemoved ==
    \/ /\ pc = "un_reload"
       /\ loaded' = IF plan.resolver # NoFile THEN dropIn ELSE loaded
       /\ Goto("un_update")
       /\ UNCHANGED <<dropIn, anchor, trusted, world, bounds>>
    \/ plan.resolver # NoFile /\ Failed("un_reload")

updateRemoved ==
    \/ /\ pc = "un_update"
       /\ trusted' = IF plan.trust # NoFile THEN anchor ELSE trusted
       /\ Goto("un_absent")
       /\ UNCHANGED <<dropIn, loaded, anchor, world, bounds>>
    \/ plan.trust # NoFile /\ Failed("un_update")

\* The files of the plan must still be gone.
checkRemoved ==
    /\ pc = "un_absent"
    /\ IF /\ plan.resolver # NoFile => dropIn = NoFile
          /\ plan.trust # NoFile => anchor = NoFile
       THEN End("removed")
       ELSE End("failed")
    /\ UNCHANGED <<host, world, bounds>>

-----------------------------------------------------------------------------
(* The sudo lease of an apply.                                             *)

\* maintain: a refresh that fails while the lease is open is remembered, and
\* the first error stays.  (A refresh that succeeds changes nothing.)
refreshFails ==
    /\ lease = "valid"
    /\ Fault
    /\ lease' = "lost"
    /\ UNCHANGED <<pc, cmd, cert, plan, report, obs, outcome, host, world>>

-----------------------------------------------------------------------------
(* Everything but Atum.                                                    *)

Meddle == outside < MaxOutside /\ outside' = outside + 1 /\ meddled' = TRUE /\ UNCHANGED faults

\* The owner edits a file, changes the project, restarts a daemon or rebuilds
\* the cluster.
Outside ==
    /\ Meddle
    /\ \/ /\ dropIn' \in {NoFile, Foreign, Unmanaged} \ {dropIn}
          /\ UNCHANGED <<loaded, anchor, trusted, world>>
       \/ /\ anchor' \in {NoFile, Foreign, Unmanaged} \ {anchor}
          /\ UNCHANGED <<dropIn, loaded, trusted, world>>
       \/ /\ pc = "idle"
          /\ facts' \in Facts \ {facts}
          /\ UNCHANGED <<host, managed, root>>
       \/ /\ managed' = ~managed
          /\ loaded' = dropIn
          /\ UNCHANGED <<dropIn, anchor, trusted, facts, root>>
       \/ /\ root' \in Roots \ {root}
          /\ UNCHANGED <<host, facts, managed>>
    /\ UNCHANGED <<pc, control>>

\* The process and its helper die.
Crash ==
    /\ pc # "idle"
    /\ Fault
    /\ End("crashed")
    /\ UNCHANGED <<host, world>>

-----------------------------------------------------------------------------
Steps ==
    \/ requireNativePlatform
    \/ inspectDNS \/ Authorize("dns_auth", "dns_write")
    \/ writeDNS \/ reloadDNS \/ verifyDNS
    \/ startObservation
    \/ compareCA \/ Authorize("ca_auth", "ca_write")
    \/ writeCA \/ updateTrust \/ checkCA \/ verifyHTTPS
    \/ waitDNS \/ finishApply
    \/ planRemoval \/ Authorize("un_auth", "un_replan") \/ replanRemoval
    \/ removeDropIn \/ removeAnchor \/ reloadRemoved \/ updateRemoved
    \/ checkRemoved

Next ==
    \/ \E name \in Commands, dry \in BOOLEAN : Start(name, dry)
    \/ Steps
    \/ probeDNS \/ observationDeadline
    \/ refreshFails
    \/ Outside \/ Crash

Spec == Init /\ [][Next]_vars
-----------------------------------------------------------------------------
(* Properties.                                                             *)

Ends(results) == pc # "idle" /\ pc' = "idle" /\ outcome' \in results

\* A command that reports success describes a live host, not files only: when
\* nothing else changed the host meanwhile, the anchor is the cluster's root and
\* the trust bundle was built from it, the drop-in is the one for the project's
\* facts and, for an apply, the running resolver answers from it.  This holds
\* whether the files were written now or by an earlier command that was cut
\* short (ensureLocalCA, completePlatformApply).
SuccessIsLive ==
    [][(Ends({"installed", "applied"}) /\ ~meddled) =>
         /\ anchor' = root' /\ trusted' = root'
         /\ dropIn' = facts'
         /\ outcome' = "applied" => loaded' = facts']_vars

\* What the root helper removes is what the operator authorized: a file that
\* changed between the unprivileged plan and the helper's own check is kept
\* (the authorization digest and sameRemovalPlan).
RemovesAuthorized ==
    [][~meddled =>
         /\ (pc = "un_remove_dns" /\ dropIn' # dropIn) => dropIn = plan.resolver
         /\ (pc = "un_remove_ca" /\ anchor' # anchor) => anchor = plan.trust]_vars

=============================================================================
