------------------------- MODULE LibvirtForwarding -------------------------
(***************************************************************************)
(* atum infra libvirt forwarding install | uninstall | status: four        *)
(* firewalld direct rules for the bridge of the libvirt network, and a     *)
(* state file that remembers which bridge they are for                     *)
(* (cli/infra/libvirt.go, PlanForwarding and Forwarding).                  *)
(***************************************************************************)
EXTENDS Naturals, Sequences

CONSTANTS
    Bridges,        \* bridges the network may have
    NoBridge,       \* no bridge: the network is undefined, or no state file
    MaxNetworks,    \* bound: redefinitions of the network
    MaxBreaks       \* bound: crashes and failed commands

ASSUME ForwardingAssumption ==
    NoBridge \notin Bridges /\ MaxNetworks \in Nat /\ MaxBreaks \in Nat

VARIABLES
    bridge,     \* the bridge of the live network
    saved,      \* the bridge named in the state file
    rules,      \* the rules firewalld has
    fstep,         \* "idle", "discover", "clear", "rules" or "record"
    fplan,       \* action and saved bridge, as planned
    chosen,     \* the bridge this run works on
    nth,          \* position in RuleOrder
    fresult,       \* how the last run ended
    unrecorded,        \* an install stopped before it recorded its bridge
    networks,
    breaks

fvars == <<bridge, saved, rules, fstep, fplan, chosen, nth, fresult, unrecorded, networks, breaks>>

Actions == {"install", "status", "uninstall"}
RuleOrder == << <<"permanent", "ingress">>, <<"permanent", "return">>,
                <<"runtime", "ingress">>, <<"runtime", "return">> >>
RulesOf(b) == {<<b, RuleOrder[k][1], RuleOrder[k][2]>> : k \in 1..4}

\* Type of every variable.
FTypeOK ==
    /\ bridge \in Bridges \cup {NoBridge}
    /\ saved \in Bridges \cup {NoBridge}
    /\ rules \subseteq UNION {RulesOf(b) : b \in Bridges}
    /\ fstep \in {"idle", "discover", "clear", "rules", "record"}
    /\ fplan \in [action : Actions, saved : Bridges \cup {NoBridge}]
    /\ chosen \in Bridges \cup {NoBridge}
    /\ nth \in 1..4
    /\ fresult \in {"none", "installed", "present", "removed", "failed"}
    /\ unrecorded \in BOOLEAN
    /\ networks \in 0..MaxNetworks
    /\ breaks \in 0..MaxBreaks

FInit ==
    /\ bridge \in Bridges
    /\ saved = NoBridge
    /\ rules = {}
    /\ fstep = "idle"
    /\ fplan = [action |-> "status", saved |-> NoBridge]
    /\ chosen = NoBridge
    /\ nth = 1
    /\ fresult = "none"
    /\ unrecorded = FALSE
    /\ networks = 0 /\ breaks = 0

\* Leaving with an error or a result.  An install that has begun to change
\* rules and did not record its bridge leaves them unaccounted for.
Leave(result) ==
    /\ fstep' = "idle"
    /\ fresult' = result
    /\ unrecorded' = (unrecorded \/ (result = "failed" /\ fplan.action = "install"
                        /\ fstep \in {"clear", "rules", "record"}))

\* PlanForwarding: reads the state file, without root and before preflight.
PlanForwarding(action) ==
    /\ fstep = "idle"
    /\ fplan' = [action |-> action, saved |-> saved]
    /\ fstep' = "discover"
    /\ chosen' = NoBridge /\ nth' = 1 /\ fresult' = "none"
    /\ UNCHANGED <<bridge, saved, rules, unrecorded, networks, breaks>>

\* Mutant: uninstall works on the live bridge too.
MutantDiscovers == TRUE

\* ForwardingPlan: install always asks libvirt, the others only without a
\* saved bridge.
Discovers == fplan.action = "install" \/ fplan.saved = NoBridge

\* The head of Forwarding: firewalld must run, and a discovering run needs a
\* live bridge.  An install that finds another bridge than the saved one first
\* takes the saved one's rules away.
discoverBridge ==
    /\ fstep = "discover"
    /\ LET live == IF Discovers THEN bridge ELSE fplan.saved
       IN  IF live = NoBridge
           THEN Leave("failed") /\ UNCHANGED chosen
           ELSE /\ chosen' = live
                /\ fstep' = IF /\ fplan.action = "install"
                            /\ fplan.saved \notin {NoBridge, live}
                         THEN "clear" ELSE "rules"
                /\ UNCHANGED <<fresult, unrecorded>>
    /\ UNCHANGED <<bridge, saved, rules, fplan, nth, networks, breaks>>

Rule(b, k) == <<b, RuleOrder[k][1], RuleOrder[k][2]>>

\* removeForwardingRules, one queried and removed rule at a time.
removeForwardingRule ==
    /\ fstep = "clear"
    /\ rules' = rules \ {Rule(fplan.saved, nth)}
    /\ nth' = IF nth = 4 THEN 1 ELSE nth + 1
    /\ fstep' = IF nth = 4 THEN "rules" ELSE "clear"
    /\ UNCHANGED <<bridge, saved, fplan, chosen, fresult, unrecorded, networks, breaks>>

\* One turn of the double loop of Forwarding: query, then add, report or remove.
forwardingRule ==
    /\ fstep = "rules"
    /\ LET rule == Rule(chosen, nth)
       IN  IF fplan.action = "status" /\ rule \notin rules
           THEN Leave("failed") /\ UNCHANGED <<rules, nth>>
           ELSE /\ rules' = CASE fplan.action = "install" -> rules \cup {rule}
                              [] fplan.action = "uninstall" -> rules \ {rule}
                              [] OTHER -> rules
                /\ nth' = IF nth = 4 THEN 1 ELSE nth + 1
                /\ fstep' = IF nth = 4 THEN "record" ELSE "rules"
                /\ UNCHANGED <<fresult, unrecorded>>
    /\ UNCHANGED <<bridge, saved, fplan, chosen, networks, breaks>>

\* The tail of Forwarding: the state file is written or removed last.
recordBridge ==
    /\ fstep = "record"
    /\ saved' = CASE fplan.action = "install" -> chosen
                  [] fplan.action = "uninstall" -> NoBridge
                  [] OTHER -> saved
    /\ Leave(CASE fplan.action = "install" -> "installed"
               [] fplan.action = "uninstall" -> "removed"
               [] OTHER -> "present")
    /\ UNCHANGED <<bridge, rules, fplan, chosen, nth, networks, breaks>>

\* A crash, or a firewall or libvirt command that fails.
Break ==
    /\ fstep # "idle"
    /\ breaks < MaxBreaks /\ breaks' = breaks + 1
    /\ Leave("failed")
    /\ UNCHANGED <<bridge, saved, rules, fplan, chosen, nth, networks>>

\* The operator destroys the network or defines it again, on any free bridge.
Redefine ==
    /\ networks < MaxNetworks /\ networks' = networks + 1
    /\ bridge' \in (Bridges \cup {NoBridge}) \ {bridge}
    /\ UNCHANGED <<saved, rules, fstep, fplan, chosen, nth, fresult, unrecorded, breaks>>

\* firewall-cmd --reload: the runtime rules become the permanent ones.
ReloadFirewall ==
    /\ rules' = {r \in rules : r[2] = "permanent"} \cup
                {<<r[1], "runtime", r[3]>> : r \in {q \in rules : q[2] = "permanent"}}
    /\ rules' # rules
    /\ UNCHANGED <<bridge, saved, fstep, fplan, chosen, nth, fresult, unrecorded, networks, breaks>>

FSteps == discoverBridge \/ removeForwardingRule \/ forwardingRule \/ recordBridge

FNext ==
    \/ \E action \in Actions : PlanForwarding(action)
    \/ FSteps
    \/ Break \/ Redefine \/ ReloadFirewall

-----------------------------------------------------------------------------
\* A finished uninstall leaves no Atum rule in the firewall, on whatever bridge
\* the network had when it was installed and whatever it has now, as long as no
\* install was cut off before it recorded its bridge (Forwarding works on the
\* saved bridge, not the live one).
UninstallClearsRules ==
    [][(fresult' = "removed" /\ fstep # "idle" /\ ~unrecorded) => rules' = {}]_fvars

=============================================================================
