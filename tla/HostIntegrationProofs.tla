----------------------- MODULE HostIntegrationProofs ------------------------
(***************************************************************************)
(* Proofs about the workstation integration, for any facts, roots,         *)
(* bridges, directories and projects and any number of failures and        *)
(* changes by others: what a reported success says of the host, and what   *)
(* the three uninstall commands take away.                                 *)
(***************************************************************************)
EXTENDS HostIntegration, TLAPS

-----------------------------------------------------------------------------
(* The host: HostAccess.                                                   *)

(* The steps of an apply during which its DNS observation may run. *)
AfterObserve == {"ca_compare", "ca_auth", "ca_write", "ca_update", "ca_check", "ca_https",
                 "wait", "final"}

(* What a command that nobody disturbs knows of the host at each step. *)
Known ==
  /\ pc \in AfterObserve \cup {"observe"} => cmd.dry \/ DNSExact
  /\ pc \in {"ca_auth", "ca_write", "ca_update", "ca_check", "ca_https"} => ~cmd.dry /\ cert = root
  /\ pc \in {"ca_update", "ca_check", "ca_https"} => anchor = cert
  /\ pc \in {"wait", "final"} => cmd.dry \/ (anchor = root /\ trusted = root)
  /\ pc = "final" => obs = "exact"
  /\ obs = "exact" => cmd.dry \/ (DNSExact /\ loaded = facts)
  /\ pc = "un_remove_dns" => dropIn = plan.resolver
  /\ pc \in {"un_remove_dns", "un_remove_ca"} => anchor = plan.trust

HostInv ==
  /\ obs # "off" => pc \in AfterObserve
  /\ meddled \/ Known

(* A command that ends knows nothing any more. *)
LEMMA EndKnows == ASSUME NEW r, End(r) PROVE HostInv'
  BY ZenonT(30) DEF End, HostInv, Known, AfterObserve

LEMMA FailedKnows == ASSUME NEW s, Failed(s) PROVE HostInv'
  BY Zenon, EndKnows DEF Failed

(* Every step keeps it. *)
LEMMA HostStep == HostInv /\ [Next]_vars => HostInv'
<1> SUFFICES ASSUME HostInv, [Next]_vars PROVE HostInv'
  OBVIOUS
<1> USE DEF HostInv, Known, AfterObserve, host, world, control, bounds, Goto, DNSExact
<1>1. ASSUME NEW n \in Commands, NEW dry \in BOOLEAN, Start(n, dry) PROVE HostInv'
  BY ZenonT(30), <1>1 DEF Start, Commands
<1>2. CASE requireNativePlatform
  BY ZenonT(30), <1>2, FailedKnows DEF requireNativePlatform
<1>3. CASE inspectDNS
  BY ZenonT(30), <1>3, EndKnows DEF inspectDNS, AfterDNS
<1>4. CASE Authorize("dns_auth", "dns_write")
  BY ZenonT(30), <1>4, EndKnows, FailedKnows DEF Authorize
<1>4a. CASE Authorize("ca_auth", "ca_write")
  BY ZenonT(30), <1>4a, EndKnows, FailedKnows DEF Authorize
<1>4b. CASE Authorize("un_auth", "un_replan")
  BY ZenonT(30), <1>4b, EndKnows, FailedKnows DEF Authorize
<1>5. CASE writeDNS
  BY ZenonT(30), <1>5, EndKnows DEF writeDNS
<1>6. CASE reloadDNS
  BY ZenonT(30), <1>6, FailedKnows DEF reloadDNS
<1>7. CASE verifyDNS
  BY ZenonT(30), <1>7, EndKnows DEF verifyDNS, AfterDNS
<1>8. CASE startObservation
  BY ZenonT(30), <1>8 DEF startObservation
<1>9. CASE compareCA
  BY ZenonT(30), <1>9, EndKnows DEF compareCA
<1>10. CASE writeCA
  BY ZenonT(30), <1>10, EndKnows DEF writeCA
<1>11. CASE updateTrust
  BY ZenonT(30), <1>11, FailedKnows DEF updateTrust
<1>12. CASE checkCA
  BY ZenonT(30), <1>12, EndKnows DEF checkCA
<1>13. CASE verifyHTTPS
  BY ZenonT(30), <1>13, EndKnows DEF verifyHTTPS
<1>14. CASE waitDNS
  BY ZenonT(30), <1>14, EndKnows DEF waitDNS
<1>15. CASE finishApply
  BY ZenonT(30), <1>15, EndKnows DEF finishApply
<1>16. CASE planRemoval
  BY ZenonT(30), <1>16, EndKnows DEF planRemoval
<1>17. CASE replanRemoval
  <2>1. PlanUninstall = plan => dropIn = plan.resolver /\ anchor = plan.trust
    BY SMTT(30) DEF PlanUninstall
  <2> QED
    BY ZenonT(30), <1>17, <2>1, EndKnows DEF replanRemoval
<1>18. CASE removeDropIn
  BY ZenonT(30), <1>18, EndKnows DEF removeDropIn
<1>19. CASE removeAnchor
  BY ZenonT(30), <1>19, EndKnows DEF removeAnchor
<1>20. CASE reloadRemoved
  BY ZenonT(30), <1>20, FailedKnows DEF reloadRemoved
<1>21. CASE updateRemoved
  BY ZenonT(30), <1>21, FailedKnows DEF updateRemoved
<1>22. CASE checkRemoved
  BY ZenonT(30), <1>22, EndKnows DEF checkRemoved
<1>23. CASE probeDNS
  BY ZenonT(30), <1>23 DEF probeDNS, LookupsExact
<1>24. CASE observationDeadline
  BY ZenonT(30), <1>24 DEF observationDeadline
<1>25. CASE refreshFails
  BY ZenonT(30), <1>25 DEF refreshFails, Fault
<1>26. CASE Outside
  BY ZenonT(30), <1>26 DEF Outside, Meddle
<1>27. CASE Crash
  BY ZenonT(30), <1>27, EndKnows DEF Crash
<1>28. CASE UNCHANGED vars
  BY ZenonT(30), <1>28 DEF vars
<1> HIDE DEF HostInv
<1> QED
  BY ZenonT(60), <1>1, <1>2, <1>3, <1>4, <1>4a, <1>4b, <1>5, <1>6, <1>7, <1>8, <1>9, <1>10, <1>11,
     <1>12, <1>13, <1>14, <1>15, <1>16, <1>17, <1>18, <1>19, <1>20, <1>21, <1>22, <1>23, <1>24,
     <1>25, <1>26, <1>27, <1>28 DEF Next, Steps

(* What an undisturbed step of a command does, from what it knows. *)
LEMMA HostActs ==
  ASSUME HostInv, Next, ~meddled
  PROVE  /\ Ends({"installed", "applied"}) =>
              /\ anchor' = root' /\ trusted' = root'
              /\ dropIn' = facts'
              /\ outcome' = "applied" => loaded' = facts'
         /\ (pc = "un_remove_dns" /\ dropIn' # dropIn) => dropIn = plan.resolver
         /\ (pc = "un_remove_ca" /\ anchor' # anchor) => anchor = plan.trust
<1>1. (pc = "un_remove_dns" => dropIn = plan.resolver) /\ (pc = "un_remove_ca" => anchor = plan.trust)
  BY ZenonT(30) DEF HostInv, Known
<1>2. ASSUME Ends({"installed", "applied"})
      PROVE  /\ anchor' = root' /\ trusted' = root' /\ dropIn' = facts'
             /\ outcome' = "applied" => loaded' = facts'
  <2> USE DEF Ends, End, Goto, Failed, control
  <2>a. ~requireNativePlatform /\ ~inspectDNS /\ ~writeDNS /\ ~reloadDNS /\ ~verifyDNS
    BY ZenonT(60), <1>2 DEF requireNativePlatform, inspectDNS, writeDNS, reloadDNS, verifyDNS,
       AfterDNS
  <2>b. /\ ~Authorize("dns_auth", "dns_write") /\ ~Authorize("ca_auth", "ca_write")
        /\ ~Authorize("un_auth", "un_replan")
    BY ZenonT(60), <1>2 DEF Authorize
  <2>c. ~startObservation /\ ~compareCA /\ ~writeCA /\ ~updateTrust /\ ~checkCA /\ ~waitDNS
    BY ZenonT(60), <1>2 DEF startObservation, compareCA, writeCA, updateTrust, checkCA, waitDNS
  <2>d. ~planRemoval /\ ~replanRemoval /\ ~removeDropIn /\ ~removeAnchor
    BY ZenonT(60), <1>2 DEF planRemoval, replanRemoval, removeDropIn, removeAnchor
  <2>e. ~reloadRemoved /\ ~updateRemoved /\ ~checkRemoved
    BY ZenonT(60), <1>2 DEF reloadRemoved, updateRemoved, checkRemoved
  <2>f. ~probeDNS /\ ~observationDeadline /\ ~refreshFails /\ ~Outside /\ ~Crash
    BY ZenonT(60), <1>2 DEF probeDNS, observationDeadline, refreshFails, Outside, Crash
  <2>g. ASSUME NEW n \in Commands, NEW dry \in BOOLEAN, Start(n, dry) PROVE FALSE
    BY ZenonT(60), <1>2, <2>g DEF Start
  <2>1. verifyHTTPS \/ finishApply
    BY ZenonT(60), <2>a, <2>b, <2>c, <2>d, <2>e, <2>f, <2>g DEF Next, Steps
  <2>2. CASE verifyHTTPS
    BY ZenonT(30), <1>2, <2>2 DEF verifyHTTPS, Ends, End, Goto, HostInv, Known, AfterObserve,
       DNSExact, host, world, control
  <2>3. CASE finishApply
    BY ZenonT(30), <1>2, <2>3 DEF finishApply, Ends, End, HostInv, Known, AfterObserve, DNSExact,
       host, world
  <2> QED
    BY Zenon, <2>1, <2>2, <2>3
<1> QED
  BY Zenon, <1>1, <1>2

(* A command that reports success describes a live host, whatever the facts *)
(* and roots and however many commands were cut short before it.            *)
THEOREM SuccessAlwaysLive == Spec => SuccessIsLive
<1>1. Init => HostInv
  BY ZenonT(30) DEF Init, HostInv, Known, AfterObserve
<1>2. HostInv /\ [Next]_vars =>
        [(Ends({"installed", "applied"}) /\ ~meddled) =>
           /\ anchor' = root' /\ trusted' = root'
           /\ dropIn' = facts'
           /\ outcome' = "applied" => loaded' = facts']_vars
  BY ZenonT(30), HostActs
<1> QED
  BY <1>1, <1>2, HostStep, PTL DEF Spec, SuccessIsLive

-----------------------------------------------------------------------------
(* The firewall: LibvirtForwarding.                                        *)

(* The four rules of a bridge; a reload copies the first two to the last.   *)
LEMMA RuleShape ==
  ASSUME NEW b, NEW k \in 1..4
  PROVE  /\ Rule(b, k)[1] = b /\ Rule(b, k) \in RulesOf(b)
         /\ Rule(b, k)[2] = "permanent" =>
              k \in 1..2 /\ <<b, "runtime", Rule(b, k)[3]>> = Rule(b, k + 2)
<1>1. CASE k = 1
  BY SMTT(30), <1>1 DEF Rule, RulesOf, RuleOrder
<1>2. CASE k = 2
  BY SMTT(30), <1>2 DEF Rule, RulesOf, RuleOrder
<1>3. CASE k = 3
  BY SMTT(30), <1>3 DEF Rule, RulesOf, RuleOrder
<1>4. CASE k = 4
  BY SMTT(30), <1>4 DEF Rule, RulesOf, RuleOrder
<1> QED
  BY SMTT(30), <1>1, <1>2, <1>3, <1>4

LEMMA RulesByPlace ==
  ASSUME NEW b, NEW r \in RulesOf(b)
  PROVE  \E k \in 1..4 : r = Rule(b, k)
  BY Zenon DEF RulesOf, Rule

(* Which rules firewalld can have at each step, by the state file.          *)
FwdInv ==
  /\ FTypeOK
  /\ fstep # "idle" => fresult = "none"
  /\ fstep = "discover" => nth = 1
  /\ fstep \in {"clear", "rules", "record"} => chosen # NoBridge
  /\ \/ unrecorded
     \/ /\ fstep # "idle" => fplan.saved = saved
        /\ fstep \in {"idle", "discover"} \/ fplan.action # "install" => \A r \in rules : r[1] = saved
        /\ fstep = "clear" => fplan.action = "install"
        /\ fstep = "clear" => \A r \in rules : \E k \in nth..4 : r = Rule(saved, k)
        /\ fstep \in {"rules", "record"} /\ fplan.action = "install" => \A r \in rules : r[1] = chosen
        /\ fstep = "rules" /\ fplan.action = "uninstall" =>
             \A r \in rules : \E k \in nth..4 : r = Rule(chosen, k)
        /\ fstep = "record" /\ fplan.action = "uninstall" => rules = {}

(* A reload of the firewall keeps what is known of the rules.               *)
LEMMA ReloadKeeps ==
  ASSUME ReloadFirewall, rules \subseteq UNION {RulesOf(b) : b \in Bridges}
  PROVE  /\ rules' \subseteq UNION {RulesOf(b) : b \in Bridges}
         /\ \A b : (\A r \in rules : r[1] = b) => (\A r \in rules' : r[1] = b)
         /\ \A b : \A n \in 1..4 : (\A r \in rules : \E k \in n..4 : r = Rule(b, k))
                                => (\A r \in rules' : \E k \in n..4 : r = Rule(b, k))
<1>1. ASSUME NEW q \in rules'
      PROVE  q \in rules \/ \E r \in rules : r[2] = "permanent" /\ q = <<r[1], "runtime", r[3]>>
  BY Zenon DEF ReloadFirewall
<1>2. ASSUME NEW b, NEW r \in RulesOf(b), r[2] = "permanent", NEW q, q = <<r[1], "runtime", r[3]>>
      PROVE  q \in RulesOf(b) /\ q[1] = b /\ r[1] = b
  <2>1. PICK k \in 1..4 : r = Rule(b, k)
    BY Zenon, RulesByPlace
  <2>2. k + 2 \in 1..4 /\ q = Rule(b, k + 2)
    BY SMTT(30), <1>2, <2>1, RuleShape
  <2> QED
    BY Zenon, <2>1, <2>2, RuleShape
<1>3. ASSUME NEW q \in rules' PROVE \E b \in Bridges : q \in RulesOf(b)
  <2>1. CASE q \in rules
    BY Zenon, <2>1
  <2>2. ASSUME NEW r \in rules, r[2] = "permanent", q = <<r[1], "runtime", r[3]>>
        PROVE  \E b \in Bridges : q \in RulesOf(b)
    <3>1. PICK b \in Bridges : r \in RulesOf(b)
      BY Zenon
    <3> QED
      BY SMTT(30), <1>2, <2>2, <3>1
  <2> QED
    BY Zenon, <1>1, <2>1, <2>2
<1>4. ASSUME NEW b, \A r \in rules : r[1] = b PROVE \A r \in rules' : r[1] = b
  BY SMTT(30), <1>1, <1>4
<1>5. ASSUME NEW b, NEW n \in 1..4, \A r \in rules : \E k \in n..4 : r = Rule(b, k), NEW q \in rules'
      PROVE  \E k \in n..4 : q = Rule(b, k)
  <2>1. CASE q \in rules
    BY Zenon, <1>5, <2>1
  <2>2. CASE \E r \in rules : r[2] = "permanent" /\ q = <<r[1], "runtime", r[3]>>
    <3>1. PICK r \in rules : r[2] = "permanent" /\ q = <<r[1], "runtime", r[3]>>
      BY Zenon, <2>2
    <3>2. PICK k \in n..4 : r = Rule(b, k)
      BY Zenon, <1>5
    <3>3. k \in 1..4
      BY SMTT(30)
    <3>4. k + 2 \in n..4 /\ q = Rule(b, k + 2)
      BY SMTT(30), <3>1, <3>2, <3>3, RuleShape
    <3> QED
      BY Zenon, <3>4
  <2> QED
    BY Zenon, <1>1, <2>1, <2>2
<1> QED
  BY Zenon, <1>3, <1>4, <1>5

(* Every step keeps it. *)
LEMMA FwdStep == FwdInv /\ [FNext]_fvars => FwdInv'
<1> SUFFICES ASSUME FwdInv, [FNext]_fvars PROVE FwdInv'
  OBVIOUS
<1>0. FTypeOK
  BY DEF FwdInv
<1>t. \A r \in rules : \E b \in Bridges : \E k \in 1..4 : r = Rule(b, k) /\ r[1] = b
  <2>1. ASSUME NEW r \in rules
        PROVE  \E b \in Bridges : \E k \in 1..4 : r = Rule(b, k) /\ r[1] = b
    <3>1. PICK b \in Bridges : r \in RulesOf(b)
      BY Zenon, <1>0 DEF FTypeOK
    <3>2. PICK k \in 1..4 : r = Rule(b, k)
      BY Zenon, <3>1, RulesByPlace
    <3> QED
      BY Zenon, <3>2, RuleShape
  <2> QED
    BY Zenon, <2>1
<1>1. ASSUME NEW a \in Actions, PlanForwarding(a) PROVE FwdInv'
  BY SMTT(30), <1>1 DEF PlanForwarding, FwdInv, FTypeOK
<1>2. CASE discoverBridge
  <2>1. nth = 1
    BY Zenon, <1>2 DEF discoverBridge, FwdInv
  <2>2. FTypeOK'
    BY SMTT(30), <1>2 DEF discoverBridge, Leave, FwdInv, FTypeOK
  <2>3. ~unrecorded /\ saved # NoBridge => \A r \in rules : r[1] = saved /\ \E k \in nth..4 : r = Rule(saved, k)
    BY ZenonT(30), <1>2, <1>t, <2>1 DEF discoverBridge, FwdInv
  <2>4. ~unrecorded /\ saved = NoBridge => rules = {}
    BY ZenonT(30), <1>2, <1>t, ForwardingAssumption DEF discoverBridge, FwdInv
  <2>5. ~unrecorded => fplan.saved = saved
    BY ZenonT(30), <1>2 DEF discoverBridge, FwdInv
  <2>6. CASE fstep' = "idle"
    BY ZenonT(30), <1>2, <2>2, <2>6 DEF discoverBridge, Leave, FwdInv
  <2>7. CASE fstep' = "clear"
    BY ZenonT(30), <1>2, <2>1, <2>2, <2>3, <2>5, <2>7 DEF discoverBridge, Leave, FwdInv
  <2>8. CASE fstep' = "rules"
    <3>1. /\ chosen' # NoBridge /\ fresult' = "none"
          /\ UNCHANGED <<unrecorded, rules, saved, fplan, nth>>
          /\ fplan.action = "install" => fplan.saved \in {NoBridge, chosen'}
          /\ fplan.action # "install" => fplan.saved \in {NoBridge, chosen'}
      BY ZenonT(30), <1>2, <2>8 DEF discoverBridge, Leave, FwdInv, Discovers
    <3>2. ~unrecorded => \A r \in rules : /\ r[1] = saved /\ r[1] = chosen'
                                          /\ \E k \in nth..4 : r = Rule(chosen', k)
      BY ZenonT(30), <2>3, <2>4, <2>5, <3>1
    <3> QED
      BY ZenonT(30), <2>2, <2>5, <2>8, <3>1, <3>2 DEF FwdInv
  <2> QED
    BY ZenonT(30), <1>2, <2>6, <2>7, <2>8 DEF discoverBridge, Leave
<1>3. CASE removeForwardingRule
  <2>1. nth \in 1..4 /\ rules' \subseteq rules /\ chosen # NoBridge /\ fresult = "none"
    BY ZenonT(30), <1>3 DEF removeForwardingRule, FwdInv, FTypeOK
  <2>2. FTypeOK'
    BY SMTT(30), <1>3 DEF removeForwardingRule, FwdInv, FTypeOK
  <2>3. ASSUME ~unrecorded
        PROVE  /\ fplan.saved = saved /\ fplan.action = "install"
               /\ \A r \in rules' : \E k \in nth..4 : k # nth /\ r = Rule(saved, k)
    BY ZenonT(30), <1>3, <2>3 DEF removeForwardingRule, FwdInv
  <2>4. CASE nth = 4
    <3>1. ~unrecorded => rules' = {}
      BY SMTT(30), <2>3, <2>4
    <3> QED
      BY ZenonT(30), <1>3, <2>1, <2>2, <2>3, <2>4, <3>1 DEF removeForwardingRule, FwdInv
  <2>5. CASE nth # 4
    <3>1. ~unrecorded => \A r \in rules' : \E k \in (nth + 1)..4 : r = Rule(saved, k)
      <4>1. \A k \in nth..4 : k # nth => k \in (nth + 1)..4
        BY SMTT(30), <2>1
      <4> QED
        BY Zenon, <2>3, <4>1
    <3> QED
      BY ZenonT(30), <1>3, <2>1, <2>2, <2>3, <2>5, <3>1 DEF removeForwardingRule, FwdInv
  <2> QED
    BY Zenon, <2>4, <2>5
<1>4. CASE forwardingRule
  <2>1. nth \in 1..4 /\ chosen # NoBridge /\ chosen \in Bridges /\ fresult = "none"
    BY ZenonT(30), <1>4 DEF forwardingRule, FwdInv, FTypeOK
  <2>2. Rule(chosen, nth)[1] = chosen /\ Rule(chosen, nth) \in UNION {RulesOf(b) : b \in Bridges}
    BY Zenon, <2>1, RuleShape
  <2>3. CASE fplan.action = "status" /\ Rule(chosen, nth) \notin rules
    <3>1. FTypeOK'
      BY SMTT(30), <1>4, <2>3 DEF forwardingRule, Leave, FwdInv, FTypeOK
    <3> QED
      BY ZenonT(30), <1>4, <2>3, <3>1 DEF forwardingRule, Leave, FwdInv
  <2>4. CASE ~(fplan.action = "status" /\ Rule(chosen, nth) \notin rules)
    <3>1. /\ rules' = CASE fplan.action = "install" -> rules \cup {Rule(chosen, nth)}
                        [] fplan.action = "uninstall" -> rules \ {Rule(chosen, nth)}
                        [] OTHER -> rules
          /\ nth' = IF nth = 4 THEN 1 ELSE nth + 1
          /\ fstep = "rules" /\ fstep' = IF nth = 4 THEN "record" ELSE "rules"
          /\ UNCHANGED <<bridge, saved, fplan, chosen, networks, breaks, fresult, unrecorded>>
      BY ZenonT(30), <1>4, <2>4 DEF forwardingRule
    <3>2. FTypeOK'
      BY SMTT(30), <2>2, <3>1 DEF FwdInv, FTypeOK
    <3>3. CASE fplan.action = "install"
      BY ZenonT(30), <2>1, <2>2, <3>1, <3>2, <3>3 DEF FwdInv
    <3>4. CASE fplan.action = "uninstall"
      <4>1. rules' = rules \ {Rule(chosen, nth)}
        BY Zenon, <3>1, <3>4
      <4>2. ~unrecorded => \A r \in rules' : \E k \in nth..4 : k # nth /\ r = Rule(chosen, k)
        BY ZenonT(30), <3>1, <3>4, <4>1 DEF FwdInv
      <4>3. ~unrecorded => fplan.saved = saved /\ \A r \in rules' : r[1] = saved
        BY ZenonT(30), <3>1, <3>4, <4>1 DEF FwdInv
      <4>4. nth = 4 /\ ~unrecorded => rules' = {}
        BY SMTT(30), <4>2
      <4>5. nth # 4 /\ ~unrecorded => \A r \in rules' : \E k \in (nth + 1)..4 : r = Rule(chosen, k)
        <5>1. nth # 4 => \A k \in nth..4 : k # nth => k \in (nth + 1)..4
          BY SMTT(30), <2>1
        <5> QED
          BY Zenon, <4>2, <5>1
      <4> QED
        BY ZenonT(30), <2>1, <3>1, <3>2, <3>4, <4>3, <4>4, <4>5 DEF FwdInv
    <3>5. CASE fplan.action = "status"
      BY ZenonT(30), <2>1, <3>1, <3>2, <3>5 DEF FwdInv
    <3> QED
      BY ZenonT(30), <1>0, <3>3, <3>4, <3>5 DEF FTypeOK, Actions
  <2> QED
    BY Zenon, <2>3, <2>4
<1>5. CASE recordBridge
  <2>1. FTypeOK'
    BY SMTT(30), <1>5 DEF recordBridge, Leave, FwdInv, FTypeOK, Actions
  <2>2. fplan.action \in {"install", "uninstall", "status"}
    BY ZenonT(30), <1>0 DEF FTypeOK, Actions
  <2>3. unrecorded' = unrecorded /\ fstep' = "idle"
    BY ZenonT(30), <1>0, <1>5, <2>2 DEF recordBridge, Leave, FTypeOK
  <2>4. ~unrecorded => \A r \in rules : r[1] = saved'
    BY ZenonT(30), <1>5, <2>2 DEF recordBridge, FwdInv
  <2> QED
    BY ZenonT(30), <1>5, <2>1, <2>3, <2>4 DEF recordBridge, FwdInv
<1>6. CASE Break
  <2>1. FTypeOK'
    BY SMTT(30), <1>6, ForwardingAssumption DEF Break, Leave, FwdInv, FTypeOK
  <2> QED
    BY ZenonT(30), <1>6, <2>1 DEF Break, Leave, FwdInv, FTypeOK
<1>7. CASE Redefine
  <2>1. FTypeOK'
    BY SMTT(30), <1>7, ForwardingAssumption DEF Redefine, FwdInv, FTypeOK
  <2> QED
    BY ZenonT(30), <1>7, <2>1 DEF Redefine, FwdInv
<1>8. CASE ReloadFirewall
  <2>1. rules \subseteq UNION {RulesOf(b) : b \in Bridges} /\ nth \in 1..4
    BY Zenon, <1>0 DEF FTypeOK
  <2>2. FTypeOK'
    BY ZenonT(30), <1>0, <1>8, <2>1, ReloadKeeps DEF ReloadFirewall, FTypeOK
  <2>3. rules = {} => rules' = {}
    BY Zenon, <1>8 DEF ReloadFirewall
  <2>4. \A b : (\A r \in rules : r[1] = b) => (\A r \in rules' : r[1] = b)
    BY Zenon, <1>8, <2>1, ReloadKeeps
  <2>5. \A b : (\A r \in rules : \E k \in nth..4 : r = Rule(b, k))
              => (\A r \in rules' : \E k \in nth..4 : r = Rule(b, k))
    BY Zenon, <1>8, <2>1, ReloadKeeps
  <2>6. UNCHANGED <<saved, fstep, fplan, chosen, nth, fresult, unrecorded>>
    BY Zenon, <1>8 DEF ReloadFirewall
  <2> QED
    BY ZenonT(60), <2>2, <2>3, <2>4, <2>5, <2>6 DEF FwdInv
<1>9. CASE UNCHANGED fvars
  BY ZenonT(30), <1>9 DEF fvars, FwdInv, FTypeOK
<1> QED
  BY ZenonT(30), <1>1, <1>2, <1>3, <1>4, <1>5, <1>6, <1>7, <1>8, <1>9 DEF FNext, FSteps

LEMMA FwdBegins == FInit => FwdInv
<1>1. FInit => fplan \in [action : Actions, saved : Bridges \cup {NoBridge}]
  BY SMTT(30) DEF FInit, Actions
<1>2. 0 \in 0..MaxNetworks /\ 0 \in 0..MaxBreaks /\ 1 \in 1..4
  BY SMTT(30), ForwardingAssumption
<1> QED
  BY ZenonT(30), <1>1, <1>2 DEF FInit, FwdInv, FTypeOK

(* A finished uninstall leaves no rule of Atum in the firewall, whatever    *)
(* bridge the network had and has, unless an install was cut off before it  *)
(* recorded its bridge.                                                     *)
LEMMA FwdClears ==
  ASSUME FwdInv, FNext, fresult' = "removed", fstep # "idle", ~unrecorded
  PROVE  rules' = {}
<1>1. fresult = "none" /\ fplan.action \in {"install", "uninstall", "status"}
  BY ZenonT(30) DEF FwdInv, FTypeOK, Actions
<1>2. recordBridge
  BY ZenonT(60), <1>1 DEF FNext, FSteps, PlanForwarding, discoverBridge, removeForwardingRule,
     forwardingRule, Break, Redefine, ReloadFirewall, Leave
<1>3. fplan.action = "uninstall"
  BY ZenonT(30), <1>1, <1>2 DEF recordBridge, Leave
<1> QED
  BY ZenonT(30), <1>2, <1>3 DEF recordBridge, FwdInv

-----------------------------------------------------------------------------
(* The search grants: LibvirtPermissions.                                  *)

(* While the modes of the directories stay as they are: the ACLs are the    *)
(* owner's, but for the directories of the snapshot, which holds the        *)
(* owner's ACL of every restricted ancestor of its project.                 *)
Kept ==
  /\ snapshot = NoState => acl = original
  /\ snapshot # NoState =>
       /\ DOMAIN snapshot.snap = {d \in Ancestors[snapshot.project] : ~original[d].open}
       /\ \A d \in DOMAIN snapshot.snap : snapshot.snap[d] = original[d]
       /\ \A d \in Dirs : /\ acl[d].open = original[d].open
                          /\ d \notin DOMAIN snapshot.snap => acl[d] = original[d]
  /\ pstep = "snapshot" => snapshot = NoState /\ found = Restricted(prun.project)
  /\ pstep = "grant" => snapshot # NoState /\ found \subseteq DOMAIN snapshot.snap
  /\ pstep = "forget" => acl = original
  /\ pstep = "unrule" => snapshot = NoState

PermInv ==
  /\ PTypeOK
  /\ pstep # "idle" => presult = "none"
  /\ drifted \/ Kept

LEMMA PermBegins == PInit => PermInv
<1> SUFFICES ASSUME PInit PROVE PermInv
  OBVIOUS
<1>1. acl \in [Dirs -> Entry]
  <2>1. [open : BOOLEAN, qemu : {FALSE}] \subseteq Entry
    BY ZenonT(30) DEF Entry
  <2> QED
    BY ZenonT(30), <2>1 DEF PInit
<1>2. prun \in [action : {"install", "uninstall"}, project : Projects]
  BY SMTT(30) DEF PInit
<1>3. 0 \in 0..MaxChmods /\ 0 \in 0..MaxStops
  BY SMTT(30), PermissionsAssumption
<1> QED
  BY ZenonT(30), <1>1, <1>2, <1>3 DEF PInit, PermInv, PTypeOK, Kept

(* The steps that change neither an ACL nor the snapshot. *)
PermQuiet == UNCHANGED <<acl, snapshot, original, drifted>>

LEMMA PermStep == PermInv /\ [PNext]_pvars => PermInv'
<1> SUFFICES ASSUME PermInv, [PNext]_pvars PROVE PermInv'
  OBVIOUS
<1>0. /\ PTypeOK /\ acl \in [Dirs -> Entry] /\ original \in [Dirs -> Entry]
      /\ prun.project \in Projects /\ Ancestors[prun.project] \subseteq Dirs
      /\ snapshot # NoState => snapshot.project \in Projects
  BY ZenonT(30), PermissionsAssumption DEF PermInv, PTypeOK
<1>1. ASSUME NEW a \in {"install", "uninstall"}, NEW p \in Projects, StartPermissions(a, p) PROVE PermInv'
  BY ZenonT(30), <1>1 DEF StartPermissions, PermInv, PTypeOK, Kept
<1>2. CASE installRule
  BY ZenonT(30), <1>2 DEF installRule, Advance, PermInv, PTypeOK, Kept
<1>3. CASE inspectAncestors
  <2>1. found' = Restricted(prun.project) /\ found' \subseteq Dirs /\ PermQuiet
    BY ZenonT(30), <1>0, <1>3 DEF inspectAncestors, Restricted, PermQuiet
  <2>2. PTypeOK' /\ (pstep' # "idle" => presult' = "none")
    BY ZenonT(30), <1>0, <1>3, <2>1 DEF inspectAncestors, Return, Advance, PermInv, PTypeOK
  <2>3. pstep' = "snapshot" => snapshot = NoState
    BY ZenonT(30), <1>3 DEF inspectAncestors, Return, Advance
  <2>4. pstep' = "grant" => snapshot # NoState /\ snapshot.project = prun.project
    BY ZenonT(30), <1>3 DEF inspectAncestors, Return, Advance, Owned
  <2>5. pstep' \in {"idle", "snapshot", "grant"} /\ prun' = prun
    BY ZenonT(30), <1>3 DEF inspectAncestors, Return, Advance
  <2>6. ~drifted /\ pstep' = "grant" => found' \subseteq DOMAIN snapshot.snap
    BY ZenonT(30), <1>0, <2>1, <2>4 DEF PermInv, Kept, Restricted
  <2>7. Restricted(prun.project)' = Restricted(prun.project)
    BY Zenon, <2>1, <2>5 DEF Restricted, PermQuiet
  <2> QED
    BY ZenonT(30), <2>1, <2>2, <2>3, <2>4, <2>5, <2>6, <2>7 DEF PermInv, Kept, PermQuiet
<1>4. CASE snapshotACL
  <2> DEFINE s == [d \in found |-> acl[d]]
  <2>1. snapshot' = [project |-> prun.project, snap |-> s] /\ UNCHANGED <<acl, original, drifted, found, prun>>
    BY ZenonT(30), <1>4 DEF snapshotACL
  <2>2. s \in Snapshots /\ found \in SUBSET Dirs
    <3>1. s \in [found -> Entry] /\ found \in SUBSET Dirs
      BY SMTT(30), <1>0 DEF PTypeOK
    <3> QED
      BY Zenon, <3>1 DEF Snapshots
  <2>3. snapshot'.project = prun.project /\ snapshot'.snap = s
    BY SMTT(30), <2>1
  <2>4. snapshot' # NoState
    <3>1. snapshot' \in [project : Projects, snap : Snapshots]
      BY SMTT(30), <1>0, <2>1, <2>2
    <3> QED
      BY Zenon, <3>1, PermissionsAssumption
  <2>5. PTypeOK' /\ presult' = "none" /\ pstep' = "grant"
    BY ZenonT(30), <1>0, <1>4, <2>2, <2>3 DEF snapshotACL, Advance, PermInv, PTypeOK
  <2>6. DOMAIN s = found /\ \A d \in found : s[d] = acl[d]
    BY Zenon
  <2>7. ~drifted => acl = original /\ found = {d \in Ancestors[prun.project] : ~original[d].open}
    BY ZenonT(30), <1>4 DEF snapshotACL, PermInv, Kept, Restricted
  <2> HIDE DEF s
  <2> QED
    BY ZenonT(30), <2>1, <2>3, <2>4, <2>5, <2>6, <2>7 DEF PermInv, Kept
<1>5. CASE grantSearch
  <2>1. \A d \in Dirs : [acl[d] EXCEPT !.qemu = TRUE] \in Entry /\ [acl[d] EXCEPT !.qemu = TRUE].open = acl[d].open
    <3>1. ASSUME NEW e \in Entry
          PROVE  [e EXCEPT !.qemu = TRUE] \in Entry /\ [e EXCEPT !.qemu = TRUE].open = e.open
      BY ZenonT(30) DEF Entry
    <3> QED
      BY Zenon, <1>0, <3>1
  <2>2. /\ acl' \in [Dirs -> Entry]
        /\ \A d \in Dirs : acl'[d].open = acl[d].open /\ (d \notin found => acl'[d] = acl[d])
    BY ZenonT(30), <1>0, <1>5, <2>1 DEF grantSearch
  <2>3. /\ pstep' = "idle" /\ presult' = "installed" /\ pstep = "grant"
        /\ UNCHANGED <<snapshot, polkit, prun, found, original, drifted, chmods, stops>>
    BY Zenon, <1>5 DEF grantSearch, Return
  <2>4. PTypeOK'
    BY ZenonT(30), <1>0, <2>2, <2>3 DEF PTypeOK
  <2> QED
    BY ZenonT(30), <2>2, <2>3, <2>4 DEF PermInv, Kept
<1>6. CASE restoreACL
  <2>1. CASE ~(snapshot # NoState /\ Owned)
    BY ZenonT(30), <1>6, <2>1 DEF restoreACL, Advance, Return, PermInv, PTypeOK, Kept
  <2>2. CASE snapshot # NoState /\ Owned
    <3>1. /\ acl' = [d \in Dirs |-> IF d \in DOMAIN snapshot.snap THEN snapshot.snap[d] ELSE acl[d]]
          /\ pstep' = "forget" /\ pstep = "restore"
          /\ UNCHANGED <<presult, snapshot, polkit, prun, found, original, drifted, chmods, stops>>
      BY ZenonT(30), <1>6, <2>2 DEF restoreACL, Advance
    <3>2. \A d \in DOMAIN snapshot.snap : snapshot.snap[d] \in Entry
      <4>1. PICK D \in SUBSET Dirs : snapshot.snap \in [D -> Entry]
        BY ZenonT(30), <1>0, <2>2 DEF PTypeOK, Snapshots
      <4> QED
        BY ZenonT(30), <4>1
    <3>3. acl' \in [Dirs -> Entry]
      BY ZenonT(30), <1>0, <3>1, <3>2
    <3>4. PTypeOK'
      BY ZenonT(30), <1>0, <3>1, <3>3 DEF PTypeOK
    <3>5. ~drifted => \A d \in Dirs : acl'[d] = original[d]
      BY ZenonT(30), <2>2, <3>1 DEF PermInv, Kept
    <3>6. ~drifted => acl' = original
      BY SMTT(30), <1>0, <3>3, <3>5
    <3> QED
      BY ZenonT(30), <2>2, <3>1, <3>4, <3>6 DEF PermInv, Kept
  <2> QED
    BY Zenon, <2>1, <2>2
<1>7. CASE forgetSnapshot
  BY ZenonT(30), <1>7 DEF forgetSnapshot, Advance, PermInv, PTypeOK, Kept
<1>8. CASE removeRule
  BY ZenonT(30), <1>8 DEF removeRule, Return, PermInv, PTypeOK, Kept
<1>9. CASE Stop
  <2>1. stops' \in 0..MaxStops
    BY SMTT(30), <1>0, <1>9, PermissionsAssumption DEF Stop, PTypeOK
  <2> QED
    BY ZenonT(30), <1>9, <2>1 DEF Stop, Return, PermInv, PTypeOK, Kept
<1>10. CASE Chmod
  <2>1. chmods' \in 0..MaxChmods
    BY SMTT(30), <1>0, <1>10, PermissionsAssumption DEF Chmod, PTypeOK
  <2>2. PICK d \in Dirs : acl' = [acl EXCEPT ![d].open = ~@]
    BY Zenon, <1>10 DEF Chmod
  <2>3. [acl[d] EXCEPT !.open = ~acl[d].open] \in Entry
    BY ZenonT(30), <1>0 DEF Entry
  <2>4. acl' \in [Dirs -> Entry]
    BY ZenonT(30), <1>0, <2>2, <2>3
  <2>5. PTypeOK'
    BY ZenonT(30), <1>0, <1>10, <2>1, <2>4 DEF Chmod, PTypeOK
  <2> QED
    BY ZenonT(30), <1>10, <2>5 DEF Chmod, PermInv, Kept
<1>11. CASE UNCHANGED pvars
  BY ZenonT(30), <1>11 DEF pvars, PermInv, PTypeOK, Kept, Restricted
<1> QED
  BY ZenonT(30), <1>1, <1>2, <1>3, <1>4, <1>5, <1>6, <1>7, <1>8, <1>9, <1>10, <1>11 DEF PNext,
     PSteps

LEMMA PermRestores ==
  ASSUME PermInv, PNext, presult' = "removed", pstep # "idle", ~drifted
  PROVE  acl' = original /\ ~polkit'
<1>1. presult = "none"
  BY Zenon DEF PermInv
<1>2. removeRule
  BY ZenonT(60), <1>1 DEF PNext, PSteps, StartPermissions, installRule, inspectAncestors,
     snapshotACL, grantSearch, restoreACL, forgetSnapshot, Stop, Chmod, Return, Advance
<1> QED
  BY ZenonT(30), <1>2 DEF removeRule, PermInv, Kept

-----------------------------------------------------------------------------
(* What the operator authorized, every rule of Atum and every grant: for    *)
(* any bridges, directories and projects, any number of commands, crashes   *)
(* and changes, each of the three uninstall commands that finishes took     *)
(* back what its install put there, and nothing else.                       *)
THEOREM UninstallAlwaysExact == IntegrationSpec => UninstallIsExact
<1>1. Init => HostInv
  BY ZenonT(30) DEF Init, HostInv, Known, AfterObserve
<1>2. HostInv /\ [Next]_vars =>
        [~meddled => /\ (pc = "un_remove_dns" /\ dropIn' # dropIn) => dropIn = plan.resolver
                     /\ (pc = "un_remove_ca" /\ anchor' # anchor) => anchor = plan.trust]_vars
  BY ZenonT(30), HostActs
<1>3. FwdInv /\ [FNext]_fvars =>
        [(fresult' = "removed" /\ fstep # "idle" /\ ~unrecorded) => rules' = {}]_fvars
  BY ZenonT(30), FwdClears
<1>4. PermInv /\ [PNext]_pvars =>
        [(presult' = "removed" /\ pstep # "idle" /\ ~drifted) => acl' = original /\ ~polkit']_pvars
  BY ZenonT(30), PermRestores
<1>5. Init /\ [][Next]_vars => RemovesAuthorized
  BY <1>1, <1>2, HostStep, PTL DEF RemovesAuthorized
<1>6. FInit /\ [][FNext]_fvars => UninstallClearsRules
  BY <1>3, FwdBegins, FwdStep, PTL DEF UninstallClearsRules
<1>7. PInit /\ [][PNext]_pvars => UninstallRestoresACLs
  BY <1>4, PermBegins, PermStep, PTL DEF UninstallRestoresACLs
<1> QED
  BY <1>5, <1>6, <1>7 DEF IntegrationSpec, UninstallIsExact
=============================================================================
