----------------------------- MODULE OutputParser ---------------------------
(***************************************************************************)
(* What the dashboard reads out of the output of Ansible and Terraform     *)
(* (outputParser of cli/tui/parser.go).  parser.mu makes each observed     *)
(* line, each timer callback and the end of a command one step; the timer  *)
(* that shows the current task fires on a goroutine of its own and may     *)
(* wait for the mutex while its command ends and the next one starts.  A   *)
(* line is what the patterns of the parser tell apart; events go straight  *)
(* to the rows (the queue between them is module Session).                 *)
(***************************************************************************)
EXTENDS ProgressRow, FiniteSets

CONSTANTS Playbooks,       \* the playbook runs of a session, by their rows
          Hosts,          \* the hosts Ansible names
          Domains,        \* the libvirt_domain.node[...] addresses
          ResourceLimit,  \* observedResourceLimit
          MaxLines,       \* lines observed in one session
          NoCommand       \* nothing runs, no timer

ASSUME ParserAssumption == ResourceLimit \in Nat /\ MaxLines \in Nat

VARIABLES command,   \* the playbook that runs
          started,   \* the playbooks started so far
          stage,     \* nodeStage
          nodes,     \* activeNodes
          activity,  \* parser.activity is not empty
          pointer,   \* parser.activityTimer, by the row it was made for
          armed,     \* timers that will fire
          fired,     \* callbacks that wait for parser.mu
          resources, \* the resourceSet of the node domains
          seedSeen,  \* seedActivity
          table,     \* the rows
          lines      \* lines observed so far

pVars == <<command, started, stage, nodes, activity, pointer, armed, fired, resources,
           seedSeen, table, lines>>

Stages == {"idle", "cordon", "drain", "upgrade", "uncordon"}
Seeds == {"forgejo", "harbor"}
Rows == Playbooks \union Hosts \union Seeds \union {"domains"}

ParserInit ==
    /\ command = NoCommand /\ started = {} /\ stage = "idle" /\ nodes = {}
    /\ activity = FALSE /\ pointer = NoCommand /\ armed = {} /\ fired = {}
    /\ resources = [expected |-> {}, complete |-> {}, failed |-> {}]
    /\ seedSeen = FALSE /\ table = [r \in Rows |-> "pending"] /\ lines = 0

Shows(e) == ApplyAll(table, <<e>>)
Observed == lines < MaxLines /\ lines' = lines + 1

----------------------------------------------------------------------------
(* A playbook starts: its row is opened by the release ladder.              *)
startPlaybook(c) ==
    /\ command = NoCommand /\ c \notin started
    /\ command' = c /\ started' = started \union {c} /\ table' = Shows(StartOf(c))
    /\ UNCHANGED <<stage, nodes, activity, pointer, armed, fired, resources, seedSeen, lines>>

(* observe: a TASK, PLAY or HANDLER line.                                   *)
observeTask(s) ==
    /\ command # NoCommand /\ Observed
    /\ stage' = s /\ activity' = TRUE
    /\ IF pointer = NoCommand
       THEN pointer' = command /\ armed' = armed \union {command}
       ELSE UNCHANGED <<pointer, armed>>
    /\ UNCHANGED <<command, started, nodes, fired, resources, seedSeen, table>>

StopTimer == pointer' = NoCommand /\ armed' = armed \ {pointer}

(* observe: a line that names the image being pulled.                       *)
observePull ==
    /\ command # NoCommand /\ Observed /\ activity' = FALSE /\ StopTimer
    /\ table' = Shows(UpdateOf(command, "pulling"))
    /\ UNCHANGED <<command, started, stage, nodes, fired, resources, seedSeen>>

(* 200 ms have passed; Stop no longer keeps the callback from running.      *)
timerFires(c) ==
    /\ c \in armed /\ armed' = armed \ {c} /\ fired' = fired \union {c}
    /\ UNCHANGED <<command, started, stage, nodes, activity, pointer, resources, seedSeen,
                   table, lines>>

emitActivity(c) ==
    /\ c \in fired /\ fired' = fired \ {c} /\ pointer' = NoCommand
    /\ table' = IF activity THEN Shows(UpdateOf(c, "task")) ELSE table
    /\ UNCHANGED <<command, started, stage, nodes, activity, armed, resources, seedSeen, lines>>

(* reportNode: whether the row is reported, and the active nodes after it.  *)
reportNode(host, state, active, limit) ==
    IF host \notin active /\ (state = "complete" \/ Cardinality(active) >= limit)
    THEN <<FALSE, active>>
    ELSE <<TRUE, IF state = "running" THEN active \union {host} ELSE active \ {host}>>

(* observeAnsibleResult: the host, and what the line says of it.            *)
observeAnsibleResult(host, line) ==
    LET now == IF line = "drain" \/ (stage = "cordon" /\ line \in {"poll", "async"})
               THEN "drain" ELSE stage
        state == CASE line = "fatal" -> "failed"
                   [] line \in {"retry", "poll"} -> "running"
                   [] OTHER -> IF now = "uncordon" THEN "complete" ELSE "running"
        node == reportNode(host, state, nodes, ResourceLimit)
    IN  /\ command # NoCommand /\ Observed /\ stage' = now
        /\ IF now = "idle" \/ ~node[1] THEN UNCHANGED <<nodes, table>>
           ELSE nodes' = node[2] /\ table' = Shows(Event(host, state, line, FALSE))
        /\ UNCHANGED <<command, started, activity, pointer, armed, fired, resources, seedSeen>>

Settle(err) == [r \in Rows |-> IF r \in nodes THEN IF err THEN "failed" ELSE "complete"
                               ELSE table[r]]

(* finishCommand, and the outcome the ladder then reports of the playbook.  *)
finishCommand(err) ==
    /\ command # NoCommand /\ command' = NoCommand
    /\ activity' = FALSE /\ stage' = "idle" /\ StopTimer /\ nodes' = {}
    /\ table' = ApplyAll(Settle(err), <<IF err THEN FailOf(command) ELSE DoneOf(command)>>)
    /\ UNCHANGED <<started, fired, resources, seedSeen, lines>>

----------------------------------------------------------------------------
(* Terraform.  aggregateState of the addresses seen so far.                 *)
Aggregate(set) ==
    IF set.failed # {} THEN "failed"
    ELSE IF set.expected # {} /\ set.complete = set.expected THEN "complete" ELSE "running"

updateResource(address, state) ==
    LET set == [expected |-> resources.expected \union {address},
                complete |-> IF state = "complete" THEN resources.complete \union {address}
                             ELSE resources.complete \ {address},
                failed   |-> IF state = "failed" THEN resources.failed \union {address}
                             ELSE resources.failed \ {address}]
    IN  IF address \notin resources.expected /\ Cardinality(resources.expected) >= ResourceLimit
        THEN UNCHANGED <<resources, table>>
        ELSE resources' = set /\ table' = Shows(Event("domains", Aggregate(set), state, FALSE))

(* observeTerraformEvent: planned, start, progress, complete or errored.    *)
observeTerraformEvent(address, state) ==
    /\ command = NoCommand /\ Observed /\ updateResource(address, state)
    /\ UNCHANGED <<command, started, stage, nodes, activity, pointer, armed, fired, seedSeen>>

(* The resource of the seed plane, whose own lines are better once seen.    *)
updateSeedResource(state) ==
    /\ command = NoCommand /\ Observed
    /\ table' = IF state = "running" /\ seedSeen THEN table
                ELSE [r \in Rows |-> IF r \in Seeds
                        THEN Apply(table[r], Event(r, state, "seed", FALSE)) ELSE table[r]]
    /\ UNCHANGED <<command, started, stage, nodes, activity, pointer, armed, fired, resources,
                   seedSeen>>

(* observeSeedPlane: one service's state, or a failure of both.             *)
observeSeedPlane(which, state) ==
    /\ command = NoCommand /\ Observed /\ seedSeen' = TRUE
    /\ table' = [r \in Rows |-> IF r \in which
                   THEN Apply(table[r], Event(r, state, "seed", FALSE)) ELSE table[r]]
    /\ UNCHANGED <<command, started, stage, nodes, activity, pointer, armed, fired, resources>>

(* "Apply complete!" and the change summary end the infrastructure phase.   *)
observeConverged ==
    /\ command = NoCommand /\ Observed
    /\ table' = [r \in Rows |-> IF r \in Seeds \union {"domains"}
                   THEN Apply(table[r], FinishOf("complete")) ELSE table[r]]
    /\ UNCHANGED <<command, started, stage, nodes, activity, pointer, armed, fired, resources,
                   seedSeen>>

ParserNext ==
    \/ \E c \in Playbooks : startPlaybook(c) \/ timerFires(c) \/ emitActivity(c)
    \/ \E s \in Stages : observeTask(s)
    \/ observePull
    \/ \E h \in Hosts, l \in {"ok", "fatal", "retry", "poll", "async", "drain"} :
         observeAnsibleResult(h, l)
    \/ \E err \in BOOLEAN : finishCommand(err)
    \/ \E a \in Domains, s \in {"running", "complete", "failed"} : observeTerraformEvent(a, s)
    \/ \E s \in {"running", "complete", "failed"} : updateSeedResource(s)
    \/ \E s \in {"running", "complete"}, r \in Seeds : observeSeedPlane({r}, s)
    \/ observeSeedPlane(Seeds, "failed")
    \/ observeConverged

----------------------------------------------------------------------------
(* The types.                                                               *)
ParserTypeOK ==
    /\ command \in Playbooks \union {NoCommand} /\ started \subseteq Playbooks
    /\ stage \in Stages /\ nodes \subseteq Hosts /\ activity \in BOOLEAN
    /\ pointer \in Playbooks \union {NoCommand} /\ armed \union fired \subseteq started
    /\ \A f \in DOMAIN resources : resources[f] \subseteq Domains
    /\ resources.complete \intersect resources.failed = {}
    /\ table \in [Rows -> RowStates]

(* No node row keeps running when no playbook runs: whatever the output     *)
(* said last of a host, the end of the command settles its row.             *)
NodesSettle == \A h \in Hosts : table[h] = "running" => h \in nodes /\ command # NoCommand

(* A step of the ladder that is reported complete or failed is not shown as *)
(* running again by a task timer that fired late, in this or in a later     *)
(* playbook.                                                                *)
StepsStaySettled ==
    [][\A c \in started : table[c] \in Terminal => table'[c] # "running"]_pVars

(* As long as Terraform's latest word on some domain is an error, the row   *)
(* of the domains says failed, whatever the other domains report.           *)
FailedDomainShown == resources.failed # {} => table["domains"] = "failed"
=============================================================================
