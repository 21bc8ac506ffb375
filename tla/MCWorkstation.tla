--------------------------- MODULE MCWorkstation ---------------------------
(***************************************************************************)
(* A command on the workstation: its prerequisites, the terminal it shows  *)
(* itself on, and the three parts of the workstation integration.  They    *)
(* share no file, no daemon and no variable, and the project lock keeps    *)
(* one command at a time, so each behaviour exercises one of them while    *)
(* the others stay as they were: the interleavings of two parts add        *)
(* states, not cases.                                                      *)
(***************************************************************************)
EXTENDS HostIntegration, Preflight, Session, OutputLines, OutputParser

VARIABLE focus

Focuses == {"access", "forwarding", "permissions", "preflight", "session", "lines", "parser"}
d1 == "home"
d2 == "work"
MCDirs == {d1, d2}
MCProjects == {"a", "b"}
MCAncestors == [p \in MCProjects |-> IF p = "a" THEN {d1, d2} ELSE {d1}]

frontVars == <<pfVars, sVars, lVars, pVars>>
allVars == <<hostVars, frontVars, focus>>

MCInit ==
    /\ focus \in Focuses
    /\ Init /\ FInit /\ PInit /\ PreflightInit /\ SessionInit /\ LinesInit /\ ParserInit
    /\ focus # "access" => facts = CHOOSE f \in Facts : TRUE
    /\ focus # "access" => root = CHOOSE r \in Roots : TRUE
    /\ focus # "forwarding" => bridge = CHOOSE b \in Bridges : TRUE
    /\ focus # "permissions" => prun.project = "a" /\ \A d \in Dirs : ~acl[d].open
    /\ focus # "preflight" => name = "velero" /\ ~sealed /\ broken \union hanging = {}

InAccess(A) == focus = "access" /\ A /\ UNCHANGED <<fvars, pvars, frontVars, focus>>
InForwarding(A) == focus = "forwarding" /\ A /\ UNCHANGED <<vars, pvars, frontVars, focus>>
InPermissions(A) == focus = "permissions" /\ A /\ UNCHANGED <<vars, fvars, frontVars, focus>>
InPreflight(A) == focus = "preflight" /\ A /\ UNCHANGED <<hostVars, sVars, lVars, pVars, focus>>
InSession(A) == focus = "session" /\ A /\ UNCHANGED <<hostVars, pfVars, lVars, pVars, focus>>
InLines(A) == focus = "lines" /\ A /\ UNCHANGED <<hostVars, pfVars, sVars, pVars, focus>>
InParser(A) == focus = "parser" /\ A /\ UNCHANGED <<hostVars, pfVars, sVars, lVars, focus>>

MCNext ==
    \/ InAccess(Next) \/ InForwarding(FNext) \/ InPermissions(PNext) \/ InPreflight(PreflightNext)
    \/ InSession(SessionNext) \/ InLines(LinesNext) \/ InParser(ParserNext)

\* A started command keeps running, the deadline of the DNS observation fires,
\* and so do the goroutines of a session and the deadlines of the probes: all of
\* it the Go scheduler's and the timers' business.  A behaviour stays in its part,
\* where only that part's disjunct is ever enabled.
MCSpec ==
    /\ MCInit /\ [][MCNext]_allVars
    /\ WF_allVars(InAccess(Steps) \/ InSession(SessionStep) \/ InPreflight(PreflightStep))
    /\ WF_allVars(InAccess(observationDeadline))

\* Every command ends.  An apply never waits for ever for a DNS observation that
\* cannot become exact (dns.Wait and the worker deadline); a check never for a tool
\* that hangs; Finish never for the flusher, the program or the heartbeat.
CommandsEnd ==
    []<>(CASE focus = "access" -> pc = "idle"
           [] focus = "preflight" -> CommandOver
           [] focus = "session" -> SessionDone
           [] OTHER -> TRUE)

\* The types of all parts, the limit on concurrent probes and screenMu among them.
WorkstationTypeOK ==
    /\ TypeOK /\ FTypeOK /\ PTypeOK
    /\ PreflightTypeOK /\ SessionTypeOK /\ LinesTypeOK /\ ParserTypeOK

\* A row shows how its work ended: the latest terminal report is never lost or undone
\* by the queue, the handoff of the terminal or Finish (LatestOutcomeShown,
\* FinishSettles), by output that stops in the middle or domains that go on
\* (NodesSettle, FailedDomainShown), or by a late timer (StepsStaySettled).
OutcomesAreShown ==
    /\ [](LatestOutcomeShown /\ FinishSettles /\ NodesSettle /\ FailedDomainShown)
    /\ StepsStaySettled
=============================================================================
