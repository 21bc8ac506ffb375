----------------------------- MODULE MCDelivery -----------------------------
(***************************************************************************)
(* What is delivered and how, in one model: the selection of chart         *)
(* releases, the look into official images and their admission, the        *)
(* validation of the build graph, the publication of a project, the worker *)
(* budget inside its Prepare, and the handoff of the published commit to   *)
(* Flux.  They meet only at their ends (a selection is rendered, what is   *)
(* rendered is admitted, a budget lives inside one step of a publication,  *)
(* a handoff begins where one is recorded), so a behaviour exercises one   *)
(* of them and leaves the others in an initial state.                      *)
(***************************************************************************)
EXTENDS PlatformHandoff, DeliveryBudget, ChartSelection, ImageAdmission, BuildGraph,
        ImageFilesystem

CONSTANTS app, addon, s1, s2, d1, d2, c1, c2

VARIABLE focus

deliveryVars == <<pubVars, budgetVars, fluxVars, selVars, admVars, graphVars, fsVars, focus>>

----------------------------------------------------------------------------
(* The instances.  Kubernetes candidates are 1 and 2.                       *)

ChartRelease(e, s, r, k) == [eligible |-> e, supports |-> s, renders |-> r, keeps |-> k]
Good == ChartRelease(TRUE, {1, 2}, {1, 2}, TRUE)
OldOnly == ChartRelease(TRUE, {1}, {1, 2}, TRUE)
NeverRenders == ChartRelease(TRUE, {1, 2}, {}, TRUE)
NewFails == ChartRelease(TRUE, {1, 2}, {1}, TRUE)
Breach == ChartRelease(TRUE, {1, 2}, {1, 2}, FALSE)
Prerelease == ChartRelease(FALSE, {1, 2}, {1, 2}, TRUE)
MCCatalogs == [c \in {"t", "u", "b"} |->
    CASE c = "t" -> {<<x, y>> : x \in {OldOnly, NewFails}, y \in {Good, Prerelease}}
                    \union {<<NeverRenders, Breach, Good>>, <<Prerelease, OldOnly, Good>>}
      [] c = "u" -> {<<Good>>, <<OldOnly, NewFails>>}
      [] c = "b" -> {<<NewFails, Good>>}]
MCCandidates == {<<2, 1>>, <<1, 2>>}

MCSatisfactions ==
    {[d \in {d1, d2} |-> IF d = d1 THEN {c1, c2} ELSE {c1}],
     [d \in {d1, d2} |-> IF d = d1 THEN {c1} ELSE {c2}]}
MCSourcesOf == [i \in {app, addon} |-> IF i = app THEN {s1, s2} ELSE {s1}]

(* Targets a, b and c: a and b of one to three stages that use contexts k   *)
(* and l, c often with something wrong.                                     *)
Named(c) == <<"name", c>>
Stage(n) == <<"stage", n>>
Base == <<"base", 0>>
BakeTarget(stages, built, contexts) == [stages |-> stages, stage |-> built, contexts |-> contexts]
Only(source) == [c \in {"k"} |-> source]
OneStage(sources) == {BakeTarget(<< <<Named("k")>> >>, 1, Only(s)) : s \in sources}
TwoStages(sources) ==
    {BakeTarget(<< <<Base, Named("k")>>, <<Stage(1), <<"add", 1>> >> >>, 2, Only(s)) : s \in sources}
ThreeStages == {BakeTarget(<< <<Named("k")>>, <<Base>>, <<Stage(1), Stage(2), Named("l")>> >>, 3, f) :
                   f \in [{"k", "l"} -> {"b", "c"}]}
WithUnused(source) == {BakeTarget(<< <<Base>> >>, 1, Only(source))}
Faulty == {BakeTarget(s, Len(s), Only("pinned")) :
              s \in { <<>>, << << <<"add", 0>> >> >>, << <<Stage(1)>> >>, << <<Named("z")>> >> }}
          \union {BakeTarget(<< <<Base>> >>, 0, Only("pinned"))}
          \union WithUnused("loose") \union WithUnused("m")
MCBakeGraphs ==
    {[t \in {"a", "b", "c"} |-> CASE t = "a" -> x [] t = "b" -> y [] OTHER -> z] :
        x \in TwoStages({"a", "b", "pinned"}) \union ThreeStages,
        y \in OneStage({"a", "b", "c"}) \union ThreeStages \union WithUnused("a"),
        z \in Faulty \union TwoStages({"a", "pinned"})}
MCRoots == {{"a"}, {"a", "b"}, {"c", "m"}}
MCParents == {<<>>, <<"a">>, <<"b">>, <<"m">>, <<"a", "c">>, <<"c", "b">>, <<"b", "c">>}

Dir == <<"d">>
File == <<"d", "f">>
Sub == <<"d", "e">>
Deep == <<"d", "e", "g">>
Top == <<"l">>
Sets(path, kind, link) == [op |-> "set", path |-> path, kind |-> kind, link |-> link]
Whiteout(op, path) == [op |-> op, path |-> path, kind |-> "none", link |-> <<>>]
MCPaths == {Dir, File, Sub, Deep, Top}
MCArchiveEntries ==
    {Sets(Dir, "dir", <<>>), Sets(Sub, "dir", <<>>), Sets(File, "file", <<>>), Sets(Deep, "file", <<>>),
     Sets(Top, "link", File), Sets(File, "link", Top), Sets(Sub, "link", Dir),
     Whiteout("delete", Dir), Whiteout("delete", File), Whiteout("opaque", Dir)}

----------------------------------------------------------------------------
Parts == {"publication", "budget", "flux", "selection", "admission", "graph", "filesystem"}

(* The initial state of a part that the behaviour does not exercise.        *)
SelRest == /\ upstream = [c \in AllCharts |-> CHOOSE l \in Catalogs[c] : TRUE]
           /\ current = [c \in AllCharts |-> 1] /\ unfit = {} /\ kubernetes = <<2, 1>>
AdmRest == /\ satisfies = CHOOSE s \in Satisfactions : TRUE
           /\ tagged = [s \in References |-> d1] /\ buildable = FALSE
           /\ rendered = [i \in Images |-> CHOOSE r \in Renders(i) : TRUE]
(* The first pull finds one tag and render: later ones follow by Turns.     *)
AdmBegin == /\ tagged = [s \in References |-> IF s = s1 THEN d1 ELSE d2]
            /\ rendered \in {f \in [Images -> UNION {Renders(i) : i \in Images}] :
                  f[addon].source = s1 /\ f[app] \in Renders(app) /\ f[addon] \in Renders(addon)}
GraphRest == graph = <<>> /\ inherits = NoParents /\ sets = {}

MCInit ==
    /\ focus \in Parts
    /\ PubInit /\ BudgetInit /\ FluxInit /\ FSInit
    /\ IF focus = "selection" THEN SelInit ELSE SelRest /\ SelInit
    /\ IF focus = "admission" THEN AdmBegin /\ AdmInit ELSE AdmRest /\ AdmInit
    /\ IF focus = "graph" THEN GraphInit ELSE GraphRest /\ GraphInit

Others(part) ==
    /\ UNCHANGED focus
    /\ part # "publication" => UNCHANGED pubVars
    /\ part # "budget" => UNCHANGED budgetVars
    /\ part # "flux" => UNCHANGED fluxVars
    /\ part # "selection" => UNCHANGED selVars
    /\ part # "admission" => UNCHANGED admVars
    /\ part # "graph" => UNCHANGED graphVars
    /\ part # "filesystem" => UNCHANGED fsVars
In(part, A) == focus = part /\ A /\ Others(part)

MCNext ==
    \/ In("publication", PubNext) \/ In("budget", BudgetNext) \/ In("flux", FluxNext)
    \/ In("selection", SelNext) \/ In("admission", AdmNext) \/ In("graph", GraphNext)
    \/ In("filesystem", FSNext)

\* The fairness of each part in its own behaviours.
MCSpec ==
    /\ MCInit /\ [][MCNext]_deliveryVars
    /\ WF_pubVars(focus = "publication" /\ Command)
    /\ SF_pubVars(focus = "publication" /\ Start("publish"))
    /\ \A a \in FairActions : WF_fluxVars(focus = "flux" /\ FairAction(a))
    /\ WF_budgetVars(focus = "budget" /\ BudgetNext)
    /\ WF_selVars(focus = "selection" /\ SelStep)

\* The types of all parts; no revision in the cluster is newer than what was
\* published, and the image index has no half-removed directory.
DeliveryTypeOK ==
    /\ PublicationTypeOK /\ FluxTypeOK /\ SelTypeOK /\ AdmTypeOK /\ GraphTypeOK /\ FSTypeOK

\* Deliveries get through.  Rerunning the delivery operation repairs a missing or
\* stale receipt, whatever an interrupted Prepare or Seed left behind (RerunRepairs);
\* a rerun apply is reported done in the end (ApplyFinishes); resolveLocalDelivery
\* always returns (DeliveryReturns), and a selection ends however often charts
\* backtrack (SelectionOver).
DeliveryRecovers ==
    /\ focus = "publication" => RerunRepairs
    /\ focus = "flux" => ApplyFinishes
    /\ <>(CASE focus = "budget" -> returned # "no"
            [] focus = "selection" -> SelectionOver
            [] OTHER -> TRUE)
=============================================================================
