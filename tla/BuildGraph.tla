----------------------------- MODULE BuildGraph -----------------------------
(***************************************************************************)
(* The build graph of a delivery: cli/config/bakegraph.go and its uses in  *)
(* buildgraph.go.  Bake templates inherit from each other and become       *)
(* targets; a target names a Dockerfile, a stage of it and its contexts; a *)
(* stage refers to the build base, to earlier stages and to contexts, and  *)
(* a context may be another target.  A graph without problems is built     *)
(* without further checks, so what is accepted must be buildable.          *)
(*                                                                         *)
(* graph[t] is [stages, stage, contexts]: for each stage of the Dockerfile *)
(* its references after expandBakeReference, none at all if it cannot be   *)
(* parsed; the stage to build, 0 for a name that is not there; the source  *)
(* of each context: a target, "pinned" or "loose".  A reference is a pair: *)
(* <<"stage", n>>, <<"name", c>> for any other name, <<"base", 0>>, or the *)
(* remote source of an ADD with and without checksum, <<"add", 1>> and     *)
(* <<"add", 0>>.                                                           *)
(***************************************************************************)
EXTENDS Naturals, Sequences, FiniteSets, SequencesExt

CONSTANTS Targets,    \* the names of targets
          Missing,    \* a name that no target has
          BakeGraphs, \* the graphs to check
          Roots,      \* the sets of targets that the images may name
          Parents     \* the sequences of parents a template may have

VARIABLES inherits,   \* the parents of each template, in order
          sets,       \* the templates that set the attribute under consideration
          resolved,   \* what resolveBakeTarget made of each template
          graph,
          roots,      \* the targets that deliver images
          pending,    \* the stack of reachable
          reached,
          problems,
          graphAt     \* "parse", "reach", "validate", "done"

graphVars == <<inherits, sets, resolved, graph, roots, pending, reached, problems, graphAt>>

Unset == "unset"
Error == "error"
NoParents == [t \in Targets |-> <<>>]

GraphInit ==
    /\ \/ graph \in BakeGraphs /\ roots \in Roots
          /\ inherits = NoParents /\ sets = {}
       \/ graph = <<>> /\ roots = {}
          /\ inherits \in [Targets -> Parents] /\ sets \in SUBSET Targets
    /\ resolved = <<>> /\ pending = <<>> /\ reached = {} /\ problems = {} /\ graphAt = "parse"

----------------------------------------------------------------------------
(* Inheritance: the parents in order, then the template's own attribute.    *)
(* The result is the template whose attribute is in force.                  *)

(* mergeBakeTarget: an attribute that a parent does not set overrides nothing. *)
mergeBakeTarget(parents) ==
    LET given == SelectSeq(parents, LAMBDA p : p # Unset)
    IN  IF given = <<>> THEN Unset ELSE Last(given)

RECURSIVE resolveBakeTarget(_, _)
resolveBakeTarget(label, stack) ==
    IF label \notin Targets \/ label \in stack THEN Error
    ELSE LET parents == [k \in 1..Len(inherits[label]) |->
                            resolveBakeTarget(inherits[label][k], stack \union {label})]
         IN  IF Error \in Range(parents) THEN Error
             ELSE IF label \in sets THEN label ELSE mergeBakeTarget(parents)

parseBakeGraph ==
    /\ graphAt = "parse"
    /\ resolved' = [t \in Targets |-> resolveBakeTarget(t, {})]
    /\ IF Error \in Range(resolved')
       THEN graphAt' = "done" /\ problems' = {"parse"} /\ UNCHANGED pending
       ELSE graphAt' = "reach" /\ pending' = SetToSeq(roots) /\ UNCHANGED problems
    /\ UNCHANGED <<inherits, sets, graph, roots, reached>>

----------------------------------------------------------------------------
(* reachable: a stack of names; the contexts of a target are pushed in the  *)
(* order of a Go map, which is any order.                                   *)

Sources(t) == IF t \in DOMAIN graph THEN Range(graph[t].contexts) ELSE {}
Dependencies(t) == Sources(t) \ {"pinned", "loose"}

reachable ==
    /\ graphAt = "reach" /\ pending # <<>>
    /\ LET name == Last(pending)
       IN  /\ reached' = reached \union {name}
           /\ \E order \in SetToSeqs(IF name \in reached THEN {} ELSE Dependencies(name)) :
                 pending' = Front(pending) \o order
    /\ UNCHANGED <<inherits, sets, resolved, graph, roots, problems, graphAt>>

reachedAll ==
    /\ graphAt = "reach" /\ pending = <<>>
    /\ graphAt' = "validate"
    /\ UNCHANGED <<inherits, sets, resolved, graph, roots, pending, reached, problems>>

----------------------------------------------------------------------------
(* The two validations.  validate looks at the contexts of everything       *)
(* reached; validateTarget walks the stages that are really used, in a      *)
(* record [visited, visiting, stages, found] of what the walk remembers.    *)

validate ==
    {"missing root" : t \in roots \ DOMAIN graph}
    \union {"missing target" : t \in {u \in reached : Dependencies(u) \ DOMAIN graph # {}}}
    \union {"loose context" : t \in {u \in reached : "loose" \in Sources(u)}}

Blame(walk, problem) == [walk EXCEPT !.found = @ \union {problem}]

RECURSIVE validateTarget(_, _), validateStage(_, _, _), validateReference(_, _, _, _)

validateReference(walk, t, current, reference) ==
    LET contexts == graph[t].contexts
        to == reference[2]
    IN  CASE reference[1] = "base" -> walk
          [] reference[1] = "add" -> IF to = 1 THEN walk ELSE Blame(walk, "loose add")
          [] reference[1] = "stage" ->
               IF to < current THEN validateStage(walk, t, to) ELSE Blame(walk, "stage")
          [] reference[1] = "name" /\ to \notin DOMAIN contexts -> Blame(walk, "undeclared")
          [] OTHER -> IF contexts[to] \in {"pinned", "loose"} THEN walk
                      ELSE validateTarget(walk, contexts[to])

validateStage(walk, t, n) ==
    IF n \in walk.stages THEN walk
    ELSE FoldLeft(LAMBDA w, reference : validateReference(w, t, n, reference),
                  [walk EXCEPT !.stages = @ \union {n}], graph[t].stages[n])

MutantEnter(walk, t) == [walk EXCEPT !.visited = @ \union {t}, !.stages = {}]

Enter(walk, t) == [walk EXCEPT !.visiting = @ \union {t}, !.stages = {}]

Leave(walk, before, t) ==
    [walk EXCEPT !.visiting = before.visiting, !.stages = before.stages, !.visited = @ \union {t}]

validateTarget(walk, t) ==
    IF t \in walk.visited \/ t \notin DOMAIN graph THEN walk
    ELSE IF t \in walk.visiting THEN Blame(walk, "cycle")
    ELSE IF graph[t].stages = <<>> THEN Blame(walk, "dockerfile")
    ELSE IF graph[t].stage = 0 THEN Blame(walk, "missing stage")
    ELSE Leave(validateStage(Enter(walk, t), t, graph[t].stage), walk, t)

(* Images are validated in their order; one walk serves them all.           *)
validateDeliveryTargets(order) ==
    FoldLeft(validateTarget, [visited |-> {}, visiting |-> {}, stages |-> {}, found |-> {}], order).found

validateBuildGraph ==
    /\ graphAt = "validate"
    /\ \E order \in SetToSeqs(roots) : problems' = validate \union validateDeliveryTargets(order)
    /\ graphAt' = "done"
    /\ UNCHANGED <<inherits, sets, resolved, graph, roots, pending, reached>>

GraphNext == parseBakeGraph \/ reachable \/ reachedAll \/ validateBuildGraph

GraphSpec == GraphInit /\ [][GraphNext]_graphVars

----------------------------------------------------------------------------
(* The reference definitions, by closure instead of by a walk.              *)

Names == Targets \union {Missing}

RECURSIVE Closure(_, _)
Closure(S, edges) ==
    LET more == S \union {e[2] : e \in {f \in edges : f[1] \in S}}
    IN  IF more = S THEN S ELSE Closure(more, edges)
Beyond(x, edges) == Closure({e[2] : e \in {f \in edges : f[1] = x}}, edges)

(* A reference that stage n of t can follow.                                *)
Follows(t, n, r) ==
    CASE r[1] = "stage" -> r[2] < n
      [] r[1] = "name" -> r[2] \in DOMAIN graph[t].contexts
      [] r[1] = "add" -> r[2] = 1
      [] OTHER -> TRUE

(* The stages of t that building it runs, and the targets they use.         *)
Buildable(t) == t \in DOMAIN graph /\ graph[t].stages # <<>> /\ graph[t].stage # 0
Runs(t) ==
    Closure({graph[t].stage},
            {e \in (1..Len(graph[t].stages)) \X (1..Len(graph[t].stages)) :
                e[2] < e[1] /\ <<"stage", e[2]>> \in Range(graph[t].stages[e[1]])})
Uses(t) ==
    LET references == UNION {Range(graph[t].stages[n]) : n \in Runs(t)}
        names == {c \in DOMAIN graph[t].contexts : <<"name", c>> \in references}
    IN  {graph[t].contexts[c] : c \in names} \intersect Names

Sound ==
    /\ \A t \in Closure(roots, {e \in Names \X Names : e[2] \in Dependencies(e[1])}) :
          t \in DOMAIN graph /\ "loose" \notin Sources(t)
    /\ LET edges == UNION {{t} \X Uses(t) : t \in {u \in Names : Buildable(u)}}
       IN  \A t \in Closure(roots, edges) :
             /\ Buildable(t)
             /\ \A n \in Runs(t) : \A r \in Range(graph[t].stages[n]) : Follows(t, n, r)
             /\ t \notin Beyond(t, edges)

----------------------------------------------------------------------------
GraphTypeOK ==
    /\ graphAt \in {"parse", "reach", "validate", "done"}
    /\ reached \subseteq Names
    /\ Range(pending) \subseteq Names
    /\ resolved = <<>> \/ resolved \in [Targets -> Targets \union {Unset, Error}]

(* The analyses of a build graph agree with their definitions.              *)
(* A graph is accepted exactly when every target that the images need can   *)
(* be built: its stages and contexts exist, are pinned, and no target waits *)
(* for itself; validateTarget remembers what it visited across images, and  *)
(* neither a shared dependency nor a stage used twice is blamed as a cycle  *)
(* or lets a problem behind it pass.                                        *)
(* What reachable hands to validate, to the hash of the graph and to the    *)
(* seed build (ReachableBakeTargets) is the closure of the roots under the  *)
(* contexts that are targets, whatever order the maps are walked in.        *)
(* parseBakeGraph rejects exactly the templates whose inheritance has a     *)
(* cycle or names a missing template, diamonds excepted, and the attribute  *)
(* in force is the nearest one: the template's own, else that of the last   *)
(* parent with one.                                                         *)
GraphIsExact ==
    /\ graphAt = "done" /\ graph # <<>> => (problems = {} <=> Sound)
    /\ graphAt \in {"validate", "done"} /\ graph # <<>> =>
         reached = Closure(roots, {e \in Names \X Names : e[2] \in Dependencies(e[1])})
    /\ graphAt # "parse" /\ graph = <<>> =>
         LET edges == UNION {{t} \X Range(inherits[t]) : t \in Targets}
             Above(t) == Beyond(t, edges)
         IN  \A t \in Targets :
               /\ resolved[t] = Error <=> \E u \in Above(t) \union {t} :
                                             u \notin Targets \/ u \in Above(u)
               /\ resolved[t] \notin {Error, Unset} =>
                     /\ resolved[t] \in sets \intersect (Above(t) \union {t})
                     /\ t \in sets => resolved[t] = t
               /\ resolved[t] = Unset => sets \intersect (Above(t) \union {t}) = {}

=============================================================================
