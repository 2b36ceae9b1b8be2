------------------------------ MODULE StepPlan ------------------------------
(***************************************************************************)
(* How ci-operator turns the configured steps and the requested targets    *)
(* into an execution graph (pkg/api/graph.go): BuildPartialGraph closes    *)
(* the targets over their dependencies, BuildGraph links the chosen steps, *)
(* TopologicalSort looks for cycles and then, pass by pass, for an order   *)
(* in which every step finds its links provided.  One action is one turn   *)
(* of a loop, or the end of one; the steps are 1..N in the order of the    *)
(* configuration and their position stands for their (unique) name.        *)
(***************************************************************************)
EXTENDS StepLinks, Naturals, Sequences, FiniteSets, SequencesExt

CONSTANTS
    Configs    \* set of [steps, requires, creates, names]: `steps` is 1..N,
               \* `names` the sequence of --target values

ASSUME ConfigsAssumption ==
    \A c \in Configs :
        /\ IsFiniteSet(c.steps) /\ c.steps = 1 .. Cardinality(c.steps)
        /\ DOMAIN c.requires = c.steps /\ DOMAIN c.creates = c.steps
        /\ c.names \in Seq(ToSet(c.names))

VARIABLES
    phase,       \* "match", "closure", "dag", "sort", "sorted" or an error
    config,      \* the member of Configs being planned
    plan,        \* the graph of the chosen steps; its nodes are `candidates`
    step,        \* BuildPartialGraph: the step that the loop is about to look at
    added,       \* BuildPartialGraph: this round has chosen a step
    path,        \* iterateDAG: the nodes whose calls are under way
    level,       \* iterateDAG: call -> the nodes its loop has not visited
    cyclic,      \* iterateDAG: it has found a cycle
    iterated,    \* iterateDAG: the nodes that f was applied to
    g,           \* TopologicalSort: the nodes that are left of this pass
    waiting,     \* TopologicalSort: the nodes of the next pass
    changed,     \* TopologicalSort: this pass has added to `order`
    satisfied,   \* TopologicalSort: links created by the nodes in `order`
    order        \* TopologicalSort: ret

closing == <<step, added>>
iterating == <<path, level, cyclic, iterated>>
sorting == <<g, waiting, changed, satisfied, order>>
planVars == <<phase, config, plan, closing, iterating, sorting>>

Errors == {"error_names", "error_cycle", "error_missing"}

WithNodes(nodes) == [plan EXCEPT !.nodes = nodes]

\* The nodes of a set in the order of the configuration, as the only member of a
\* set: the order in which BuildGraph appends roots, and addToNode children.
InOrder(nodes) ==
    {s \in [1 .. Cardinality(nodes) -> nodes] :
        /\ ToSet(s) = nodes
        /\ \A i, j \in DOMAIN s : i < j => s[i] < s[j]}

PlanInit ==
    /\ config \in Configs
    /\ phase = "match"
    /\ plan = [nodes |-> {}, requires |-> config.requires, creates |-> config.creates]
    /\ step = 1 /\ added = FALSE
    /\ path = <<>> /\ level = <<>> /\ cyclic = FALSE /\ iterated = {}
    /\ g = <<>> /\ waiting = <<>> /\ changed = FALSE /\ satisfied = {} /\ order = <<>>

\* TopologicalSort calls iterateDAG on the graph of these nodes.
Build(nodes) ==
    /\ plan' = WithNodes(nodes)
    /\ level' = <<Roots(plan')>>
    /\ phase' = "dag"

\* BuildPartialGraph, lines 425-446: every step takes one occurrence of its
\* name; a name that is left over was unknown or repeated.
MatchNames ==
    LET matched == ToSet(config.names) \cap config.steps
    IN  /\ phase = "match"
        /\ \/ /\ config.names = <<>>
              /\ Build(config.steps)
           \/ /\ config.names # <<>>
              /\ Len(config.names) # Cardinality(matched)
              /\ phase' = "error_names"
              /\ UNCHANGED <<plan, level>>
           \/ /\ config.names # <<>>
              /\ Len(config.names) = Cardinality(matched)
              /\ plan' = WithNodes(matched)
              /\ phase' = "closure"
              /\ UNCHANGED level
        /\ UNCHANGED <<config, closing, path, cyclic, iterated, sorting>>

\* The links that the chosen steps require.
Required == UNION {config.requires[n] : n \in plan.nodes}

\* One turn of the loop of lines 451-460: a step that provides a link required so
\* far joins, and its own requirements count at once.
ClosureVisit ==
    /\ phase = "closure" /\ step \in config.steps
    /\ step' = step + 1
    /\ \/ /\ step \notin plan.nodes /\ HasAnyLinks(Required, config.creates[step])
          /\ plan' = WithNodes(plan.nodes \cup {step})
          /\ added' = TRUE
       \/ /\ step \in plan.nodes \/ ~HasAnyLinks(Required, config.creates[step])
          /\ UNCHANGED <<plan, added>>
    /\ UNCHANGED <<phase, config, iterating, sorting>>

\* Mutant: only one round is made.
ClosureRoundOnce ==
    /\ phase = "closure" /\ step \notin config.steps
    /\ Build(plan.nodes)
    /\ UNCHANGED <<config, closing, path, cyclic, iterated, sorting>>

\* The end of a round, which was the last one when nothing was added.
ClosureRound ==
    /\ phase = "closure" /\ step \notin config.steps
    /\ \/ /\ added
          /\ step' = 1 /\ added' = FALSE
          /\ UNCHANGED <<phase, plan, level>>
       \/ /\ ~added
          /\ Build(plan.nodes)
          /\ UNCHANGED closing
    /\ UNCHANGED <<config, path, cyclic, iterated, sorting>>

-----------------------------------------------------------------------------
\* The last call of iterateDAG under way visits a node: one on the path closes a
\* cycle, and is not visited again; for another one there is a further call.
IterateVisit ==
    /\ phase = "dag" /\ Last(level) # {}
    /\ \E node \in Last(level) :
        LET rest == [level EXCEPT ![Len(level)] = @ \ {node}]
        IN  /\ \A other \in Last(level) : node <= other
            /\ \/ /\ node \in ToSet(path)
                  /\ cyclic' = TRUE /\ level' = rest
                  /\ UNCHANGED path
               \/ /\ node \notin ToSet(path)
                  /\ path' = Append(path, node)
                  /\ level' = Append(rest, Children(plan, node))
                  /\ UNCHANGED cyclic
    /\ UNCHANGED <<phase, config, plan, closing, iterated, sorting>>

\* A call for the children of a node returns: f is applied to the node.
IterateReturn ==
    /\ phase = "dag" /\ Last(level) = {} /\ path # <<>>
    /\ iterated' = iterated \cup {Last(path)}
    /\ path' = Front(path) /\ level' = Front(level)
    /\ UNCHANGED <<phase, config, plan, closing, cyclic, sorting>>

\* Mutant: the result of iterateDAG is ignored.
CheckDAGIgnored ==
    /\ phase = "dag" /\ Last(level) = {} /\ path = <<>>
    /\ phase' = "sort" /\ g' \in InOrder(Roots(plan))
    /\ UNCHANGED <<config, plan, closing, iterating, waiting, changed, satisfied, order>>

\* The first call returns to TopologicalSort.
CheckDAG ==
    /\ phase = "dag" /\ Last(level) = {} /\ path = <<>>
    /\ \/ /\ cyclic
          /\ phase' = "error_cycle"
          /\ UNCHANGED g
       \/ /\ ~cyclic
          /\ phase' = IF Roots(plan) = {} THEN "sorted" ELSE "sort"
          /\ g' \in InOrder(Roots(plan))
    /\ UNCHANGED <<config, plan, closing, iterating, waiting, changed, satisfied, order>>

\* One turn of TopologicalSort's inner loop, for the node that is next.
SortVisit ==
    /\ phase = "sort" /\ g # <<>>
    /\ \E unseen \in InOrder(Children(plan, Head(g)) \ ToSet(order)) :
        LET node == Head(g)
            queued == waiting \o unseen
        IN  \/ /\ node \in ToSet(order)
               /\ waiting' = queued
               /\ UNCHANGED <<changed, satisfied, order>>
            \/ /\ node \notin ToSet(order) /\ ~HasAllLinks(plan.requires[node], satisfied)
               /\ waiting' = Append(queued, node)
               /\ UNCHANGED <<changed, satisfied, order>>
            \/ /\ node \notin ToSet(order) /\ HasAllLinks(plan.requires[node], satisfied)
               /\ waiting' = queued
               /\ satisfied' = satisfied \cup plan.creates[node]
               /\ order' = Append(order, node)
               /\ changed' = TRUE
    /\ g' = Tail(g)
    /\ UNCHANGED <<phase, config, plan, closing, iterating>>

\* Mutant: a pass that changed nothing is not taken for an error.
SortPassStubborn ==
    /\ phase = "sort" /\ g = <<>>
    /\ g' = waiting /\ waiting' = <<>> /\ changed' = FALSE
    /\ phase' = IF waiting = <<>> THEN "sorted" ELSE "sort"
    /\ UNCHANGED <<config, plan, closing, iterating, satisfied, order>>

\* The end of a pass.
SortPass ==
    /\ phase = "sort" /\ g = <<>>
    /\ g' = waiting /\ waiting' = <<>> /\ changed' = FALSE
    /\ phase' = CASE ~changed /\ waiting # <<>> -> "error_missing"
                  [] waiting = <<>> -> "sorted"
                  [] OTHER -> "sort"
    /\ UNCHANGED <<config, plan, closing, iterating, satisfied, order>>

PlanNext ==
    \/ MatchNames \/ ClosureVisit \/ ClosureRound
    \/ IterateVisit \/ IterateReturn \/ CheckDAG
    \/ SortVisit \/ SortPass

PlanSpec == PlanInit /\ [][PlanNext]_planVars /\ WF_planVars(PlanNext)

-----------------------------------------------------------------------------
\* The targets with all the configured steps they depend on.
NeededBy(targets) ==
    Least(config.steps, {S \in SUBSET config.steps :
                            /\ targets \subseteq S
                            /\ \A n \in S : Parents(WithNodes(config.steps), n) \subseteq S})

Planned == phase \in {"dag", "sort", "sorted", "error_cycle", "error_missing"}

-----------------------------------------------------------------------------
(* Properties *)

\* Every variable has its type; the paths and worklists hold chosen steps.
PlanTypeOK ==
    /\ phase \in {"match", "closure", "dag", "sort", "sorted"} \cup Errors
    /\ config \in Configs
    /\ plan \in [nodes : SUBSET config.steps,
                 requires : {config.requires}, creates : {config.creates}]
    /\ step \in 1 .. Cardinality(config.steps) + 1 /\ added \in BOOLEAN
    /\ path \in Seq(plan.nodes) /\ level \in Seq(SUBSET plan.nodes)
    /\ cyclic \in BOOLEAN /\ iterated \subseteq plan.nodes
    /\ g \in Seq(plan.nodes) /\ waiting \in Seq(plan.nodes) /\ order \in Seq(plan.nodes)
    /\ changed \in BOOLEAN
    /\ satisfied = CreatedBy(plan, ToSet(order))

\* BuildPartialGraph's rounds, whose outcome depends on the order in which
\* steps are visited, choose exactly the targets and what they transitively
\* depend on: no provider of a needed link is missed and nothing else is run.
ClosureIsExact ==
    (Planned /\ config.names # <<>>) => plan.nodes = NeededBy(ToSet(config.names))

\* In the order TopologicalSort builds, no step is listed twice and every link
\* a step requires is created by a step that comes before it.
OrderIsExecutable ==
    \A i \in 1 .. Len(order) :
        LET before == {order[j] : j \in 1 .. i - 1}
        IN  /\ order[i] \notin before
            /\ HasAllLinks(plan.requires[order[i]], CreatedBy(plan, before))

\* TopologicalSort accepts a graph exactly when what is reachable from its
\* roots is acyclic and can be provided for, it blames the right cause, and
\* the order it has built at any time can be executed.  What no root reaches
\* is outside it: see AcceptedPlanIncludesAllSteps.
VerdictIsExact ==
    /\ OrderIsExecutable
    /\ phase = "sorted" => /\ ToSet(order) = FromRoots(plan)
                           /\ FromRoots(plan) = Providable(plan)
                           /\ Acyclic(plan, FromRoots(plan))
    /\ phase = "error_cycle" => ~Acyclic(plan, FromRoots(plan))
    /\ phase = "error_missing" => FromRoots(plan) # Providable(plan)

\* The loops of BuildPartialGraph and TopologicalSort end: with a plan or with
\* an error.
PlanningEnds == <>(phase \in Errors \cup {"sorted"})

\* What the comments of graph.go say of a plan that is accepted without error:
\* "BuildGraph returns a graph or graphs that include all steps given" and
\* "TopologicalSort validates nodes form a DAG".
AcceptedPlanIncludesAllSteps ==
    phase = "sorted" => ToSet(order) = plan.nodes
=============================================================================
