------------------------------ MODULE StepLinks ------------------------------
(***************************************************************************)
(* The links by which ci-operator's steps name what they need and what     *)
(* they provide, and the dependency relation that follows from them        *)
(* (pkg/api/graph.go).  A link is a record: `kind` is the Go type,         *)
(* `name` and `tag` the fields the type compares ("" where it has none;    *)
(* the name of an external image includes its namespace).                  *)
(*                                                                         *)
(* A graph is a record [nodes, requires, creates]: the steps that take     *)
(* part and, for every step, the links that Requires() and Creates()       *)
(* return.                                                                 *)
(***************************************************************************)

LinkKinds ==
    {"imageStream", "imageStreamTag", "allSteps", "externalImage",
     "imagesReady", "rpmRepo", "leaseProxyServer"}

InternalImageLink(tag) ==
    [kind |-> "imageStreamTag", name |-> "pipeline", tag |-> tag]

ReleasePayloadImageLink(tag) ==
    [kind |-> "imageStreamTag", name |-> "release", tag |-> tag]

ReleaseImagesLink(stream) ==
    [kind |-> "imageStream", name |-> stream, tag |-> ""]

AllStepsLink ==
    [kind |-> "allSteps", name |-> "", tag |-> ""]

\* The SatisfiedBy methods of all the link types: literal equality, a tag is
\* also provided by a link for its whole stream, and allStepsLink by anything.
SatisfiedBy(link, other) ==
    \/ link.kind = "allSteps"
    \/ link = other
    \/ /\ link.kind = "imageStreamTag"
       /\ other.kind = "imageStream"
       /\ link.name = other.name

HasAnyLinks(required, candidates) ==
    \E c \in candidates : \E r \in required : SatisfiedBy(r, c)

\* The receiver is the link that was created, the argument the one required:
\* the opposite of HasAnyLinks and of BuildGraph.
HasAllLinks(needles, haystack) ==
    \A needle \in needles : \E hay \in haystack : SatisfiedBy(hay, needle)

-----------------------------------------------------------------------------
\* The edges BuildGraph adds: from the step that creates a link to the step
\* that requires it.
IsChild(graph, parent, child) ==
    \E r \in graph.requires[child], c \in graph.creates[parent] : SatisfiedBy(r, c)

Children(graph, parent) ==
    {child \in graph.nodes : IsChild(graph, parent, child)}

Parents(graph, child) ==
    {parent \in graph.nodes : IsChild(graph, parent, child)}

Roots(graph) ==
    {node \in graph.nodes : Parents(graph, node) = {}}

\* Everything a set of steps creates.
CreatedBy(graph, nodes) == UNION {graph.creates[n] : n \in nodes}

-----------------------------------------------------------------------------
(* What a plan may be accepted for, by least sets and without any iteration: *)
(* the reference that StepPlan's algorithm is compared with.                 *)

\* The members of every set of a family: the least set of the family when it is
\* closed under intersection.
Least(nodes, family) == {n \in nodes : \A S \in family : n \in S}

\* The steps at or below the roots of a graph.
FromRoots(gr) ==
    Least(gr.nodes, {S \in SUBSET gr.nodes :
                        /\ Roots(gr) \subseteq S
                        /\ \A p \in S : Children(gr, p) \subseteq S})

\* The steps that can be ordered one after another so that each finds all its
\* links provided by earlier ones.
Providable(gr) ==
    Least(gr.nodes, {S \in SUBSET gr.nodes :
                        \A n \in FromRoots(gr) :
                            HasAllLinks(gr.requires[n], CreatedBy(gr, S)) => n \in S})

\* A set of steps in which everyone has a child contains a cycle.
Acyclic(gr, nodes) ==
    \A S \in (SUBSET nodes) \ {{}} : \E p \in S : Children(gr, p) \cap S = {}

\* The graphs that TopologicalSort lets through to the executor, with nothing
\* in them that is out of reach of the roots.
Accepted(gr) ==
    /\ FromRoots(gr) = gr.nodes
    /\ Providable(gr) = gr.nodes
    /\ Acyclic(gr, gr.nodes)

\* A step creates a link that counts for a requirement, in the sense of
\* BuildGraph or of HasAllLinks.
Provides(gr, p, r) ==
    \E c \in gr.creates[p] : SatisfiedBy(r, c) \/ SatisfiedBy(c, r)

\* No requirement can be met by two different steps.
UniqueProviders(gr) ==
    \A n \in gr.nodes : \A r \in gr.requires[n] : \A p, q \in gr.nodes :
        Provides(gr, p, r) /\ Provides(gr, q, r) => p = q

\* Whoever counts as a provider in the sense of HasAllLinks is a parent in the
\* sense of BuildGraph.
ProvidersAreParents(gr) ==
    \A n, p \in gr.nodes : \A r \in gr.requires[n], c \in gr.creates[p] :
        SatisfiedBy(c, r) => SatisfiedBy(r, c)
=============================================================================
