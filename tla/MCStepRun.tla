----------------------------- MODULE MCStepRun -----------------------------
(***************************************************************************)
(* Instances of StepRun: every accepted graph of four steps that each      *)
(* provide a link of their own, and of three steps over two links that     *)
(* several of them may provide; steps are numbered so that each depends    *)
(* on earlier ones only, which is no restriction on accepted graphs.       *)
(***************************************************************************)
EXTENDS StepRun

Four == 1 .. 4
Three == 1 .. 3

src == InternalImageLink("src")
stable == ReleaseImagesLink("stable")

OwnLinks(ns) == {InternalImageLink(n) : n \in ns}

OwnLinkGraphs ==
    {[nodes |-> Four,
      requires |-> [n \in Four |-> CASE n = 2 -> r2 [] n = 3 -> r3 [] n = 4 -> r4 [] OTHER -> {}],
      creates |-> [n \in Four |-> OwnLinks({n})]] :
        r2 \in SUBSET OwnLinks({1}), r3 \in SUBSET OwnLinks(1 .. 2), r4 \in SUBSET OwnLinks(Three)}

\* Step 4 does not take part.
SharedLinkGraph(c1, r2, c2, r3) ==
    [nodes |-> Three,
     requires |-> [n \in Four |-> CASE n = 2 -> r2 [] n = 3 -> r3 [] OTHER -> {}],
     creates |-> [n \in Four |-> CASE n = 1 -> c1 [] n = 2 -> c2 [] OTHER -> {}]]

SharedLinkGraphs ==
    UNION {{SharedLinkGraph(c1, r2, c2, r3) :
                r2 \in SUBSET (c1 \ c2), r3 \in SUBSET (c1 \cup c2)} :
            c1 \in SUBSET {src, stable}, c2 \in SUBSET {src, stable}}

AllGraphs == OwnLinkGraphs \cup SharedLinkGraphs

ASSUME GraphsAreAccepted == \A gr \in AllGraphs : Accepted(gr) /\ ProvidersAreParents(gr)

\* OVERRIDE_IMAGE_X in the environment: stepsForImageOverrides adds a step that
\* imports X, next to the one of the configuration that builds X, and a test
\* uses X (pkg/defaults/defaults.go).
OverriddenImage == {SharedLinkGraph({src}, {}, {src}, {src})}
=============================================================================
