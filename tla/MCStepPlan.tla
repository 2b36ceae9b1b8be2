----------------------------- MODULE MCStepPlan -----------------------------
(***************************************************************************)
(* Instances of StepPlan: every configuration of three steps over a few    *)
(* links, with the targets a user may pass.                                *)
(***************************************************************************)
EXTENDS StepPlan

Three == 1 .. 3

src == InternalImageLink("src")
bin == InternalImageLink("bin")
stable == ReleaseImagesLink("stable")

LinkOf == [s \in Three |-> CASE s = 1 -> src [] s = 2 -> bin [] OTHER -> stable]

\* No target, one target, two of them, a repeated one, one that does not exist.
Names == {<<>>, <<3>>, <<2, 3>>, <<3, 3>>, <<4>>}

Configurations(requires, creates, names) ==
    [steps : {Three}, requires : requires, creates : creates, names : names]

\* Every step creates its own link or nothing, and requires any of the links.
OwnLinks ==
    Configurations([Three -> SUBSET {src, bin, stable}],
                   {f \in [Three -> SUBSET {src, bin, stable}] :
                        \A s \in Three : f[s] \subseteq {LinkOf[s]}},
                   {<<>>, <<3>>})

\* Two links that any of the steps may create, alone or with others.
SharedLinks ==
    Configurations([Three -> SUBSET {src, stable}], [Three -> SUBSET {src, stable}], Names)

AllConfigs == OwnLinks \cup SharedLinks

\* Two images configured to be built from each other, and a test that needs one.
RootlessCycle ==
    Configurations({[s \in Three |-> CASE s = 1 -> {bin} [] s = 2 -> {src} [] OTHER -> {bin}]},
                   {[s \in Three |-> IF s = 3 THEN {} ELSE {LinkOf[s]}]},
                   {<<3>>})
=============================================================================
