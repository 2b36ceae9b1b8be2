--------------------------- MODULE MCMetricsAgent ---------------------------
(***************************************************************************)
(* Instances of MetricsAgent: two steps, whose last event follows their    *)
(* message to the executor, and the snapshot that is taken in the          *)
(* background of a build pod, for which nobody waits.                      *)
(***************************************************************************)
EXTENDS MetricsAgent

CONSTANTS step1, step2, snapshot

Producers == {step1, step2, snapshot}

Counts == [p \in Producers |-> CASE p = step1 -> 3 [] p = step2 -> 2 [] OTHER -> 1]

LateOnes == [p \in Producers |-> 1]
=============================================================================
