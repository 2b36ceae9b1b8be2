---------------------------- MODULE StepSchedule ----------------------------
(***************************************************************************)
(* What pkg/steps/run.go promises of an execution, without goroutines,     *)
(* channels or counters: a step runs once, after everything it depends on  *)
(* has succeeded; nothing new starts once the execution is halted; and it  *)
(* is over only when nothing runs any more.  The promise is made for       *)
(* graphs in which no requirement can be met by two different steps.       *)
(***************************************************************************)
EXTENDS StepLinks

CONSTANTS Step, Graphs

VARIABLES
    graph,     \* the graph being executed
    status,    \* step -> "idle", "running", "ok" or "failed"
    halted,    \* no more steps are started
    over       \* the execution has ended

svars == <<graph, status, halted, over>>

Init ==
    /\ graph \in Graphs
    /\ status = [n \in Step |-> IF n \in Roots(graph) THEN "running" ELSE "idle"]
    /\ halted = FALSE /\ over = FALSE

Start(n) ==
    /\ ~halted /\ ~over
    /\ status[n] = "idle"
    /\ \A p \in Parents(graph, n) : status[p] = "ok"
    /\ status' = [status EXCEPT ![n] = "running"]
    /\ UNCHANGED <<graph, halted, over>>

Finish(n, outcome) ==
    /\ ~over
    /\ status[n] = "running"
    /\ status' = [status EXCEPT ![n] = outcome]
    /\ UNCHANGED <<graph, halted, over>>

Halt ==
    /\ ~halted /\ ~over
    /\ halted' = TRUE
    /\ UNCHANGED <<graph, status, over>>

End ==
    /\ ~over
    /\ \A n \in graph.nodes : status[n] # "running"
    /\ over' = TRUE
    /\ UNCHANGED <<graph, status, halted>>

\* Nothing is promised of a graph with several providers of a link.
Unpromised ==
    /\ ~UniqueProviders(graph)
    /\ UNCHANGED graph

Next ==
    \/ Unpromised
    \/ \E n \in graph.nodes : Start(n) \/ \E o \in {"ok", "failed"} : Finish(n, o)
    \/ Halt
    \/ End

Spec == Init /\ [][Next]_svars
=============================================================================
