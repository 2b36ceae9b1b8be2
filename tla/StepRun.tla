------------------------------- MODULE StepRun -------------------------------
(***************************************************************************)
(* The executor of a step graph, pkg/steps/run.go: `Run` starts a          *)
(* goroutine per root, and one that waits for the WaitGroup, then loops    *)
(* over a select: a cancelled context, the message of a finished step      *)
(* (which may start its children), or the end.  The channels are           *)
(* unbuffered, so a goroutine that sends stays until `Run` receives.       *)
(*                                                                         *)
(* What a step does is its Step.Run: here it only returns, with an error   *)
(* or without.  The handling of a message is split where the goroutine     *)
(* that waits could see a difference: recording the result, each wg.Add    *)
(* with its `go`, and wg.Done.                                             *)
(***************************************************************************)
EXTENDS StepLinks, Naturals, FiniteSets

CONSTANTS
    Step,      \* all steps
    Graphs     \* the execution graphs considered

ASSUME GraphsAssumption ==
    \A gr \in Graphs :
        /\ gr.nodes \subseteq Step
        /\ IsFiniteSet(gr.nodes)
        /\ DOMAIN gr.requires = Step
        /\ DOMAIN gr.creates = Step

VARIABLES
    graph,        \* the argument of Run (never changes)
    pc,           \* Run: "select", "handling" a message, or "returned"
    handled,      \* the goroutine whose message is being handled: none or one
    todo,         \* handling: the children still to be started
    interrupted,  \* Run saw the context cancelled; ctxDone is nil
    cancelled,    \* the context
    running,      \* goroutines in Step.Run
    sending,      \* goroutines that hold a message, with its outcome
    started,      \* step -> how often it was started
    succeeded,    \* steps whose Creates() were appended to `seen`
    failed,       \* steps with an error in executionErrors
    wg,           \* the counter of the WaitGroup
    waiter        \* the goroutine of lines 31-34: "waiting", "sending", "gone"

vars == <<graph, pc, handled, todo, interrupted, cancelled, running, sending,
          started, succeeded, failed, wg, waiter>>

steps == <<running, sending, started>>

Outcomes == {"ok", "error"}

\* A goroutine is a step and the number of its start.
Goroutine == Step \X Nat

-----------------------------------------------------------------------------
\* Lines 24-39.  Nothing can tell whether the goroutines of the roots were
\* started before or after the loop is entered.
Init ==
    /\ graph \in Graphs
    /\ pc = "select" /\ handled = {} /\ todo = {}
    /\ interrupted = FALSE /\ cancelled = FALSE
    /\ running = Roots(graph) \X {1}
    /\ sending = {}
    /\ started = [n \in Step |-> IF n \in Roots(graph) THEN 1 ELSE 0]
    /\ succeeded = {} /\ failed = {}
    /\ wg = Cardinality(running)
    /\ waiter = "waiting"

\* runStep, up to the send: Step.Run returns and the message is built.
StepReturns(t, outcome) ==
    /\ t \in running
    /\ running' = running \ {t}
    /\ sending' = sending \cup {<<t, outcome>>}
    /\ UNCHANGED <<graph, pc, handled, todo, interrupted, cancelled, started,
                   succeeded, failed, wg, waiter>>

\* A signal, or the deletion of the test namespace, cancels the context.
Cancel ==
    /\ ~cancelled
    /\ pc # "returned"
    /\ cancelled' = TRUE
    /\ UNCHANGED <<graph, pc, handled, todo, interrupted, steps, succeeded,
                   failed, wg, waiter>>

\* case <-ctxDone
SelectInterrupted ==
    /\ pc = "select" /\ cancelled /\ ~interrupted
    /\ interrupted' = TRUE
    /\ UNCHANGED <<graph, pc, handled, todo, cancelled, steps, succeeded,
                   failed, wg, waiter>>

\* Mutant: children are started although the context was cancelled.
TriggeredAlways(n) ==
    LET seen == CreatedBy(graph, succeeded \cup {n})
    IN  {c \in Children(graph, n) : HasAllLinks(graph.requires[c], seen)}

\* Mutant: a child is started by any of its parents.
TriggeredByAnyParent(n) ==
    {c \in Children(graph, n) : ~interrupted}

\* Mutant: only the links of the step that just finished are looked at.
TriggeredByOwnLinks(n) ==
    {c \in Children(graph, n) : ~interrupted /\ HasAllLinks(graph.requires[c], graph.creates[n])}

\* The children that are started for a step that succeeded, once its links are
\* in `seen`: lines 65-77.  There is no test that a child was not started yet.
Triggered(n) ==
    LET seen == CreatedBy(graph, succeeded \cup {n})
    IN  {c \in Children(graph, n) : ~interrupted /\ HasAllLinks(graph.requires[c], seen)}

\* case out := <-executionResults, up to the list of children to start.
SelectMessage(t, outcome) ==
    /\ pc = "select"
    /\ <<t, outcome>> \in sending
    /\ sending' = sending \ {<<t, outcome>>}
    /\ pc' = "handling" /\ handled' = {t}
    /\ \/ /\ outcome = "error"
          /\ failed' = failed \cup {t[1]}
          /\ UNCHANGED <<succeeded, todo>>
       \/ /\ outcome = "ok"
          /\ succeeded' = succeeded \cup {t[1]}
          /\ todo' = Triggered(t[1])
          /\ UNCHANGED failed
    /\ UNCHANGED <<graph, interrupted, cancelled, running, started, wg, waiter>>

\* wg.Add(1); go runStep(...)
StartChild(c) ==
    /\ pc = "handling" /\ c \in todo
    /\ todo' = todo \ {c}
    /\ started' = [started EXCEPT ![c] = @ + 1]
    /\ running' = running \cup {<<c, started'[c]>>}
    /\ wg' = wg + 1
    /\ UNCHANGED <<graph, pc, handled, interrupted, cancelled, sending,
                   succeeded, failed, waiter>>

\* Mutant: wg.Done comes before the children are started.
MessageDoneEarly ==
    /\ pc = "handling" /\ (handled # {} \/ todo = {})
    /\ wg' = wg - Cardinality(handled)
    /\ handled' = {}
    /\ pc' = IF todo = {} THEN "select" ELSE pc
    /\ UNCHANGED <<graph, todo, interrupted, cancelled, steps, succeeded,
                   failed, waiter>>

\* Mutant: wg.Done is skipped for a step that failed.
MessageDoneUnlessFailed ==
    /\ pc = "handling" /\ todo = {}
    /\ wg' = IF \E t \in handled : t[1] \in failed THEN wg ELSE wg - 1
    /\ pc' = "select" /\ handled' = {}
    /\ UNCHANGED <<graph, todo, interrupted, cancelled, steps, succeeded,
                   failed, waiter>>

\* wg.Done(), the end of the handling of a message.
MessageDone ==
    /\ pc = "handling" /\ todo = {}
    /\ wg' = wg - 1
    /\ pc' = "select" /\ handled' = {}
    /\ UNCHANGED <<graph, todo, interrupted, cancelled, steps, succeeded,
                   failed, waiter>>

\* wg.Wait() returns; `done <- true` follows.
WaiterWakes ==
    /\ waiter = "waiting" /\ wg = 0
    /\ waiter' = "sending"
    /\ UNCHANGED <<graph, pc, handled, todo, interrupted, cancelled, steps,
                   succeeded, failed, wg>>

\* case <-done: both channels are closed and Run returns.
SelectDone ==
    /\ pc = "select" /\ waiter = "sending"
    /\ pc' = "returned" /\ waiter' = "gone"
    /\ UNCHANGED <<graph, handled, todo, interrupted, cancelled, steps,
                   succeeded, failed, wg>>

\* Run has returned; there is nothing left to do.
Terminated ==
    /\ pc = "returned" /\ running = {} /\ sending = {}
    /\ UNCHANGED vars

\* The main goroutine.
Run ==
    \/ SelectInterrupted
    \/ \E m \in sending : SelectMessage(m[1], m[2])
    \/ \E c \in todo : StartChild(c)
    \/ MessageDone
    \/ SelectDone

AnyStepReturns == \E t \in running : \E o \in Outcomes : StepReturns(t, o)

Next == Run \/ AnyStepReturns \/ WaiterWakes \/ Cancel \/ Terminated

\* Go runs every goroutine that is ready; a step's Run is assumed to return.
Fairness == WF_vars(Run) /\ WF_vars(AnyStepReturns) /\ WF_vars(WaiterWakes)

SafetySpec == Init /\ [][Next]_vars

Spec == SafetySpec /\ Fairness

-----------------------------------------------------------------------------
(* Properties *)

\* Every variable has its type.
TypeOK ==
    /\ graph \in Graphs
    /\ pc \in {"select", "handling", "returned"}
    /\ handled \subseteq Goroutine
    /\ todo \subseteq graph.nodes
    /\ interrupted \in BOOLEAN /\ cancelled \in BOOLEAN
    /\ running \subseteq Goroutine
    /\ sending \subseteq Goroutine \X Outcomes
    /\ started \in [Step -> Nat]
    /\ succeeded \subseteq Step /\ failed \subseteq Step
    /\ wg \in Nat
    /\ waiter \in {"waiting", "sending", "gone"}

\* executionResults is closed only when no goroutine of a step is left that
\* could still send on it (which would panic) and whose result Run would lose.
NoSendOnClosedChannel ==
    pc = "returned" => running = {} /\ sending = {} /\ handled = {}

\* The WaitGroup counts exactly the goroutines that were started and not yet
\* done with, so it can reach zero only when nothing can start any more.
WaitGroupCountsGoroutines ==
    wg = Cardinality(running) + Cardinality(sending) + Cardinality(handled)

\* A step other than a root is started only when steps that completed without
\* an error have created every link it requires.
LinksFirst ==
    \A n \in graph.nodes \ Roots(graph) :
        started[n] > 0 => HasAllLinks(graph.requires[n], CreatedBy(graph, succeeded))

\* Where every requirement has one provider, a step is started only after all
\* the steps it depends on have succeeded ...
ParentsFirst ==
    UniqueProviders(graph) =>
        \A n \in graph.nodes : started[n] > 0 => Parents(graph, n) \subseteq succeeded

\* ... and at most once: although nothing in the loop remembers what was
\* started, only the last of the parents finds all the links.
StartedAtMostOnce ==
    UniqueProviders(graph) => \A n \in graph.nodes : started[n] <= 1

\* An accepted graph without failure or interruption is executed completely:
\* no child is forgotten because it was not ready when a parent finished.
CompleteOnSuccess ==
    (pc = "returned" /\ failed = {} /\ ~interrupted) => succeeded = graph.nodes

\* Once the loop has seen the cancellation nothing new is started, whatever is
\* already on its way.
NothingStartsWhenInterrupted ==
    [][interrupted => started' = started]_vars

\* Run returns, whatever fails and whenever the context is cancelled.
RunEnds == <>(pc = "returned")

\* What the comment at the start of a child says: it is triggered "if all of
\* it's pre-requisites have been completed and if it has not yet been
\* triggered".
NotTriggeredTwice == \A n \in graph.nodes : started[n] <= 1

-----------------------------------------------------------------------------
(* Strengthenings that make the invariants inductive. *)

\* The wait group's count, with what makes it exact: every start is a new
\* goroutine, a goroutine is in one place, and the loop handles one at a time.
Accounting ==
    /\ IsFiniteSet(running) /\ IsFiniteSet(sending)
    /\ WaitGroupCountsGoroutines
    /\ \A t \in running : t[2] <= started[t[1]]
    /\ \A m \in sending : m[1][2] <= started[m[1][1]] /\ m[1] \notin running
    /\ pc = "handling" => \E t \in handled : handled = {t}
    /\ pc # "handling" => handled = {} /\ todo = {}
    /\ interrupted => todo = {}
    /\ waiter # "waiting" => wg = 0
    /\ waiter = "gone" <=> pc = "returned"

\* How far every step is, where requirements have one provider each.
Progress ==
    /\ \A n \in Step : started[n] <= 1
    /\ \A n \in succeeded \cup failed : started[n] = 1
    /\ \A t \in running : t[1] \notin succeeded \cup failed /\ t[2] = 1
    /\ \A m \in sending : m[1][1] \notin succeeded \cup failed /\ m[1][2] = 1
    /\ \A m1, m2 \in sending : m1[1] = m2[1] => m1 = m2
    /\ \A n \in todo : started[n] = 0
    /\ \A n \in Step \ (succeeded \cup failed) : started[n] = 1 =>
          <<n, 1>> \in running \/ \E o \in Outcomes : <<<<n, 1>>, o>> \in sending
    /\ \A n \in graph.nodes :
          started[n] = 1 \/ n \in todo => Parents(graph, n) \subseteq succeeded
    /\ \A n \in Step : started[n] = 1 => n \in graph.nodes
    /\ succeeded \cap failed = {}

UniqueProgress == UniqueProviders(graph) => Progress

-----------------------------------------------------------------------------
(* The abstract schedule that the executor implements. *)

Status ==
    [n \in Step |-> IF n \in succeeded THEN "ok"
                    ELSE IF n \in failed THEN "failed"
                    ELSE IF started[n] > 0 THEN "running"
                    ELSE "idle"]

Schedule == INSTANCE StepSchedule
    WITH status <- Status, halted <- interrupted, over <- (pc = "returned")

\* Run implements StepSchedule: where providers are unique, every step runs at
\* most once, after all its parents succeeded and before Run returns.
ImplementsSchedule == Schedule!Spec
=============================================================================
