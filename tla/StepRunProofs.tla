---------------------------- MODULE StepRunProofs ----------------------------
(***************************************************************************)
(* Theorems about the executor, for every set of steps and of graphs, and  *)
(* about the planner, for every set of configurations.  The last one puts  *)
(* them together: what the planner accepts is what the executor needs in   *)
(* order to forget nothing.                                                *)
(***************************************************************************)
EXTENDS StepRun, StepPlan, FiniteSetTheorems, SequenceTheorems, TLAPS

\* The set of roots and the sets of children are sets of nodes.
LEMMA NodesOfGraph ==
    ASSUME NEW gr \in Graphs
    PROVE  /\ gr.nodes \subseteq Step
           /\ IsFiniteSet(gr.nodes)
           /\ Roots(gr) \subseteq gr.nodes
           /\ \A n : Children(gr, n) \subseteq gr.nodes
  BY GraphsAssumption DEF Roots, Children

\* The initial goroutines: one for every root.
LEMMA InitialGoroutines ==
    ASSUME Init
    PROVE  /\ IsFiniteSet(running)
           /\ running \subseteq Goroutine
           /\ wg \in Nat
           /\ wg = Cardinality(running)
  <1>1. Roots(graph) \subseteq graph.nodes /\ graph.nodes \subseteq Step /\ IsFiniteSet(graph.nodes)
    BY NodesOfGraph DEF Init
  <1>2. IsFiniteSet(Roots(graph))
    BY <1>1, FS_Subset
  <1>3. IsFiniteSet({1})
    BY FS_Singleton
  <1>4. IsFiniteSet(Roots(graph) \X {1})
    BY <1>2, <1>3, FS_Product
  <1>5. Cardinality(running) \in Nat
    BY <1>4, FS_CardinalityType DEF Init
  <1>6. running \subseteq Goroutine
    BY <1>1 DEF Init, Goroutine
  <1>7. QED
    BY <1>4, <1>5, <1>6 DEF Init

\* What the counter of the WaitGroup and the goroutines have to do with each
\* other is preserved by every step of every goroutine.
LEMMA AccountingInductive ==
    ASSUME TypeOK, Accounting, [Next]_vars
    PROVE  TypeOK' /\ Accounting'
  <1> USE DEF Accounting, WaitGroupCountsGoroutines
  <1>n. /\ graph.nodes \subseteq Step
        /\ \A n : Children(graph, n) \subseteq graph.nodes
    BY NodesOfGraph DEF TypeOK
  <1>f. /\ Cardinality(running) \in Nat /\ Cardinality(sending) \in Nat
        /\ IsFiniteSet(handled)
        /\ Cardinality(handled) \in Nat
        /\ pc = "handling" => Cardinality(handled) = 1
        /\ Cardinality({}) = 0
    <2>1. ASSUME pc = "handling"
          PROVE  IsFiniteSet(handled) /\ Cardinality(handled) = 1
      <3>1. PICK t \in handled : handled = {t}
        BY <2>1
      <3>2. IsFiniteSet({t}) /\ Cardinality({t}) = 1
        BY FS_Singleton
      <3>3. QED
        BY <3>1, <3>2
    <2>2. pc # "handling" => IsFiniteSet(handled) /\ Cardinality(handled) = 0
      BY FS_EmptySet
    <2>3. QED
      BY <2>1, <2>2, FS_CardinalityType, FS_EmptySet
  <1>1. ASSUME NEW t \in running, NEW o \in Outcomes, StepReturns(t, o)
        PROVE  TypeOK' /\ Accounting'
    <2>1. TypeOK'
      BY <1>1 DEF TypeOK, StepReturns, Goroutine
    <2>2. <<t, o>> \notin sending
      OBVIOUS
    <2>3. /\ IsFiniteSet(running') /\ Cardinality(running') = Cardinality(running) - 1
          /\ IsFiniteSet(sending') /\ Cardinality(sending') = Cardinality(sending) + 1
      BY <1>1, <2>2, FS_AddElement, FS_RemoveElement DEF StepReturns
    <2>4. \A m \in sending' : m[1][2] <= started[m[1][1]] /\ m[1] \notin running'
      BY <1>1 DEF StepReturns
    <2>5. WaitGroupCountsGoroutines'
      BY <1>1, <1>f, <2>3 DEF StepReturns
    <2>6. QED
      BY <1>1, <2>1, <2>3, <2>4, <2>5 DEF StepReturns
  <1>2. CASE Cancel
    BY <1>2 DEF TypeOK, Cancel, steps
  <1>3. CASE SelectInterrupted
    BY <1>3 DEF TypeOK, SelectInterrupted, steps
  <1>4. ASSUME NEW m \in sending, SelectMessage(m[1], m[2])
        PROVE  TypeOK' /\ Accounting'
    <2>1. m \in Goroutine \X Outcomes /\ m = <<m[1], m[2]>> /\ m[1] \in Goroutine /\ m[1][1] \in Step
      BY DEF TypeOK, Goroutine
    <2>2. Triggered(m[1][1]) \subseteq graph.nodes
      BY <1>n DEF Triggered
    <2>3. TypeOK'
      BY <1>4, <2>1, <2>2 DEF TypeOK, SelectMessage
    <2>4. /\ IsFiniteSet(sending') /\ Cardinality(sending') = Cardinality(sending) - 1
          /\ Cardinality(handled') = 1
      BY <1>4, <2>1, FS_RemoveElement, FS_Singleton DEF SelectMessage
    <2>5. Cardinality(handled) = 0
      BY <1>4, <1>f DEF SelectMessage
    <2>6. WaitGroupCountsGoroutines'
      BY <1>4, <1>f, <2>4, <2>5 DEF SelectMessage
    <2>7. waiter = "waiting"
      <3>1. Cardinality(sending) # 0
        BY FS_EmptySet
      <3>2. wg # 0
        BY <3>1, <1>f
      <3>3. QED
        BY <3>2
    <2>8. interrupted' => todo' = {}
      BY <1>4 DEF SelectMessage, Triggered
    <2>9. QED
      BY <1>4, <2>3, <2>4, <2>6, <2>7, <2>8 DEF SelectMessage
  <1>5. ASSUME NEW c \in todo, StartChild(c)
        PROVE  TypeOK' /\ Accounting'
    <2>1. c \in Step /\ c \in graph.nodes /\ started[c] \in Nat
      BY <1>n DEF TypeOK
    <2>2. started' = [started EXCEPT ![c] = started[c] + 1] /\ started'[c] = started[c] + 1
      BY <1>5, <2>1 DEF StartChild, TypeOK
    <2>3. TypeOK'
      BY <1>5, <2>1, <2>2 DEF TypeOK, StartChild, Goroutine
    <2>4. <<c, started[c] + 1>> \notin running
      BY <2>1
    <2>5. IsFiniteSet(running') /\ Cardinality(running') = Cardinality(running) + 1
      BY <1>5, <2>2, <2>4, FS_AddElement DEF StartChild
    <2>6. WaitGroupCountsGoroutines'
      BY <1>5, <1>f, <2>5 DEF StartChild
    <2>7. \A t \in running' : t[2] <= started'[t[1]]
      BY <1>5, <2>1, <2>2 DEF StartChild, TypeOK, Goroutine
    <2>8. \A m \in sending' : m[1][2] <= started'[m[1][1]] /\ m[1] \notin running'
      <3>1. SUFFICES ASSUME NEW m \in sending
                     PROVE  m[1][2] <= started'[m[1][1]] /\ m[1] \notin running'
        BY <1>5 DEF StartChild
      <3>2. /\ m[1] \in Step \X Nat /\ m[1][1] \in Step /\ m[1][2] \in Nat
            /\ m[1][2] <= started[m[1][1]] /\ started[m[1][1]] \in Nat
        BY DEF TypeOK, Goroutine
      <3>3. m[1] # <<c, started[c] + 1>>
        BY <2>1, <3>2
      <3>4. started'[m[1][1]] >= started[m[1][1]]
        BY <2>1, <2>2, <3>2 DEF TypeOK
      <3>5. started'[m[1][1]] \in Nat
        BY <2>3, <3>2 DEF TypeOK
      <3>6. QED
        BY <1>5, <2>2, <3>2, <3>3, <3>4, <3>5 DEF StartChild
    <2>9. waiter = "waiting"
      <3>1. wg # 0
        BY <1>5, <1>f DEF StartChild
      <3>2. QED
        BY <3>1
    <2>10. QED
      BY <1>5, <2>3, <2>5, <2>6, <2>7, <2>8, <2>9 DEF StartChild
  <1>6. CASE MessageDone
    <2>1. Cardinality(handled) = 1 /\ Cardinality(handled') = 0
      BY <1>6, <1>f DEF MessageDone
    <2>2. wg - 1 \in Nat
      BY <1>6, <1>f, <2>1 DEF TypeOK
    <2>3. TypeOK'
      BY <1>6, <2>2 DEF TypeOK, MessageDone, steps
    <2>4. WaitGroupCountsGoroutines'
      BY <1>6, <1>f, <2>1 DEF MessageDone, steps
    <2>5. waiter = "waiting"
      BY <1>6, <1>f, <2>1 DEF MessageDone
    <2>6. QED
      BY <1>6, <2>3, <2>4, <2>5 DEF MessageDone, steps
  <1>7. CASE WaiterWakes
    BY <1>7 DEF TypeOK, WaiterWakes, steps
  <1>8. CASE SelectDone
    BY <1>8 DEF TypeOK, SelectDone, steps
  <1>9. CASE UNCHANGED vars
    BY <1>9 DEF TypeOK, vars
  <1>10. QED
    BY <1>1, <1>2, <1>3, <1>4, <1>5, <1>6, <1>7, <1>8, <1>9
    DEF Next, Run, AnyStepReturns, Terminated

\* TypeOK and Accounting hold in every reachable state.
THEOREM AccountingCorrect == SafetySpec => [](TypeOK /\ Accounting)
  <1>1. ASSUME Init
        PROVE  TypeOK /\ Accounting
    <2>1. Roots(graph) \subseteq graph.nodes /\ graph.nodes \subseteq Step
      BY <1>1, NodesOfGraph DEF Init
    <2>2. TypeOK
      BY <1>1, <2>1, InitialGoroutines DEF Init, TypeOK
    <2>3. IsFiniteSet(sending) /\ Cardinality(sending) = 0 /\ Cardinality(handled) = 0
      BY <1>1, FS_EmptySet DEF Init
    <2>4. WaitGroupCountsGoroutines
      BY <1>1, <2>3, InitialGoroutines DEF WaitGroupCountsGoroutines
    <2>5. \A t \in running : t[2] <= started[t[1]]
      BY <1>1, <2>1 DEF Init
    <2>6. QED
      BY <1>1, <2>2, <2>3, <2>4, <2>5, InitialGoroutines DEF Init, Accounting
  <1>2. QED
    BY <1>1, AccountingInductive, PTL DEF SafetySpec

\* When Run returns and closes the channels, no goroutine of a step is left,
\* whatever the graph, the failures and the moment of a cancellation.
THEOREM ChannelsClosedSafely == SafetySpec => []NoSendOnClosedChannel
  <1>1. ASSUME TypeOK, Accounting
        PROVE  NoSendOnClosedChannel
    <2>1. SUFFICES ASSUME pc = "returned"
                   PROVE  running = {} /\ sending = {} /\ handled = {}
      BY DEF NoSendOnClosedChannel
    <2>2. wg = 0 /\ handled = {}
      BY <1>1, <2>1 DEF Accounting
    <2>3. /\ IsFiniteSet(running) /\ IsFiniteSet(sending)
          /\ Cardinality(running) \in Nat /\ Cardinality(sending) \in Nat
          /\ Cardinality(handled) = 0
      BY <1>1, <2>2, FS_CardinalityType, FS_EmptySet DEF Accounting
    <2>4. Cardinality(running) = 0 /\ Cardinality(sending) = 0
      BY <1>1, <2>2, <2>3 DEF Accounting, WaitGroupCountsGoroutines
    <2>5. QED
      BY <2>2, <2>3, <2>4, FS_EmptySet
  <1>2. QED
    BY <1>1, AccountingCorrect, PTL

\* The WaitGroup counts the goroutines exactly.
THEOREM WaitGroupExact == SafetySpec => []WaitGroupCountsGoroutines
  <1>1. Accounting => WaitGroupCountsGoroutines
    BY DEF Accounting
  <1>2. QED
    BY <1>1, AccountingCorrect, PTL

\* After the loop has seen the cancellation, no step of any goroutine starts
\* another step of the graph.
THEOREM InterruptionIsFinal == SafetySpec => NothingStartsWhenInterrupted
  <1>1. ASSUME Accounting, [Next]_vars
        PROVE  [interrupted => started' = started]_vars
    <2>1. ASSUME NEW c \in todo, StartChild(c)
          PROVE  ~interrupted
      BY <1>1, <2>1 DEF Accounting
    <2>2. ASSUME NEW m \in sending, SelectMessage(m[1], m[2])
          PROVE  started' = started
      BY <2>2 DEF SelectMessage
    <2>3. ASSUME NEW t \in running, NEW o \in Outcomes, StepReturns(t, o)
          PROVE  started' = started
      BY <2>3 DEF StepReturns
    <2>4. QED
      BY <1>1, <2>1, <2>2, <2>3
      DEF Next, Run, AnyStepReturns, Cancel, SelectInterrupted, MessageDone,
          WaiterWakes, SelectDone, Terminated, steps, vars
  <1>2. QED
    BY <1>1, AccountingCorrect, PTL DEF SafetySpec, NothingStartsWhenInterrupted

-----------------------------------------------------------------------------
(* Dependencies *)

\* More completed steps provide at least as much.
LEMMA HasAllLinksMonotone ==
    ASSUME NEW gr, NEW needles, NEW S, NEW T, S \subseteq T,
           HasAllLinks(needles, CreatedBy(gr, S))
    PROVE  HasAllLinks(needles, CreatedBy(gr, T))
  BY DEF HasAllLinks, CreatedBy

\* If every requirement has one provider, a step whose links are all there has
\* nothing left to wait for: all its parents are among those that completed.
LEMMA UniqueProvidersComplete ==
    ASSUME NEW gr, UniqueProviders(gr), NEW c \in gr.nodes, NEW S, S \subseteq gr.nodes,
           HasAllLinks(gr.requires[c], CreatedBy(gr, S))
    PROVE  Parents(gr, c) \subseteq S
  <1>1. SUFFICES ASSUME NEW p \in Parents(gr, c)
                 PROVE  p \in S
    OBVIOUS
  <1>2. p \in gr.nodes /\ IsChild(gr, p, c)
    BY DEF Parents
  <1>3. PICK r \in gr.requires[c], l \in gr.creates[p] : SatisfiedBy(r, l)
    BY <1>2 DEF IsChild
  <1>4. PICK hay \in CreatedBy(gr, S) : SatisfiedBy(hay, r)
    BY DEF HasAllLinks
  <1>5. PICK q \in S : hay \in gr.creates[q]
    BY DEF CreatedBy
  <1>6. Provides(gr, p, r) /\ Provides(gr, q, r)
    BY <1>3, <1>4, <1>5 DEF Provides
  <1>7. p = q
    BY <1>2, <1>5, <1>6 DEF UniqueProviders
  <1>8. QED
    BY <1>5, <1>7

\* The children about to be started have their links as well.
LinksReady ==
    /\ LinksFirst
    /\ \A c \in todo : HasAllLinks(graph.requires[c], CreatedBy(graph, succeeded))

\* A step that is not a root never starts before all the links it requires
\* were created by steps that completed without an error.
THEOREM LinksComeFirst == SafetySpec => []LinksFirst
  <1>1. ASSUME Init
        PROVE  LinksReady
    <2>1. graph.nodes \subseteq Step
      BY <1>1, NodesOfGraph DEF Init
    <2>2. QED
      BY <1>1, <2>1 DEF Init, LinksReady, LinksFirst
  <1>2. ASSUME TypeOK, LinksReady, [Next]_vars
        PROVE  LinksReady'
    <2>0. graph.nodes \subseteq Step
      BY <1>2, NodesOfGraph DEF TypeOK
    <2>1. ASSUME NEW m \in sending, SelectMessage(m[1], m[2])
          PROVE  LinksReady'
      <3>1. succeeded \subseteq succeeded' /\ graph' = graph /\ started' = started
        BY <2>1 DEF SelectMessage
      <3>2. LinksFirst'
        BY <1>2, <3>1, HasAllLinksMonotone DEF LinksReady, LinksFirst
      <3>3. \A c \in todo' : HasAllLinks(graph.requires[c], CreatedBy(graph, succeeded'))
        <4>1. CASE m[2] = "ok"
          BY <2>1, <4>1 DEF SelectMessage, Triggered
        <4>2. CASE m[2] = "error"
          BY <1>2, <2>1, <4>2, <3>1, HasAllLinksMonotone DEF SelectMessage, LinksReady
        <4>3. QED
          BY <2>1, <4>1, <4>2 DEF SelectMessage
      <3>4. QED
        BY <3>1, <3>2, <3>3 DEF LinksReady
    <2>2. ASSUME NEW c \in todo, StartChild(c)
          PROVE  LinksReady'
      <3>1. /\ graph' = graph /\ succeeded' = succeeded /\ todo' \subseteq todo
            /\ started' = [started EXCEPT ![c] = @ + 1]
        BY <2>2 DEF StartChild
      <3>2. \A n \in Step : n # c => started'[n] = started[n]
        BY <1>2, <3>1 DEF TypeOK
      <3>3. LinksFirst'
        BY <1>2, <2>0, <3>1, <3>2 DEF LinksReady, LinksFirst
      <3>4. QED
        BY <1>2, <3>1, <3>3 DEF LinksReady
    <2>3. ASSUME NEW t \in running, NEW o \in Outcomes, StepReturns(t, o)
          PROVE  LinksReady'
      BY <1>2, <2>3 DEF StepReturns, LinksReady, LinksFirst
    <2>4. CASE Cancel \/ SelectInterrupted \/ MessageDone \/ WaiterWakes \/ SelectDone
               \/ UNCHANGED vars
      BY <1>2, <2>4 DEF Cancel, SelectInterrupted, MessageDone, WaiterWakes, SelectDone,
                        vars, steps, LinksReady, LinksFirst
    <2>5. QED
      BY <1>2, <2>1, <2>2, <2>3, <2>4 DEF Next, Run, AnyStepReturns, Terminated
  <1>3. LinksReady => LinksFirst
    BY DEF LinksReady
  <1>4. QED
    BY <1>1, <1>2, <1>3, AccountingCorrect, PTL DEF SafetySpec

\* Where every requirement has one provider, every step preserves Progress.
LEMMA ProgressInductive ==
    ASSUME TypeOK, Accounting, UniqueProviders(graph), Progress, [Next]_vars
    PROVE  Progress'
  <1> USE DEF Progress
  <1>n. /\ graph.nodes \subseteq Step
        /\ \A n : Children(graph, n) \subseteq graph.nodes
        /\ succeeded \subseteq graph.nodes
    BY NodesOfGraph DEF TypeOK
  <1>1. ASSUME NEW t \in running, NEW o \in Outcomes, StepReturns(t, o)
        PROVE  Progress'
    <2>1. t = <<t[1], 1>> /\ t[1] \in Step
      BY DEF TypeOK, Goroutine
    <2>2. \A m \in sending : m[1] # t
      BY DEF Accounting
    <2>3. \A m1, m2 \in sending' : m1[1] = m2[1] => m1 = m2
      BY <1>1, <2>2 DEF StepReturns
    <2>4. \A n \in Step \ (succeeded \cup failed) : started[n] = 1 =>
             <<n, 1>> \in running' \/ \E p \in Outcomes : <<<<n, 1>>, p>> \in sending'
      BY <1>1, <2>1 DEF StepReturns
    <2>5. QED
      BY <1>1, <2>1, <2>3, <2>4 DEF StepReturns
  <1>4. ASSUME NEW m \in sending, SelectMessage(m[1], m[2])
        PROVE  Progress'
    <2> DEFINE n == m[1][1]
    <2>1. m = <<<<n, 1>>, m[2]>> /\ n \in Step /\ m[2] \in Outcomes
      BY DEF TypeOK, Goroutine
    <2>2. n \notin succeeded \cup failed
      OBVIOUS
    <2>3. started[n] = 1 /\ n \in graph.nodes
      <3>1. 1 <= started[n] /\ started[n] <= 1 /\ started[n] \in Nat
        BY <2>1 DEF Accounting, TypeOK
      <3>2. started[n] = 1
        BY <3>1
      <3>3. QED
        BY <2>1, <3>2
    <2>4. /\ graph' = graph /\ started' = started /\ running' = running
          /\ sending' = sending \ {m}
          /\ pc = "select" /\ todo = {}
      BY <1>4, <2>1 DEF SelectMessage, Accounting
    <2>5. /\ m[2] = "ok" => /\ succeeded' = succeeded \cup {n}
                            /\ failed' = failed /\ todo' = Triggered(n)
          /\ m[2] = "error" => /\ failed' = failed \cup {n}
                               /\ succeeded' = succeeded /\ todo' = todo
      BY <1>4 DEF SelectMessage
    <2>6. \A t \in running : t[1] # n
      <3>1. <<n, 1>> \notin running
        BY <2>1 DEF Accounting
      <3>2. QED
        BY <3>1 DEF TypeOK, Goroutine
    <2>7. \A k \in sending : k # m => k[1][1] # n
      <3>1. SUFFICES ASSUME NEW k \in sending, k[1][1] = n
                     PROVE  k = m
        OBVIOUS
      <3>2. k[1] = <<n, 1>>
        BY <3>1 DEF TypeOK, Goroutine
      <3>3. QED
        BY <2>1, <3>2
    <2>8. \A c \in todo' : /\ c \in graph.nodes /\ started[c] = 0
                           /\ Parents(graph, c) \subseteq succeeded'
      <3>1. SUFFICES ASSUME NEW c \in Triggered(n), m[2] = "ok"
                     PROVE  /\ c \in graph.nodes /\ started[c] = 0
                            /\ Parents(graph, c) \subseteq succeeded \cup {n}
        BY <2>1, <2>4, <2>5 DEF Outcomes
      <3>2. /\ c \in graph.nodes /\ IsChild(graph, n, c)
            /\ HasAllLinks(graph.requires[c], CreatedBy(graph, succeeded \cup {n}))
        BY DEF Triggered, Children
      <3>3. Parents(graph, c) \subseteq succeeded \cup {n}
        BY <1>n, <2>3, <3>2, UniqueProvidersComplete
      <3>4. n \in Parents(graph, c)
        BY <2>3, <3>2 DEF Parents
      <3>5. started[c] # 1
        BY <2>2, <3>2, <3>4
      <3>6. started[c] \in Nat /\ started[c] <= 1
        BY <1>n, <3>2 DEF TypeOK
      <3>7. QED
        BY <3>2, <3>3, <3>5, <3>6
    <2>9. succeeded \subseteq succeeded' /\ succeeded' \cup failed' = succeeded \cup failed \cup {n}
      BY <2>1, <2>5 DEF Outcomes
    <2>10. \A k \in Step \ (succeeded' \cup failed') : started'[k] = 1 =>
              <<k, 1>> \in running' \/ \E o \in Outcomes : <<<<k, 1>>, o>> \in sending'
      BY <2>1, <2>4, <2>9
    <2>11. succeeded' \cap failed' = {}
      BY <2>1, <2>2, <2>5 DEF Outcomes
    <2>12. \A k \in graph.nodes : started[k] = 1 \/ k \in todo' => Parents(graph, k) \subseteq succeeded'
      BY <2>8, <2>9
    <2>13. /\ \A t \in running' : t[1] \notin succeeded' \cup failed' /\ t[2] = 1
           /\ \A k \in sending' : k[1][1] \notin succeeded' \cup failed' /\ k[1][2] = 1
           /\ \A k1, k2 \in sending' : k1[1] = k2[1] => k1 = k2
      BY <2>4, <2>6, <2>7, <2>9
    <2>14. /\ \A k \in succeeded' \cup failed' : started'[k] = 1
           /\ \A k \in todo' : started'[k] = 0
      BY <2>3, <2>4, <2>8, <2>9
    <2>15. QED
      BY <2>4, <2>10, <2>11, <2>12, <2>13, <2>14
  <1>5. ASSUME NEW c \in todo, StartChild(c)
        PROVE  Progress'
    <2>1. c \in Step /\ c \in graph.nodes /\ started[c] = 0
      BY <1>n DEF TypeOK
    <2>2. /\ graph' = graph /\ succeeded' = succeeded /\ failed' = failed
          /\ sending' = sending /\ todo' = todo \ {c}
      BY <1>5 DEF StartChild
    <2>3. /\ started' \in [Step -> Nat] /\ started'[c] = 1
          /\ \A n \in Step : n # c => started'[n] = started[n]
      BY <1>5, <2>1 DEF StartChild, TypeOK
    <2>4. running' = running \cup {<<c, 1>>}
      BY <1>5, <2>3 DEF StartChild
    <2>5. c \notin succeeded \cup failed
      BY <2>1
    <2>6. Parents(graph, c) \subseteq succeeded
      BY <2>1
    <2>7. succeeded \subseteq Step /\ failed \subseteq Step /\ todo \subseteq Step
      BY <1>n DEF TypeOK
    <2>8. /\ \A n \in Step : started'[n] <= 1
          /\ \A n \in succeeded' \cup failed' : started'[n] = 1
          /\ \A n \in todo' : started'[n] = 0
          /\ \A n \in Step : started'[n] = 1 => n \in graph'.nodes
      BY <2>1, <2>2, <2>3, <2>5, <2>7
    <2>9. /\ \A t \in running' : t[1] \notin succeeded' \cup failed' /\ t[2] = 1
          /\ \A m \in sending' : m[1][1] \notin succeeded' \cup failed' /\ m[1][2] = 1
      BY <2>2, <2>4, <2>5
    <2>10. \A n \in Step \ (succeeded' \cup failed') : started'[n] = 1 =>
              <<n, 1>> \in running' \/ \E o \in Outcomes : <<<<n, 1>>, o>> \in sending'
      BY <2>2, <2>3, <2>4
    <2>11. \A n \in graph.nodes :
              started'[n] = 1 \/ n \in todo' => Parents(graph, n) \subseteq succeeded
      BY <1>n, <2>2, <2>3, <2>6
    <2>12. QED
      BY <2>2, <2>8, <2>9, <2>10, <2>11
  <1>6. CASE Cancel \/ SelectInterrupted \/ MessageDone \/ WaiterWakes \/ SelectDone
             \/ UNCHANGED vars
    BY <1>6 DEF Cancel, SelectInterrupted, MessageDone, WaiterWakes, SelectDone, vars, steps
  <1>7. QED
    BY <1>1, <1>4, <1>5, <1>6 DEF Next, Run, AnyStepReturns, Terminated

\* Progress holds in every reachable state of an execution whose requirements
\* have one provider each.
THEOREM ProgressCorrect == SafetySpec => []UniqueProgress
  <1>1. ASSUME Init
        PROVE  UniqueProgress
    <2>1. Roots(graph) \subseteq graph.nodes /\ graph.nodes \subseteq Step
      BY <1>1, NodesOfGraph DEF Init
    <2>2. \A n \in Roots(graph) : Parents(graph, n) = {}
      BY DEF Roots
    <2>3. QED
      BY <1>1, <2>1, <2>2 DEF Init, UniqueProgress, Progress
  <1>2. ASSUME TypeOK, Accounting, UniqueProgress, [Next]_vars
        PROVE  UniqueProgress'
    <2>1. graph' = graph
      BY <1>2 DEF Next, Run, AnyStepReturns, StepReturns, Cancel, SelectInterrupted,
                  SelectMessage, StartChild, MessageDone, WaiterWakes, SelectDone,
                  Terminated, vars
    <2>2. QED
      BY <1>2, <2>1, ProgressInductive DEF UniqueProgress
  <1>3. QED
    BY <1>1, <1>2, AccountingCorrect, PTL DEF SafetySpec

\* Where every requirement has one provider no step is started twice, although
\* the loop never checks whether a child was started before.
THEOREM AtMostOnce == SafetySpec => []StartedAtMostOnce
  <1>1. ASSUME TypeOK, UniqueProgress
        PROVE  StartedAtMostOnce
    BY <1>1, NodesOfGraph DEF TypeOK, UniqueProgress, Progress, StartedAtMostOnce
  <1>2. QED
    BY <1>1, AccountingCorrect, ProgressCorrect, PTL

\* ... and no step is started before every one of its parents has succeeded.
THEOREM ParentsComeFirst == SafetySpec => []ParentsFirst
  <1>1. ASSUME TypeOK, UniqueProgress
        PROVE  ParentsFirst
    <2>1. graph.nodes \subseteq Step
      BY <1>1, NodesOfGraph DEF TypeOK
    <2>2. SUFFICES ASSUME UniqueProviders(graph), NEW n \in graph.nodes, started[n] > 0
                   PROVE  Parents(graph, n) \subseteq succeeded
      BY DEF ParentsFirst
    <2>3. started[n] \in Nat /\ started[n] <= 1
      BY <1>1, <2>1, <2>2 DEF TypeOK, UniqueProgress, Progress
    <2>4. started[n] = 1
      BY <2>2, <2>3
    <2>5. QED
      BY <1>1, <2>2, <2>4 DEF UniqueProgress, Progress
  <1>2. QED
    BY <1>1, AccountingCorrect, ProgressCorrect, PTL

-----------------------------------------------------------------------------
(* Nothing is forgotten *)

\* Every step that was started is over or has a goroutine, and goroutines are of
\* nodes of the graph.
Located ==
    /\ succeeded \subseteq graph.nodes
    /\ \A t \in running : t[1] \in graph.nodes
    /\ \A m \in sending : m[1][1] \in graph.nodes
    /\ \A n \in Step : started[n] > 0 =>
          \/ n \in succeeded \cup failed
          \/ \E t \in running : t[1] = n
          \/ \E m \in sending : m[1][1] = n

\* A node whose links are all there was started or is about to be, unless the loop
\* has seen a cancellation.
Remembered ==
    ~interrupted => \A n \in graph.nodes :
        HasAllLinks(graph.requires[n], CreatedBy(graph, succeeded)) =>
            started[n] > 0 \/ n \in todo

\* Where a step is found is kept by every step of every goroutine.
LEMMA LocatedInductive ==
    ASSUME TypeOK, Accounting, Located, [Next]_vars
    PROVE  Located'
  <1>n. graph.nodes \subseteq Step
    BY NodesOfGraph DEF TypeOK
  <1>1. ASSUME NEW t \in running, NEW o \in Outcomes, StepReturns(t, o)
        PROVE  Located'
    <2>1. /\ running' = running \ {t} /\ sending' = sending \cup {<<t, o>>}
          /\ UNCHANGED <<graph, started, succeeded, failed>>
      BY <1>1 DEF StepReturns
    <2>2. QED BY <2>1 DEF Located
  <1>2. ASSUME NEW m \in sending, SelectMessage(m[1], m[2])
        PROVE  Located'
    <2>1. m = <<m[1], m[2]>> /\ m[1][1] \in graph.nodes
      BY DEF TypeOK, Located
    <2>2. /\ sending' = sending \ {m} /\ UNCHANGED <<graph, started, running>>
          /\ succeeded' \cup failed' = succeeded \cup failed \cup {m[1][1]}
          /\ succeeded' \subseteq succeeded \cup {m[1][1]}
      BY <1>2, <2>1 DEF SelectMessage
    <2>3. QED BY <2>1, <2>2 DEF Located
  <1>3. ASSUME NEW c \in todo, StartChild(c)
        PROVE  Located'
    <2>1. c \in graph.nodes /\ c \in Step
      BY <1>n DEF TypeOK
    <2>2. /\ UNCHANGED <<graph, succeeded, failed, sending>>
          /\ running' = running \cup {<<c, started'[c]>>}
          /\ \A n \in Step : n # c => started'[n] = started[n]
      BY <1>3, <2>1 DEF StartChild, TypeOK
    <2>3. /\ \A t \in running' : t[1] \in graph.nodes
          /\ \E t \in running' : t[1] = c
      <3> DEFINE child == <<c, started'[c]>>
      <3>1. child[1] = c /\ running' = running \cup {child}
        BY <2>2
      <3> HIDE DEF child
      <3>2. QED BY <2>1, <3>1 DEF Located
    <2>4. ASSUME NEW n \in Step, started'[n] > 0
          PROVE  \/ n \in succeeded \cup failed
                 \/ \E t \in running' : t[1] = n
                 \/ \E m \in sending : m[1][1] = n
      BY <2>2, <2>3, <2>4 DEF Located
    <2>5. QED BY <2>2, <2>3, <2>4 DEF Located
  <1>4. CASE Cancel \/ SelectInterrupted \/ MessageDone \/ WaiterWakes \/ SelectDone
             \/ UNCHANGED vars
    BY <1>4 DEF Cancel, SelectInterrupted, MessageDone, WaiterWakes, SelectDone, vars, steps, Located
  <1>5. QED
    BY <1>1, <1>2, <1>3, <1>4 DEF Next, Run, AnyStepReturns, Terminated

\* The last provider to succeed is a parent, and finds the links complete.
LEMMA RememberedInductive ==
    ASSUME TypeOK, Accounting, Located, Remembered, ProvidersAreParents(graph), [Next]_vars
    PROVE  Remembered'
  <1>n. graph.nodes \subseteq Step
    BY NodesOfGraph DEF TypeOK
  <1>1. ASSUME NEW m \in sending, SelectMessage(m[1], m[2])
        PROVE  Remembered'
    <2> DEFINE s == m[1][1]
    <2>1. s \in graph.nodes /\ m[2] \in Outcomes
      BY DEF TypeOK, Located
    <2>2. todo = {} /\ UNCHANGED <<graph, started, interrupted>>
      BY <1>1 DEF SelectMessage, Accounting
    <2>3. CASE m[2] = "error"
      <3>1. succeeded' = succeeded /\ todo' = todo
        BY <1>1, <2>3 DEF SelectMessage
      <3>2. QED BY <2>2, <3>1 DEF Remembered
    <2>4. CASE m[2] = "ok"
      <3>1. succeeded' = succeeded \cup {s} /\ todo' = Triggered(s)
        BY <1>1, <2>4 DEF SelectMessage
      <3>2. SUFFICES ASSUME ~interrupted, NEW n \in graph.nodes,
                            HasAllLinks(graph.requires[n], CreatedBy(graph, succeeded \cup {s}))
                     PROVE  started[n] > 0 \/ n \in Triggered(s)
        BY <2>2, <3>1 DEF Remembered
      <3>3. CASE HasAllLinks(graph.requires[n], CreatedBy(graph, succeeded))
        BY <2>2, <3>2, <3>3 DEF Remembered
      <3>4. CASE ~HasAllLinks(graph.requires[n], CreatedBy(graph, succeeded))
        <4>1. PICK r \in graph.requires[n] : ~\E hay \in CreatedBy(graph, succeeded) : SatisfiedBy(hay, r)
          BY <3>4 DEF HasAllLinks
        <4>2. PICK hay \in CreatedBy(graph, succeeded \cup {s}) : SatisfiedBy(hay, r)
          BY <3>2 DEF HasAllLinks
        <4>3. hay \in graph.creates[s]
          BY <4>1, <4>2 DEF CreatedBy
        <4>4. SatisfiedBy(r, hay)
          BY <2>1, <4>2, <4>3 DEF ProvidersAreParents
        <4>5. n \in Children(graph, s)
          BY <4>3, <4>4 DEF Children, IsChild
        <4>6. QED BY <3>2, <4>5 DEF Triggered
      <3>5. QED BY <3>3, <3>4
    <2>5. QED BY <2>1, <2>3, <2>4 DEF Outcomes
  <1>2. ASSUME NEW c \in todo, StartChild(c)
        PROVE  Remembered'
    <2>1. c \in Step /\ started[c] \in Nat
      BY <1>n DEF TypeOK
    <2>2. /\ UNCHANGED <<graph, succeeded, interrupted>> /\ todo' = todo \ {c}
          /\ started'[c] = started[c] + 1
          /\ \A n \in Step : n # c => started'[n] = started[n]
      BY <1>2, <2>1 DEF StartChild, TypeOK
    <2>3. started'[c] > 0
      BY <2>1, <2>2
    <2>4. QED BY <1>n, <2>2, <2>3 DEF Remembered
  <1>3. ASSUME NEW t \in running, NEW o \in Outcomes, StepReturns(t, o)
        PROVE  Remembered'
    BY <1>3 DEF StepReturns, Remembered
  <1>4. CASE Cancel \/ SelectInterrupted \/ MessageDone \/ WaiterWakes \/ SelectDone
             \/ UNCHANGED vars
    BY <1>4 DEF Cancel, SelectInterrupted, MessageDone, WaiterWakes, SelectDone, vars, steps, Remembered
  <1>5. QED
    BY <1>1, <1>2, <1>3, <1>4 DEF Next, Run, AnyStepReturns, Terminated

\* A graph that TopologicalSort accepts is executed completely if nothing fails and
\* nothing is interrupted: no child is forgotten because it was not ready when a
\* parent finished.  The links of the graph have to mean the same to BuildGraph, which
\* draws the edges, and to HasAllLinks, which Run asks; the two differ in direction.
THEOREM NothingForgotten ==
    SafetySpec => [](Accepted(graph) /\ ProvidersAreParents(graph) => CompleteOnSuccess)
  <1> DEFINE Rem == ProvidersAreParents(graph) => Remembered
  <1>1. ASSUME Init
        PROVE  Located /\ Rem
    <2>1. Roots(graph) \subseteq graph.nodes /\ graph.nodes \subseteq Step
      BY <1>1, NodesOfGraph DEF Init
    <2>2. Located
      <3>1. \A n \in Step : started[n] > 0 => n \in Roots(graph)
        BY <1>1 DEF Init
      <3>2. /\ \A t \in running : t[1] \in Roots(graph)
            /\ \A n \in Roots(graph) : <<n, 1>> \in running
        BY <1>1 DEF Init
      <3>3. \A n \in Roots(graph) : \E t \in running : t[1] = n
        BY <3>2
      <3>4. succeeded = {} /\ sending = {}
        BY <1>1 DEF Init
      <3>5. QED BY <2>1, <3>1, <3>2, <3>3, <3>4 DEF Located
    <2>3. ASSUME NEW n \in graph.nodes, HasAllLinks(graph.requires[n], CreatedBy(graph, succeeded))
          PROVE  started[n] > 0
      <3>1. CreatedBy(graph, succeeded) = {}
        BY <1>1 DEF Init, CreatedBy
      <3>2. graph.requires[n] = {}
        BY <2>3, <3>1 DEF HasAllLinks
      <3>3. n \in Roots(graph)
        BY <3>2 DEF Roots, Parents, IsChild
      <3>4. QED BY <1>1, <2>1, <3>3 DEF Init
    <2>4. QED BY <2>2, <2>3 DEF Remembered
  <1>2. ASSUME TypeOK, Accounting, Located, Rem, [Next]_vars
        PROVE  Located' /\ Rem'
    <2>1. graph' = graph
      BY <1>2 DEF Next, Run, AnyStepReturns, StepReturns, Cancel, SelectInterrupted,
                  SelectMessage, StartChild, MessageDone, WaiterWakes, SelectDone,
                  Terminated, vars
    <2>2. QED
      BY <1>2, <2>1, LocatedInductive, RememberedInductive
  <1>3. ASSUME TypeOK, Accounting, NoSendOnClosedChannel, Located, Rem
        PROVE  Accepted(graph) /\ ProvidersAreParents(graph) => CompleteOnSuccess
    <2>1. SUFFICES ASSUME Accepted(graph), Remembered, pc = "returned", failed = {}, ~interrupted
                   PROVE  succeeded = graph.nodes
      BY <1>3 DEF CompleteOnSuccess
    <2>2. running = {} /\ sending = {} /\ todo = {}
      BY <1>3, <2>1 DEF NoSendOnClosedChannel, Accounting
    <2>3. graph.nodes \subseteq Step /\ succeeded \subseteq graph.nodes
      BY <1>3, NodesOfGraph DEF TypeOK, Located
    <2>4. \A n \in graph.nodes : HasAllLinks(graph.requires[n], CreatedBy(graph, succeeded)) =>
              n \in succeeded
      BY <1>3, <2>1, <2>2, <2>3 DEF Located, Remembered
    <2>5. FromRoots(graph) = graph.nodes /\ Providable(graph) = graph.nodes
      BY <2>1 DEF Accepted
    <2>6. \A n \in Providable(graph) : \A S \in SUBSET graph.nodes :
              (\A k \in FromRoots(graph) :
                  HasAllLinks(graph.requires[k], CreatedBy(graph, S)) => k \in S) => n \in S
      BY DEF Providable, Least
    <2>7. QED BY <2>3, <2>4, <2>5, <2>6
  <1>4. QED
    BY <1>1, <1>2, <1>3, AccountingCorrect, ChannelsClosedSafely, PTL DEF SafetySpec

-----------------------------------------------------------------------------
(* The executor implements the abstract schedule *)

\* The loop of Run, with its goroutines and its counter, behaves as StepSchedule
\* says, step by step.
THEOREM RunImplementsSchedule == SafetySpec => ImplementsSchedule
  <1>0. \A n : Schedule!Parents(graph, n) = Parents(graph, n)
    BY DEF Parents, IsChild, SatisfiedBy, Schedule!Parents, Schedule!IsChild,
           Schedule!SatisfiedBy
  <1>r. Schedule!Roots(graph) = Roots(graph)
    BY <1>0 DEF Roots, Schedule!Roots
  <1>1. ASSUME Init
        PROVE  Schedule!Init
    <2>1. Status = [n \in Step |-> IF n \in Roots(graph) THEN "running" ELSE "idle"]
      BY <1>1 DEF Init, Status
    <2>2. QED
      BY <1>1, <1>r, <2>1 DEF Init, Schedule!Init
  <1>u. Schedule!UniqueProviders(graph) <=> UniqueProviders(graph)
    BY DEF UniqueProviders, Provides, SatisfiedBy, Schedule!UniqueProviders,
           Schedule!Provides, Schedule!SatisfiedBy
  <1>2. ASSUME TypeOK, Accounting, UniqueProgress, [Next]_vars, UniqueProviders(graph)
        PROVE  [Schedule!Next]_Schedule!svars
    <2> USE DEF Schedule!svars
    <2>0. /\ Progress
          /\ graph.nodes \subseteq Step
      BY <1>2, NodesOfGraph DEF UniqueProgress, TypeOK
    <2>1. ASSUME NEW t \in running, NEW o \in Outcomes, StepReturns(t, o)
          PROVE  UNCHANGED Schedule!svars
      BY <2>1 DEF StepReturns, Status
    <2>2. CASE Cancel \/ MessageDone \/ WaiterWakes \/ UNCHANGED vars
      <3>1. /\ UNCHANGED <<graph, interrupted, succeeded, failed, started>>
            /\ pc = "returned" <=> pc' = "returned"
        BY <1>2, <2>2 DEF Cancel, MessageDone, WaiterWakes, vars, steps
      <3>2. UNCHANGED Status
        BY <3>1 DEF Status
      <3>3. QED
        BY <3>1, <3>2
    <2>3. CASE SelectInterrupted
      <3>1. UNCHANGED Status
        BY <2>3 DEF SelectInterrupted, steps, Status
      <3>2. Schedule!Halt
        BY <2>3, <3>1 DEF SelectInterrupted, Schedule!Halt
      <3>3. QED
        BY <3>2 DEF Schedule!Next
    <2>4. ASSUME NEW m \in sending, SelectMessage(m[1], m[2])
          PROVE  Schedule!Next
      <3> DEFINE n == m[1][1]
      <3>1. m = <<<<n, 1>>, m[2]>> /\ n \in Step /\ m[2] \in Outcomes /\ n \notin succeeded \cup failed
        BY <1>2, <2>0 DEF TypeOK, Goroutine, Progress
      <3>2. started[n] = 1 /\ n \in graph.nodes
        <4>1. 1 <= started[n] /\ started[n] <= 1 /\ started[n] \in Nat
          BY <1>2, <2>0, <3>1 DEF Accounting, TypeOK, Progress
        <4>2. started[n] = 1
          BY <4>1
        <4>3. QED
          BY <2>0, <3>1, <4>2 DEF Progress
      <3>3. Status[n] = "running"
        BY <3>1, <3>2 DEF Status
      <3>4. /\ graph' = graph /\ started' = started /\ interrupted' = interrupted
            /\ pc = "select" /\ pc' = "handling"
        BY <2>4 DEF SelectMessage
      <3>5. CASE m[2] = "ok"
        <4>1. succeeded' = succeeded \cup {n} /\ failed' = failed
          BY <2>4, <3>5 DEF SelectMessage
        <4>2. Status' = [Status EXCEPT ![n] = "ok"]
          BY <3>1, <3>4, <4>1 DEF Status
        <4>3. Schedule!Finish(n, "ok")
          BY <3>3, <3>4, <4>2 DEF Schedule!Finish
        <4>4. QED
          BY <3>2, <4>3 DEF Schedule!Next
      <3>6. CASE m[2] = "error"
        <4>1. succeeded' = succeeded /\ failed' = failed \cup {n}
          BY <2>4, <3>6 DEF SelectMessage
        <4>2. Status' = [Status EXCEPT ![n] = "failed"]
          BY <3>1, <3>4, <4>1 DEF Status
        <4>3. Schedule!Finish(n, "failed")
          BY <3>3, <3>4, <4>2 DEF Schedule!Finish
        <4>4. QED
          BY <3>2, <4>3 DEF Schedule!Next
      <3>7. QED
        BY <3>1, <3>5, <3>6 DEF Outcomes
    <2>5. ASSUME NEW c \in todo, StartChild(c)
          PROVE  Schedule!Next
      <3>1. /\ c \in Step /\ c \in graph.nodes /\ started[c] = 0
            /\ Parents(graph, c) \subseteq succeeded
        BY <1>2, <2>0 DEF TypeOK, Progress
      <3>2. c \notin succeeded \cup failed
        BY <2>0, <3>1 DEF Progress
      <3>3. Status[c] = "idle"
        BY <3>1, <3>2 DEF Status
      <3>4. \A p \in Parents(graph, c) : Status[p] = "ok"
        BY <1>2, <3>1 DEF TypeOK, Status
      <3>5. ~interrupted
        BY <1>2 DEF Accounting
      <3>6. /\ UNCHANGED <<graph, interrupted, succeeded, failed>>
            /\ pc = "handling" /\ pc' = "handling"
            /\ started' = [started EXCEPT ![c] = 1]
        BY <2>5, <3>1 DEF StartChild
      <3>7. Status' = [Status EXCEPT ![c] = "running"]
        <4>1. started \in [Step -> Nat] /\ started'[c] = 1
          BY <1>2, <3>1, <3>6 DEF TypeOK
        <4>2. \A n \in Step : n # c => started'[n] = started[n]
          BY <3>6, <4>1
        <4>3. Status'[c] = "running"
          BY <3>1, <3>2, <3>6, <4>1 DEF Status
        <4>4. \A n \in Step : n # c => Status'[n] = Status[n]
          BY <3>6, <4>2 DEF Status
        <4>5. /\ Status' = [n \in Step |-> Status'[n]]
              /\ Status = [n \in Step |-> Status[n]]
          BY DEF Status
        <4>6. QED
          BY <3>1, <4>3, <4>4, <4>5
      <3>8. Schedule!Start(c)
        BY <1>0, <3>3, <3>4, <3>5, <3>6, <3>7 DEF Schedule!Start
      <3>9. QED
        BY <3>1, <3>8 DEF Schedule!Next
    <2>6. CASE SelectDone
      <3>1. UNCHANGED <<graph, interrupted, Status>> /\ pc = "select" /\ pc' = "returned"
        BY <2>6 DEF SelectDone, steps, Status
      <3>2. running = {} /\ sending = {}
        <4>1. wg = 0 /\ handled = {}
          BY <1>2, <2>6 DEF SelectDone, Accounting
        <4>2. /\ Cardinality(running) \in Nat /\ Cardinality(sending) \in Nat
              /\ Cardinality(handled) = 0
          BY <1>2, <4>1, FS_CardinalityType, FS_EmptySet DEF Accounting
        <4>3. Cardinality(running) = 0 /\ Cardinality(sending) = 0
          BY <1>2, <4>1, <4>2 DEF Accounting, WaitGroupCountsGoroutines
        <4>4. QED
          BY <1>2, <4>3, FS_EmptySet DEF Accounting
      <3>3. ASSUME NEW n \in graph.nodes
            PROVE  Status[n] # "running"
        <4>1. started[n] \in Nat /\ started[n] <= 1 /\ n \in Step
          BY <1>2, <2>0 DEF TypeOK, Progress
        <4>2. CASE started[n] = 0
          BY <4>1, <4>2 DEF Status
        <4>3. CASE started[n] = 1
          <5>1. n \in succeeded \cup failed
            BY <2>0, <3>2, <4>1, <4>3 DEF Progress
          <5>2. QED
            BY <4>1, <5>1 DEF Status
        <4>4. QED
          BY <4>1, <4>2, <4>3
      <3>4. Schedule!End
        BY <3>1, <3>3 DEF Schedule!End
      <3>5. QED
        BY <3>4 DEF Schedule!Next
    <2>7. QED
      BY <1>2, <2>1, <2>2, <2>3, <2>4, <2>5, <2>6 DEF Next, Run, AnyStepReturns, Terminated
  <1>3. ASSUME [Next]_vars, ~UniqueProviders(graph)
        PROVE  [Schedule!Next]_Schedule!svars
    <2>1. graph' = graph
      BY <1>3 DEF Next, Run, AnyStepReturns, SelectInterrupted, SelectMessage, StartChild,
                  MessageDone, SelectDone, StepReturns, WaiterWakes, Cancel, Terminated, vars
    <2>2. QED
      BY <1>3, <1>u, <2>1 DEF Schedule!Next, Schedule!Unpromised
  <1>4. ASSUME TypeOK, Accounting, UniqueProgress, [Next]_vars
        PROVE  [Schedule!Next]_Schedule!svars
    <2>1. CASE UniqueProviders(graph)
      BY <1>2, <1>4, <2>1
    <2>2. CASE ~UniqueProviders(graph)
      BY <1>3, <1>4, <2>2
    <2>3. QED
      BY <2>1, <2>2
  <1>5. QED
    BY <1>1, <1>4, AccountingCorrect, ProgressCorrect, PTL
    DEF SafetySpec, ImplementsSchedule, Schedule!Spec

-----------------------------------------------------------------------------
(* The planner *)

\* The members of a sequence that is extended, continued or taken apart.
LEMMA Members ==
    ASSUME NEW S, NEW a \in Seq(S), NEW b \in Seq(S), NEW x \in S
    PROVE  /\ a \o b \in Seq(S) /\ ToSet(a \o b) = ToSet(a) \cup ToSet(b)
           /\ Append(a, x) \in Seq(S) /\ ToSet(Append(a, x)) = ToSet(a) \cup {x}
           /\ ToSet(a) \subseteq S
  <1>1. Range(a \o b) = Range(a) \cup Range(b) /\ a \o b \in Seq(S)
    BY RangeConcatenation, ConcatProperties
  <1>2. Append(a, x) \in Seq(S) /\ Range(Append(a, x)) = Range(a) \cup {x}
    <2>1. /\ Append(a, x) \in Seq(S) /\ Len(Append(a, x)) = Len(a) + 1 /\ Len(a) \in Nat
          /\ DOMAIN a = 1 .. Len(a) /\ DOMAIN Append(a, x) = 1 .. Len(a) + 1
          /\ \A i \in 1 .. Len(a) : Append(a, x)[i] = a[i]
          /\ Append(a, x)[Len(a) + 1] = x
      BY AppendProperties, LenProperties
    <2>2. QED BY <2>1 DEF Range
  <1>3. ToSet(a) \subseteq S
    BY DEF ToSet
  <1>4. QED BY <1>1, <1>2, <1>3 DEF Range, ToSet

\* The first member and the others.
LEMMA HeadAndTail ==
    ASSUME NEW S, NEW a \in Seq(S), a # <<>>
    PROVE  /\ Head(a) \in S /\ Tail(a) \in Seq(S)
           /\ ToSet(a) = {Head(a)} \cup ToSet(Tail(a))
  <1>1. /\ Head(a) = a[1] /\ Head(a) \in S /\ Tail(a) \in Seq(S) /\ Len(Tail(a)) = Len(a) - 1
        /\ Len(a) \in Nat \ {0} /\ \A i \in 1 .. Len(a) - 1 : Tail(a)[i] = a[i + 1]
    BY HeadTailProperties, LenProperties
  <1>2. DOMAIN a = 1 .. Len(a) /\ DOMAIN Tail(a) = 1 .. Len(a) - 1
    BY <1>1, LenProperties
  <1>3. ASSUME NEW x \in ToSet(a) PROVE x \in {Head(a)} \cup ToSet(Tail(a))
    <2>1. PICK i \in 1 .. Len(a) : x = a[i]
      BY <1>2 DEF ToSet
    <2>2. CASE i = 1
      BY <2>1, <2>2, <1>1
    <2>3. CASE i # 1
      <3>1. i - 1 \in 1 .. Len(a) - 1 /\ Tail(a)[i - 1] = a[i]
        BY <1>1, <2>3
      <3>2. QED BY <1>2, <2>1, <3>1 DEF ToSet
    <2>4. QED BY <2>2, <2>3
  <1>4. ASSUME NEW x \in ToSet(Tail(a)) PROVE x \in ToSet(a)
    <2>1. PICK i \in 1 .. Len(a) - 1 : x = Tail(a)[i]
      BY <1>2 DEF ToSet
    <2>2. i + 1 \in 1 .. Len(a) /\ x = a[i + 1]
      BY <1>1, <2>1
    <2>3. QED BY <1>2, <2>2 DEF ToSet
  <1>5. Head(a) \in ToSet(a)
    BY <1>1, <1>2 DEF ToSet
  <1>6. QED BY <1>1, <1>3, <1>4, <1>5

\* The last member and the others.
LEMMA LastAndFront ==
    ASSUME NEW S, NEW a \in Seq(S), a # <<>>
    PROVE  /\ Len(a) \in Nat \ {0} /\ DOMAIN a = 1 .. Len(a)
           /\ Last(a) = a[Len(a)] /\ Last(a) \in S
           /\ Front(a) \in Seq(S) /\ Len(Front(a)) = Len(a) - 1
           /\ \A i \in 1 .. Len(a) - 1 : Front(a)[i] = a[i]
  <1>1. Len(a) \in Nat \ {0} /\ DOMAIN a = 1 .. Len(a)
    BY EmptySeq, LenProperties
  <1>2. Last(a) = a[Len(a)] /\ Front(a) = SubSeq(a, 1, Len(a) - 1)
    BY DEF Last, Front
  <1>3. QED BY <1>1, <1>2, SubSeqProperties

\* A member that loses an element.
LEMMA Replaced ==
    ASSUME NEW S, NEW a \in Seq(S), NEW i \in 1 .. Len(a), NEW y, a[i] \ {y} \in S
    PROVE  /\ [a EXCEPT ![i] = @ \ {y}] \in Seq(S) /\ Len([a EXCEPT ![i] = @ \ {y}]) = Len(a)
           /\ [a EXCEPT ![i] = @ \ {y}][i] = a[i] \ {y}
           /\ \A j \in 1 .. Len(a) : j # i => [a EXCEPT ![i] = @ \ {y}][j] = a[j]
  <1>1. [a EXCEPT ![i] = @ \ {y}] = [a EXCEPT ![i] = a[i] \ {y}]
    OBVIOUS
  <1> DEFINE e == a[i] \ {y}
  <1>2. e \in S
    OBVIOUS
  <1> HIDE DEF e
  <1>3. /\ [a EXCEPT ![i] = e] \in Seq(S) /\ Len([a EXCEPT ![i] = e]) = Len(a)
        /\ \A j \in 1 .. Len(a) : [a EXCEPT ![i] = e][j] = IF j=i THEN e ELSE a[j]
    BY <1>2, ExceptSeq
  <1>4. QED BY <1>1, <1>3 DEF e

\* The sequence in the order of the configuration holds the given nodes.
LEMMA InOrderMembers ==
    ASSUME NEW S, IsFiniteSet(S), NEW s \in InOrder(S)
    PROVE  s \in Seq(S) /\ ToSet(s) = S
  <1>1. Cardinality(S) \in Nat
    BY FS_CardinalityType
  <1>2. QED BY <1>1 DEF InOrder

\* The empty sequence has no members.
LEMMA EmptyMembers == ToSet(<<>>) = {}
  BY DEF ToSet

-----------------------------------------------------------------------------
(* The types *)

\* Nothing is left over from a phase that has not begun.
Fresh ==
    /\ phase \in {"match", "closure", "error_names"} =>
          path = <<>> /\ level = <<>> /\ ~cyclic /\ iterated = {}
    /\ phase \in {"match", "closure", "dag", "error_names", "error_cycle"} =>
          g = <<>> /\ waiting = <<>> /\ order = <<>> /\ ~changed
    /\ phase = "match" => plan.nodes = {} /\ step = 1 /\ ~added
    /\ phase = "dag" => Len(level) = Len(path) + 1

\* The types, with what the phases leave behind.
Typed == PlanTypeOK /\ Fresh

\* The configuration is one of those that the constant describes.
Shaped ==
    /\ IsFiniteSet(config.steps) /\ config.steps = 1 .. Cardinality(config.steps)
    /\ config.names \in Seq(ToSet(config.names))

\* The inductive invariant that all others rest on.
TypeInv == Typed /\ Shaped

\* What the configuration has.
LEMMA ConfigShape ==
    ASSUME TypeInv
    PROVE  /\ IsFiniteSet(config.steps) /\ config.steps = 1 .. Cardinality(config.steps)
           /\ Cardinality(config.steps) \in Nat
           /\ config.names \in Seq(ToSet(config.names))
           /\ plan.nodes \subseteq config.steps /\ IsFiniteSet(plan.nodes)
           /\ plan.requires = config.requires /\ plan.creates = config.creates
           /\ plan = [nodes |-> plan.nodes, requires |-> config.requires,
                       creates |-> config.creates]
  BY FS_CardinalityType, FS_Subset DEF TypeInv, Typed, Shaped, PlanTypeOK

\* A graph of chosen steps.
LEMMA NewGraph ==
    ASSUME TypeInv, NEW N \in SUBSET config.steps
    PROVE  /\ WithNodes(N) = [nodes |-> N, requires |-> config.requires, creates |-> config.creates]
           /\ WithNodes(N) \in [nodes : SUBSET config.steps,
                                requires : {config.requires}, creates : {config.creates}]
  BY ConfigShape DEF WithNodes

\* Roots and children are nodes.
LEMMA SubsetsOfNodes ==
    ASSUME NEW gr, NEW n
    PROVE  Roots(gr) \subseteq gr.nodes /\ Children(gr, n) \subseteq gr.nodes
  BY DEF Roots, Children

\* The graph that TopologicalSort begins with.
LEMMA BuildTypes ==
    ASSUME TypeInv, NEW N \in SUBSET config.steps, Build(N), phase \in {"match", "closure"},
           UNCHANGED <<config, step, added, path, cyclic, iterated, sorting>>
    PROVE  Typed'
  <1>1. plan' = [nodes |-> N, requires |-> config.requires, creates |-> config.creates]
    BY NewGraph DEF Build, TypeInv, Typed
  <1>2. Roots(plan') \subseteq N
    BY <1>1, SubsetsOfNodes
  <1>3. level' \in Seq(SUBSET N) /\ Len(level') = 1 /\ phase' = "dag"
    BY <1>2 DEF Build
  <1>4. path' = <<>> /\ ~cyclic' /\ iterated' = {} /\ cyclic' \in BOOLEAN
        /\ g' = <<>> /\ waiting' = <<>> /\ order' = <<>> /\ changed' = changed /\ ~changed
    BY DEF TypeInv, Typed, Fresh, PlanTypeOK, sorting
  <1>5. satisfied' = CreatedBy(plan', ToSet(order'))
    <2>1. order = <<>> /\ satisfied = CreatedBy(plan, ToSet(order)) /\ satisfied' = satisfied
      BY DEF TypeInv, Typed, Fresh, PlanTypeOK, sorting
    <2>2. QED BY <1>4, <2>1, EmptyMembers DEF CreatedBy
  <1>6. PlanTypeOK'
    BY <1>1, <1>3, <1>4, <1>5 DEF TypeInv, Typed, PlanTypeOK, sorting
  <1>7. Fresh'
    BY <1>3, <1>4 DEF Fresh, TypeInv, Typed, PlanTypeOK
  <1>8. QED BY <1>1, <1>6, <1>7 DEF TypeInv, Typed

\* Every loop of the planner keeps the types.
LEMMA TypesKept == TypeInv /\ [PlanNext]_planVars => Typed'
  <1> SUFFICES ASSUME TypeInv, [PlanNext]_planVars PROVE Typed'
    OBVIOUS
  <1>c. /\ IsFiniteSet(config.steps) /\ config.steps = 1 .. Cardinality(config.steps)
        /\ Cardinality(config.steps) \in Nat /\ plan.nodes \subseteq config.steps
        /\ IsFiniteSet(plan.nodes) /\ plan.creates = config.creates
    BY ConfigShape DEF TypeInv, Typed
  <1>1. CASE MatchNames
    <2> DEFINE matched == ToSet(config.names) \cap config.steps
    <2>1. CASE config.names = <<>> /\ Build(config.steps)
      BY <1>1, <2>1, BuildTypes DEF MatchNames, closing
    <2>2. CASE phase' = "error_names" /\ UNCHANGED <<plan, level>>
      <3>1. UNCHANGED <<config, plan, level, step, added, path, cyclic, iterated, g, waiting,
                        changed, satisfied, order>> /\ phase = "match"
        BY <1>1, <2>2 DEF MatchNames, closing, sorting
      <3>2. QED BY <2>2, <3>1 DEF TypeInv, Typed, PlanTypeOK, Fresh, Errors
    <2>3. CASE plan' = WithNodes(matched) /\ phase' = "closure" /\ UNCHANGED level
      <3>1. UNCHANGED <<config, level, step, added, path, cyclic, iterated, g, waiting,
                        changed, satisfied, order>> /\ phase = "match"
        BY <1>1, <2>3 DEF MatchNames, closing, sorting
      <3>2. plan' \in [nodes : SUBSET config.steps,
                        requires : {config.requires}, creates : {config.creates}]
        BY <2>3, NewGraph DEF TypeInv, Typed
      <3>3. satisfied = {} /\ CreatedBy(plan', ToSet(<<>>)) = {}
        BY <3>1, EmptyMembers DEF TypeInv, Typed, Fresh, PlanTypeOK, CreatedBy
      <3>4. path = <<>> /\ level = <<>> /\ iterated = {} /\ g = <<>> /\ waiting = <<>> /\ order = <<>>
        BY <3>1 DEF TypeInv, Typed, Fresh
      <3>5. PlanTypeOK'
        <4>1. path' \in Seq(plan'.nodes) /\ level' \in Seq(SUBSET plan'.nodes) /\ iterated' \subseteq plan'.nodes
              /\ g' \in Seq(plan'.nodes) /\ waiting' \in Seq(plan'.nodes) /\ order' \in Seq(plan'.nodes)
          BY <3>1, <3>4
        <4>2. satisfied' = CreatedBy(plan', ToSet(order'))
          BY <3>1, <3>3, <3>4
        <4>3. QED BY <2>3, <3>1, <3>2, <4>1, <4>2 DEF TypeInv, Typed, PlanTypeOK
      <3>6. Fresh'
        BY <2>3, <3>1, <3>4 DEF TypeInv, Typed, Fresh
      <3>7. QED BY <3>5, <3>6 DEF TypeInv, Typed
    <2>4. QED BY <1>1, <2>1, <2>2, <2>3 DEF MatchNames
  <1>2. CASE ClosureVisit
    <2>1. /\ phase = "closure" /\ step \in config.steps /\ step' = step + 1 /\ added' \in BOOLEAN
          /\ UNCHANGED <<phase, config, path, level, cyclic, iterated, g, waiting, changed,
                         satisfied, order>>
      BY <1>2 DEF ClosureVisit, iterating, sorting, TypeInv, Typed, PlanTypeOK
    <2>2. plan' \in [nodes : SUBSET config.steps,
                      requires : {config.requires}, creates : {config.creates}]
      <3>1. CASE plan' = WithNodes(plan.nodes \cup {step})
        BY <1>c, <2>1, <3>1, NewGraph DEF TypeInv, Typed
      <3>2. CASE plan' = plan
        BY <3>2 DEF TypeInv, Typed, PlanTypeOK
      <3>3. QED BY <1>2, <3>1, <3>2 DEF ClosureVisit
    <2>3. satisfied = {} /\ CreatedBy(plan', ToSet(<<>>)) = {}
      BY <2>1, EmptyMembers DEF TypeInv, Typed, Fresh, PlanTypeOK, CreatedBy
    <2>4. path = <<>> /\ level = <<>> /\ iterated = {} /\ g = <<>> /\ waiting = <<>> /\ order = <<>>
      BY <2>1 DEF TypeInv, Typed, Fresh
    <2>5. step' \in 1 .. Cardinality(config.steps) + 1
      BY <1>c, <2>1
    <2>6. PlanTypeOK'
      BY <2>1, <2>2, <2>3, <2>4, <2>5 DEF TypeInv, Typed, PlanTypeOK
    <2>7. Fresh'
      BY <2>1, <2>4 DEF TypeInv, Typed, Fresh
    <2>8. QED BY <2>6, <2>7 DEF TypeInv, Typed
  <1>3. CASE ClosureRound
    <2>1. CASE added /\ step' = 1 /\ added' = FALSE /\ UNCHANGED <<phase, plan, level>>
      <3>1. UNCHANGED <<phase, config, plan, level, path, cyclic, iterated, g, waiting,
                        changed, satisfied, order>> /\ phase = "closure"
        BY <1>3, <2>1 DEF ClosureRound, sorting
      <3>2. PlanTypeOK'
        <4>1. step' \in 1 .. Cardinality(config.steps) + 1
          BY <1>c, <2>1
        <4>2. added' \in BOOLEAN
          BY <2>1
        <4>3. QED BY <3>1, <4>1, <4>2 DEF TypeInv, Typed, PlanTypeOK
      <3>3. Fresh'
        BY <2>1, <3>1 DEF TypeInv, Typed, Fresh
      <3>4. QED BY <3>2, <3>3 DEF TypeInv, Typed
    <2>2. CASE Build(plan.nodes) /\ UNCHANGED closing
      BY <1>3, <1>c, <2>2, BuildTypes DEF ClosureRound, closing
    <2>3. QED BY <1>3, <2>1, <2>2 DEF ClosureRound
  <1>4. CASE IterateVisit
    <2>1. PICK node \in Last(level) :
            LET rest == [level EXCEPT ![Len(level)] = @ \ {node}]
            IN  \/ /\ node \in ToSet(path)
                   /\ cyclic' = TRUE /\ level' = rest
                   /\ UNCHANGED path
                \/ /\ node \notin ToSet(path)
                   /\ path' = Append(path, node)
                   /\ level' = Append(rest, Children(plan, node))
                   /\ UNCHANGED cyclic
      BY <1>4 DEF IterateVisit
    <2>2. /\ phase = "dag" /\ Last(level) # {}
          /\ UNCHANGED <<phase, config, plan, step, added, iterated, g, waiting, changed,
                         satisfied, order>>
      BY <1>4 DEF IterateVisit, closing, sorting
    <2>3. level \in Seq(SUBSET plan.nodes) /\ path \in Seq(plan.nodes) /\ Len(level) = Len(path) + 1
          /\ Len(path) \in Nat
      BY <2>2, LenProperties DEF TypeInv, Typed, PlanTypeOK, Fresh
    <2>4. level # <<>> /\ Len(level) \in 1 .. Len(level)
      BY <2>3
    <2>5. Len(level) \in DOMAIN level /\ level[Len(level)] \subseteq plan.nodes /\ Last(level) = level[Len(level)]
      <3>1. DOMAIN level = 1 .. Len(level) /\ Last(level) = level[Len(level)] /\ Last(level) \in SUBSET plan.nodes
        BY <2>3, <2>4, LastAndFront
      <3>2. QED BY <2>4, <3>1
    <2> DEFINE rest == [level EXCEPT ![Len(level)] = @ \ {node}]
    <2>6. rest \in Seq(SUBSET plan.nodes) /\ Len(rest) = Len(level)
      <3>1. level[Len(level)] \ {node} \in SUBSET plan.nodes
        BY <2>5
      <3> DEFINE T == SUBSET plan.nodes
      <3>2. level \in Seq(T) /\ Len(level) \in 1 .. Len(level) /\ level[Len(level)] \ {node} \in T
        BY <2>3, <2>4, <3>1
      <3> HIDE DEF T
      <3>3. rest \in Seq(T) /\ Len(rest) = Len(level)
        BY <3>2, Replaced
      <3>4. QED BY <3>3 DEF T
    <2>7. node \in plan.nodes /\ Children(plan, node) \in SUBSET plan.nodes
      BY <2>1, <2>5, SubsetsOfNodes
    <2>8. \/ path' = path /\ level' = rest /\ cyclic' = TRUE
          \/ path' = Append(path, node) /\ level' = Append(rest, Children(plan, node)) /\ cyclic' = cyclic
      BY <2>1
    <2> HIDE DEF rest
    <2>9. path' \in Seq(plan.nodes) /\ level' \in Seq(SUBSET plan.nodes) /\ Len(level') = Len(path') + 1
          /\ cyclic' \in BOOLEAN
      <3>1. CASE path' = path /\ level' = rest /\ cyclic' = TRUE
        BY <2>3, <2>6, <3>1
      <3>2. CASE path' = Append(path, node) /\ level' = Append(rest, Children(plan, node)) /\ cyclic' = cyclic
        <4>1. path' \in Seq(plan.nodes) /\ Len(path') = Len(path) + 1
          BY <2>3, <2>7, <3>2, AppendProperties
        <4>2. level' \in Seq(SUBSET plan.nodes) /\ Len(level') = Len(rest) + 1
          BY <2>6, <2>7, <3>2, AppendProperties
        <4>3. QED BY <2>3, <2>6, <3>2, <4>1, <4>2 DEF TypeInv, Typed, PlanTypeOK
      <3>3. QED BY <2>8, <3>1, <3>2
    <2>10. PlanTypeOK'
      BY <2>2, <2>9 DEF TypeInv, Typed, PlanTypeOK
    <2>11. Fresh'
      BY <2>2, <2>9 DEF TypeInv, Typed, Fresh
    <2>12. QED BY <2>10, <2>11 DEF TypeInv, Typed
  <1>5. CASE IterateReturn
    <2>1. /\ phase = "dag" /\ path # <<>> /\ iterated' = iterated \cup {Last(path)}
          /\ path' = Front(path) /\ level' = Front(level)
          /\ UNCHANGED <<phase, config, plan, step, added, cyclic, g, waiting, changed,
                         satisfied, order>>
      BY <1>5 DEF IterateReturn, closing, sorting
    <2>2. level \in Seq(SUBSET plan.nodes) /\ path \in Seq(plan.nodes) /\ Len(level) = Len(path) + 1
      BY <2>1 DEF TypeInv, Typed, PlanTypeOK, Fresh
    <2>3. level # <<>>
      BY <2>2, LenProperties
    <2>4. /\ path' \in Seq(plan.nodes) /\ Len(path') = Len(path) - 1 /\ Len(path) \in Nat
          /\ level' \in Seq(SUBSET plan.nodes) /\ Len(level') = Len(level) - 1 /\ Last(path) \in plan.nodes
      BY <2>1, <2>2, <2>3, LastAndFront
    <2>5. iterated' \subseteq plan.nodes
      BY <2>1, <2>4 DEF TypeInv, Typed, PlanTypeOK
    <2>6. PlanTypeOK'
      BY <2>1, <2>2, <2>4, <2>5 DEF TypeInv, Typed, PlanTypeOK
    <2>7. Fresh'
      BY <2>1, <2>2, <2>4 DEF TypeInv, Typed, Fresh
    <2>8. QED BY <2>6, <2>7 DEF TypeInv, Typed
  <1>6. CASE CheckDAG
    <2>1. /\ phase = "dag" /\ phase' \in {"error_cycle", "sorted", "sort"}
          /\ UNCHANGED <<config, plan, step, added, path, level, cyclic, iterated, waiting, changed,
                         satisfied, order>>
          /\ g' = g \/ g' \in InOrder(Roots(plan))
          /\ phase' = "error_cycle" => g' = g
      BY <1>6 DEF CheckDAG, closing, iterating
    <2>2. g' \in Seq(plan.nodes)
      <3>1. Roots(plan) \subseteq plan.nodes /\ IsFiniteSet(Roots(plan))
        BY <1>c, SubsetsOfNodes, FS_Subset
      <3>2. ASSUME g' \in InOrder(Roots(plan)) PROVE g' \in Seq(plan.nodes)
        BY <3>1, <3>2, InOrderMembers
      <3>3. QED BY <2>1, <3>2 DEF TypeInv, Typed, PlanTypeOK
    <2>3. PlanTypeOK'
      BY <2>1, <2>2 DEF TypeInv, Typed, PlanTypeOK, Errors
    <2>4. Fresh'
      BY <2>1 DEF TypeInv, Typed, Fresh
    <2>5. QED BY <2>3, <2>4 DEF TypeInv, Typed
  <1>7. CASE SortVisit
    <2> DEFINE node == Head(g)
               kids == Children(plan, Head(g)) \ ToSet(order)
    <2>1. /\ phase = "sort" /\ g # <<>> /\ g' = Tail(g)
          /\ UNCHANGED <<phase, config, plan, step, added, path, level, cyclic, iterated>>
      BY <1>7 DEF SortVisit, closing, iterating
    <2>2. PICK unseen \in InOrder(kids) :
            \/ waiting' = waiting \o unseen /\ UNCHANGED <<changed, satisfied, order>>
            \/ waiting' = Append(waiting \o unseen, node) /\ UNCHANGED <<changed, satisfied, order>>
            \/ /\ waiting' = waiting \o unseen /\ satisfied' = satisfied \cup plan.creates[node]
               /\ order' = Append(order, node) /\ changed' = TRUE
      BY <1>7 DEF SortVisit
    <2>3. node \in plan.nodes /\ g' \in Seq(plan.nodes)
      BY <2>1, HeadAndTail DEF TypeInv, Typed, PlanTypeOK
    <2>4. unseen \in Seq(plan.nodes)
      <3>1. kids \subseteq plan.nodes /\ IsFiniteSet(kids)
        BY <1>c, SubsetsOfNodes, FS_Subset
      <3>2. unseen \in Seq(kids)
        BY <3>1, InOrderMembers
      <3>3. QED BY <3>1, <3>2
    <2> HIDE DEF node, kids
    <2>5. waiting \o unseen \in Seq(plan.nodes) /\ Append(waiting \o unseen, node) \in Seq(plan.nodes)
      BY <2>3, <2>4, Members DEF TypeInv, Typed, PlanTypeOK
    <2>6. Append(order, node) \in Seq(plan.nodes) /\ ToSet(Append(order, node)) = ToSet(order) \cup {node}
      BY <2>3, Members DEF TypeInv, Typed, PlanTypeOK
    <2>7. CreatedBy(plan, ToSet(order) \cup {node}) = satisfied \cup plan.creates[node]
      BY DEF CreatedBy, TypeInv, Typed, PlanTypeOK
    <2>8. waiting' \in Seq(plan.nodes) /\ order' \in Seq(plan.nodes) /\ changed' \in BOOLEAN
          /\ satisfied' = CreatedBy(plan, ToSet(order'))
      BY <2>2, <2>5, <2>6, <2>7 DEF TypeInv, Typed, PlanTypeOK
    <2>9. PlanTypeOK'
      BY <2>1, <2>3, <2>8 DEF TypeInv, Typed, PlanTypeOK
    <2>10. Fresh'
      BY <2>1 DEF Fresh
    <2>11. QED BY <2>9, <2>10 DEF TypeInv, Typed
  <1>8. CASE SortPass
    <2>1. /\ phase = "sort" /\ phase' \in {"error_missing", "sorted", "sort"}
          /\ g' = waiting /\ waiting' = <<>> /\ changed' = FALSE
          /\ UNCHANGED <<config, plan, step, added, path, level, cyclic, iterated, satisfied, order>>
      BY <1>8 DEF SortPass, closing, iterating
    <2>2. g' \in Seq(plan.nodes) /\ waiting' \in Seq(plan.nodes)
      <3>1. waiting \in Seq(plan.nodes) /\ <<>> \in Seq(plan.nodes)
        BY DEF TypeInv, Typed, PlanTypeOK
      <3>2. QED BY <2>1, <3>1
    <2>3. PlanTypeOK'
      <3>1. changed' \in BOOLEAN
        BY <2>1
      <3>2. QED BY <2>1, <2>2, <3>1 DEF TypeInv, Typed, PlanTypeOK, Errors
    <2>4. Fresh'
      BY <2>1 DEF Fresh
    <2>5. QED BY <2>3, <2>4 DEF TypeInv, Typed
  <1>9. CASE UNCHANGED planVars
    <2>1. UNCHANGED <<phase, config, plan, step, added, path, level, cyclic, iterated, g, waiting,
                      changed, satisfied, order>>
      BY <1>9 DEF planVars, closing, iterating, sorting
    <2>2. QED BY <2>1 DEF TypeInv, Typed, PlanTypeOK, Fresh
  <1>10. QED BY <1>1, <1>2, <1>3, <1>4, <1>5, <1>6, <1>7, <1>8, <1>9 DEF PlanNext

\* The configuration is never replaced.
LEMMA TypeInductive == TypeInv /\ [PlanNext]_planVars => TypeInv'
  <1> SUFFICES ASSUME TypeInv, [PlanNext]_planVars PROVE TypeInv'
    OBVIOUS
  <1>1. config' = config
    BY DEF PlanNext, MatchNames, ClosureVisit, ClosureRound, IterateVisit, IterateReturn, CheckDAG,
           SortVisit, SortPass, planVars
  <1>2. Shaped'
    BY <1>1 DEF TypeInv, Shaped
  <1>3. QED BY <1>2, TypesKept DEF TypeInv

\* The planner begins with an empty graph.
LEMMA TypeInitially == PlanInit => TypeInv
  <1> SUFFICES ASSUME PlanInit PROVE TypeInv
    OBVIOUS
  <1>1. Shaped /\ Cardinality(config.steps) \in Nat
    BY ConfigsAssumption, FS_CardinalityType DEF PlanInit, Shaped
  <1>2. satisfied = CreatedBy(plan, ToSet(<<>>))
    BY EmptyMembers DEF PlanInit, CreatedBy
  <1>3. config \in Configs /\ phase = "match"
        /\ plan = [nodes |-> {}, requires |-> config.requires, creates |-> config.creates]
        /\ step = 1 /\ added = FALSE
        /\ path = <<>> /\ level = <<>> /\ cyclic = FALSE /\ iterated = {}
        /\ g = <<>> /\ waiting = <<>> /\ changed = FALSE /\ order = <<>>
    BY DEF PlanInit
  <1>4. /\ path \in Seq(plan.nodes) /\ level \in Seq(SUBSET plan.nodes)
        /\ g \in Seq(plan.nodes) /\ waiting \in Seq(plan.nodes) /\ order \in Seq(plan.nodes)
        /\ step \in 1 .. Cardinality(config.steps) + 1
    BY <1>1, <1>3
  <1>5. plan \in [nodes : SUBSET config.steps, requires : {config.requires},
                  creates : {config.creates}]
    BY <1>3
  <1>6. PlanTypeOK
    BY <1>2, <1>3, <1>4, <1>5 DEF PlanTypeOK
  <1>7. Fresh
    BY <1>3 DEF Fresh
  <1>8. QED BY <1>1, <1>6, <1>7 DEF TypeInv, Typed

\* The planner keeps its types: every path, worklist and order is made of chosen
\* steps, and the links that count as satisfied are those the order creates.
THEOREM PlanTypes == PlanSpec => []PlanTypeOK
  <1>1. PlanInit => TypeInv
    BY TypeInitially
  <1>2. TypeInv => PlanTypeOK
    BY DEF TypeInv, Typed
  <1>3. QED BY <1>1, <1>2, TypeInductive, PTL DEF PlanSpec

-----------------------------------------------------------------------------
(* The targets are closed over what they depend on *)

\* A set of configured steps with the targets and everything they depend on.
Sufficient(S) ==
    /\ ToSet(config.names) \subseteq S
    /\ \A n \in S : Parents(WithNodes(config.steps), n) \subseteq S

\* The inductive invariant of BuildPartialGraph's rounds: what is chosen is in
\* every sufficient set, and a step that this round has passed by provides
\* nothing, unless the round has chosen another one.
ClosureInv ==
    /\ phase = "closure" => config.names # <<>>
    /\ (phase = "closure" \/ Planned) /\ config.names # <<>> =>
          /\ ToSet(config.names) \subseteq plan.nodes
          /\ \A S \in SUBSET config.steps : Sufficient(S) => plan.nodes \subseteq S
    /\ phase = "closure" /\ ~added =>
          \A m \in config.steps \ plan.nodes :
              m < step => ~HasAnyLinks(Required, config.creates[m])
    /\ Planned /\ config.names # <<>> =>
          \A m \in config.steps \ plan.nodes : ~HasAnyLinks(Required, config.creates[m])

\* The parents of a step among all the configured ones.
LEMMA AllParents ==
    ASSUME TypeInv, NEW n, NEW p
    PROVE  p \in Parents(WithNodes(config.steps), n) <=>
              /\ p \in config.steps
              /\ \E r \in config.requires[n], c \in config.creates[p] : SatisfiedBy(r, c)
  <1>1. config.steps \in SUBSET config.steps
    OBVIOUS
  <1>2. WithNodes(config.steps) = [nodes |-> config.steps, requires |-> config.requires,
                                   creates |-> config.creates]
    BY <1>1, NewGraph
  <1>3. QED BY <1>2 DEF Parents, IsChild

\* When there are as many names as matched steps, the names are those steps.
LEMMA AllMatched ==
    ASSUME TypeInv,
           Len(config.names) = Cardinality(ToSet(config.names) \cap config.steps)
    PROVE  ToSet(config.names) \cap config.steps = ToSet(config.names)
  <1> DEFINE T == ToSet(config.names)
             names == config.names
             L == Len(names)
  <1>1. names \in Seq(T) /\ L \in Nat /\ DOMAIN names = 1 .. L
    BY ConfigShape, LenProperties
  <1>2. IsFiniteSet(1 .. L) /\ Cardinality(1 .. L) = L
    BY <1>1, FS_Interval
  <1>3. names \in Surjection(1 .. L, T)
    <2>1. names \in [1 .. L -> T]
      BY <1>1, LenProperties
    <2>2. \A t \in T : \E i \in 1 .. L : names[i] = t
      BY <1>1 DEF ToSet
    <2>3. QED BY <2>1, <2>2 DEF Surjection
  <1>4. IsFiniteSet(T) /\ Cardinality(T) <= L
    BY <1>2, <1>3, FS_Surjection
  <1>5. T \cap config.steps \in SUBSET T
    OBVIOUS
  <1>6. Cardinality(T \cap config.steps) <= Cardinality(T)
    BY <1>4, <1>5, FS_Subset
  <1>7. Cardinality(T) \in Nat
    BY <1>4, FS_CardinalityType
  <1>8. Cardinality(T) = Cardinality(T \cap config.steps)
    BY <1>1, <1>4, <1>6, <1>7
  <1>9. T = T \cap config.steps
    BY <1>4, <1>5, <1>8, FS_Subset
  <1>10. QED BY <1>9

\* A set that suffices does so in the next state: it depends on nothing but the
\* configuration.
LEMMA SufficientKept ==
    ASSUME TypeInv, TypeInv', UNCHANGED config, NEW S
    PROVE  Sufficient(S)' <=> Sufficient(S)
  <1>1. config.steps \in SUBSET config.steps
    OBVIOUS
  <1>2. WithNodes(config.steps) = [nodes |-> config.steps, requires |-> config.requires,
                                   creates |-> config.creates]
    BY <1>1, NewGraph DEF TypeInv, Typed
  <1>3. plan' = [nodes |-> plan'.nodes, requires |-> config.requires,
                  creates |-> config.creates]
    BY DEF TypeInv, Typed, PlanTypeOK
  <1>4. WithNodes(config.steps)' = [nodes |-> config.steps, requires |-> config.requires,
                                    creates |-> config.creates]
    BY <1>3 DEF WithNodes
  <1>5. QED BY <1>2, <1>4 DEF Sufficient

\* No turn of a round breaks what the rounds rely on.
LEMMA ClosureInductive ==
    TypeInv /\ ClosureInv /\ [PlanNext]_planVars /\ TypeInv' => ClosureInv'
  <1> SUFFICES ASSUME TypeInv, ClosureInv, [PlanNext]_planVars, TypeInv' PROVE ClosureInv'
    OBVIOUS
  <1>c. /\ config.steps = 1 .. Cardinality(config.steps) /\ Cardinality(config.steps) \in Nat
        /\ plan.nodes \subseteq config.steps /\ step \in 1 .. Cardinality(config.steps) + 1
    BY ConfigShape DEF TypeInv, Typed, PlanTypeOK
  <1>s. UNCHANGED config => \A S : Sufficient(S)' <=> Sufficient(S)
    BY SufficientKept
  <1>1. CASE MatchNames
    <2> DEFINE matched == ToSet(config.names) \cap config.steps
    <2>1. UNCHANGED <<config, step, added>> /\ phase = "match" /\ step = 1
      BY <1>1 DEF MatchNames, closing, TypeInv, Typed, Fresh
    <2>2. CASE config.names = <<>> /\ Build(config.steps)
      BY <2>1, <2>2 DEF ClosureInv, Build
    <2>3. CASE phase' = "error_names"
      BY <2>3 DEF ClosureInv, Planned
    <2>4. CASE /\ config.names # <<>> /\ Len(config.names) = Cardinality(matched)
               /\ plan' = WithNodes(matched) /\ phase' = "closure"
      <3>1. matched = ToSet(config.names)
        BY <2>4, AllMatched DEF TypeInv, Typed
      <3>2. plan'.nodes = matched
        BY <2>4, NewGraph DEF TypeInv, Typed
      <3>3. \A m \in config.steps : ~(m < step')
        BY <1>c, <2>1
      <3>4. \A S : Sufficient(S) => matched \subseteq S
        BY DEF Sufficient
      <3>5. \A S : Sufficient(S)' => matched \subseteq S
        BY <1>s, <2>1, <3>4
      <3> HIDE DEF matched
      <3>6. QED BY <2>1, <2>4, <3>1, <3>2, <3>3, <3>5 DEF ClosureInv, Planned
    <2>5. QED BY <1>1, <2>2, <2>3, <2>4 DEF MatchNames
  <1>2. CASE ClosureVisit
    <2>1. /\ phase = "closure" /\ phase' = "closure" /\ step \in config.steps
          /\ step' = step + 1 /\ config' = config /\ config.names # <<>>
      BY <1>2 DEF ClosureVisit, ClosureInv
    <2>2. CASE /\ step \notin plan.nodes /\ HasAnyLinks(Required, config.creates[step])
               /\ plan' = WithNodes(plan.nodes \cup {step}) /\ added' = TRUE
      <3>1. plan'.nodes = plan.nodes \cup {step}
        BY <1>c, <2>1, <2>2, NewGraph DEF TypeInv, Typed
      <3>2. PICK n \in plan.nodes :
              \E r \in config.requires[n], c \in config.creates[step] : SatisfiedBy(r, c)
        BY <2>2 DEF HasAnyLinks, Required
      <3>3. step \in Parents(WithNodes(config.steps), n)
        BY <2>1, <3>2, AllParents DEF TypeInv, Typed
      <3>4. ASSUME NEW S \in SUBSET config.steps, Sufficient(S) PROVE plan'.nodes \subseteq S
        <4>1. plan.nodes \subseteq S
          BY <2>1, <3>4 DEF ClosureInv
        <4>2. step \in S
          BY <3>2, <3>3, <3>4, <4>1 DEF Sufficient
        <4>3. QED BY <3>1, <4>1, <4>2
      <3>5. ToSet(config'.names) \subseteq plan'.nodes
        BY <2>1, <3>1 DEF ClosureInv
      <3>6. \A S \in SUBSET config'.steps : Sufficient(S)' => plan'.nodes \subseteq S
        BY <1>s, <2>1, <3>4
      <3>7. QED BY <2>1, <2>2, <3>5, <3>6 DEF ClosureInv, Planned
    <2>3. CASE /\ step \in plan.nodes \/ ~HasAnyLinks(Required, config.creates[step])
               /\ UNCHANGED <<plan, added>>
      <3>1. Required' = Required
        BY <2>1, <2>3 DEF Required
      <3>2. \A S \in SUBSET config'.steps : Sufficient(S)' => plan'.nodes \subseteq S
        BY <1>s, <2>1, <2>3 DEF ClosureInv
      <3>3. ASSUME ~added', NEW m \in config.steps \ plan.nodes, m < step'
            PROVE  ~HasAnyLinks(Required, config.creates[m])
        <4>1. m < step \/ m = step
          BY <1>c, <2>1, <3>3
        <4>2. CASE m < step
          BY <2>1, <2>3, <3>3, <4>2 DEF ClosureInv
        <4>3. CASE m = step
          BY <2>3, <3>3, <4>3
        <4>4. QED BY <4>1, <4>2, <4>3
      <3>4. ToSet(config'.names) \subseteq plan'.nodes
        BY <2>1, <2>3 DEF ClosureInv
      <3>5. QED BY <2>1, <2>3, <3>1, <3>2, <3>3, <3>4 DEF ClosureInv, Planned
    <2>4. QED BY <1>2, <2>2, <2>3 DEF ClosureVisit
  <1>3. CASE ClosureRound
    <2>1. phase = "closure" /\ step \notin config.steps /\ config' = config /\ config.names # <<>>
      BY <1>3 DEF ClosureRound, ClosureInv
    <2>2. step = Cardinality(config.steps) + 1
      BY <1>c, <2>1
    <2>3. \A m \in config.steps : m < step
      BY <1>c, <2>2
    <2>4. plan'.nodes = plan.nodes
      <3>1. plan.nodes \in SUBSET config.steps
        BY <1>c
      <3>2. WithNodes(plan.nodes).nodes = plan.nodes
        BY <3>1, NewGraph DEF TypeInv, Typed
      <3>3. QED BY <1>3, <3>2 DEF ClosureRound, Build
    <2>5. Required' = Required
      BY <2>1, <2>4 DEF Required
    <2>6. ToSet(config'.names) \subseteq plan'.nodes
      BY <2>1, <2>4 DEF ClosureInv
    <2>7. \A S \in SUBSET config'.steps : Sufficient(S)' => plan'.nodes \subseteq S
      BY <1>s, <2>1, <2>4 DEF ClosureInv
    <2>8. CASE added /\ step' = 1 /\ added' = FALSE /\ UNCHANGED <<phase, plan, level>>
      <3>1. \A m \in config.steps : ~(m < step')
        BY <1>c, <2>8
      <3>2. QED BY <2>1, <2>6, <2>7, <2>8, <3>1 DEF ClosureInv, Planned
    <2>9. CASE ~added /\ Build(plan.nodes)
      <3>1. \A m \in config.steps \ plan.nodes : ~HasAnyLinks(Required, config.creates[m])
        BY <2>1, <2>3, <2>9 DEF ClosureInv
      <3>2. phase' = "dag"
        BY <2>9 DEF Build
      <3>3. QED BY <2>1, <2>4, <2>5, <2>6, <2>7, <3>1, <3>2 DEF ClosureInv, Planned
    <2>10. QED BY <1>3, <2>8, <2>9 DEF ClosureRound
  <1>4. CASE IterateVisit \/ IterateReturn \/ CheckDAG \/ SortVisit \/ SortPass \/ UNCHANGED planVars
    <2>1. /\ UNCHANGED <<config, plan, step, added>>
          /\ UNCHANGED phase \/ (Planned /\ Planned' /\ phase' # "closure")
      BY <1>4 DEF IterateVisit, IterateReturn, CheckDAG, SortVisit, SortPass, planVars, closing, Planned
    <2>2. Required' = Required
      BY <2>1 DEF Required
    <2>3. \A S : Sufficient(S)' <=> Sufficient(S)
      BY <1>s, <2>1
    <2>4. QED BY <2>1, <2>2, <2>3 DEF ClosureInv, Planned
  <1>5. QED BY <1>1, <1>2, <1>3, <1>4 DEF PlanNext

\* What BuildPartialGraph has chosen when its last round ends suffices, and is
\* part of everything that does.
LEMMA ClosureGivesExact == TypeInv /\ ClosureInv => ClosureIsExact
  <1> SUFFICES ASSUME TypeInv, ClosureInv, Planned, config.names # <<>>
               PROVE  plan.nodes = NeededBy(ToSet(config.names))
    BY DEF ClosureIsExact
  <1>1. NeededBy(ToSet(config.names)) =
          {n \in config.steps : \A S \in SUBSET config.steps : Sufficient(S) => n \in S}
    BY DEF NeededBy, Least, Sufficient
  <1>2. plan.nodes \subseteq config.steps
    BY ConfigShape DEF TypeInv, Typed
  <1>3. Sufficient(plan.nodes)
    <2>1. ASSUME NEW n \in plan.nodes, NEW p \in Parents(WithNodes(config.steps), n)
          PROVE  p \in plan.nodes
      <3>1. p \in config.steps /\ \E r \in config.requires[n], c \in config.creates[p] : SatisfiedBy(r, c)
        BY <2>1, AllParents DEF TypeInv, Typed
      <3>2. HasAnyLinks(Required, config.creates[p])
        BY <3>1 DEF HasAnyLinks, Required
      <3>3. QED BY <3>1, <3>2 DEF ClosureInv
    <2>2. QED BY <2>1 DEF Sufficient, ClosureInv
  <1>4. QED BY <1>1, <1>2, <1>3 DEF ClosureInv

\* Before anything is chosen there is nothing to show.
LEMMA ClosureInitially == PlanInit => ClosureInv
  BY DEF PlanInit, ClosureInv, Planned

\* BuildPartialGraph chooses the targets and what they transitively depend on, and
\* nothing else, for every configuration and every order of its steps.
THEOREM ClosureExact == PlanSpec => []ClosureIsExact
  <1>1. PlanInit => TypeInv /\ ClosureInv
    BY ClosureInitially, TypeInitially
  <1>2. TypeInv /\ ClosureInv /\ [PlanNext]_planVars => TypeInv' /\ ClosureInv'
    BY TypeInductive, ClosureInductive
  <1>3. QED BY <1>1, <1>2, ClosureGivesExact, PTL DEF PlanSpec
-----------------------------------------------------------------------------
(* The search for a cycle *)

\* What is at or below the roots: they, their children, and nothing that a
\* closed set does not have.
LEMMA AtOrBelowRoots ==
    ASSUME NEW gr
    PROVE  /\ FromRoots(gr) \subseteq gr.nodes
           /\ Roots(gr) \subseteq FromRoots(gr)
           /\ \A p \in FromRoots(gr) : Children(gr, p) \subseteq FromRoots(gr)
           /\ \A S \in SUBSET gr.nodes :
                 Roots(gr) \subseteq S /\ (\A p \in S : Children(gr, p) \subseteq S) =>
                     FromRoots(gr) \subseteq S
  <1>1. FromRoots(gr) =
          {n \in gr.nodes : \A S \in SUBSET gr.nodes :
              Roots(gr) \subseteq S /\ (\A p \in S : Children(gr, p) \subseteq S) => n \in S}
    BY DEF FromRoots, Least
  <1>2. Roots(gr) \subseteq gr.nodes /\ \A p : Children(gr, p) \subseteq gr.nodes
    BY SubsetsOfNodes
  <1>3. QED BY <1>1, <1>2

\* The nodes that a call of iterateDAG goes through: the roots, or the children
\* of the node it was made for.
Source(gr, calls, i) == IF i = 1 THEN Roots(gr) ELSE Children(gr, calls[i - 1])

\* The search for a cycle has ended without one.
Sorting == phase \in {"sort", "sorted", "error_missing"}

\* The path of iterateDAG descends from a root, and a call has only nodes of its
\* own left to visit.
Descends ==
    /\ \A i \in 1 .. Len(path) : path[i] \in Source(plan, path, i) /\ path[i] \in FromRoots(plan)
    /\ \A i \in 1 .. Len(path) + 1 : level[i] \subseteq Source(plan, path, i)

\* The nodes of every call were iterated, are still to be visited or are under way,
\* and what was iterated is complete and acyclic.
Accounted ==
    /\ \A i \in 1 .. Len(path) : Source(plan, path, i) \subseteq iterated \cup level[i] \cup {path[i]}
    /\ Source(plan, path, Len(path) + 1) \subseteq iterated \cup level[Len(path) + 1]
    /\ \A n \in iterated : Children(plan, n) \subseteq iterated
    /\ Acyclic(plan, iterated)

\* The inductive invariant of iterateDAG: while no cycle was found the nodes are
\* accounted for, and what it has found is a cycle below the roots.
DagInv ==
    /\ phase = "dag" => /\ Descends
                        /\ ~cyclic => Accounted
                        /\ cyclic => ~Acyclic(plan, FromRoots(plan))
    /\ phase = "error_cycle" => ~Acyclic(plan, FromRoots(plan))
    /\ Sorting => Acyclic(plan, FromRoots(plan))

\* A path that is closed by one of its nodes is a cycle below the roots.
LEMMA ClosedPath ==
    ASSUME TypeInv, Descends, NEW j \in 1 .. Len(path), path[j] \in Children(plan, path[Len(path)])
    PROVE  ~Acyclic(plan, FromRoots(plan))
  <1> DEFINE k == Len(path)
             C == {path[i] : i \in j .. k}
  <1>1. k \in Nat /\ j \in 1 .. k
    BY LenProperties DEF TypeInv, Typed, PlanTypeOK
  <1>2. C \subseteq FromRoots(plan)
    <2>1. \A i \in j .. k : i \in 1 .. k
      BY <1>1
    <2>2. QED BY <2>1 DEF Descends
  <1>3. C # {}
    BY <1>1
  <1>4. ASSUME NEW p \in C PROVE Children(plan, p) \cap C # {}
    <2>1. PICK i \in j .. k : p = path[i]
      OBVIOUS
    <2>2. CASE i = k
      <3>1. path[j] \in C
        BY <1>1
      <3>2. QED BY <2>1, <2>2, <3>1
    <2>3. CASE i # k
      <3>1. i + 1 \in j .. k /\ i + 1 \in 1 .. k /\ i + 1 # 1 /\ (i + 1) - 1 = i
        BY <1>1, <2>1, <2>3
      <3>2. path[i + 1] \in Source(plan, path, i + 1)
        BY <3>1 DEF Descends
      <3>3. path[i + 1] \in Children(plan, path[i])
        BY <3>1, <3>2 DEF Source
      <3>4. path[i + 1] \in C
        BY <3>1
      <3>5. QED BY <2>1, <3>3, <3>4
    <2>4. QED BY <2>2, <2>3
  <1> HIDE DEF C
  <1>5. QED BY <1>2, <1>3, <1>4 DEF Acyclic

\* A node whose children are all in a complete acyclic set may join it.
LEMMA AcyclicGrows ==
    ASSUME NEW gr, NEW S, NEW n,
           Acyclic(gr, S), \A p \in S : Children(gr, p) \subseteq S, Children(gr, n) \subseteq S
    PROVE  Acyclic(gr, S \cup {n})
  <1> SUFFICES ASSUME NEW T \in (SUBSET (S \cup {n})) \ {{}}
               PROVE  \E p \in T : Children(gr, p) \cap T = {}
    BY DEF Acyclic
  <1>1. CASE n \in S
    <2>1. T \in (SUBSET S) \ {{}}
      BY <1>1
    <2>2. QED BY <2>1 DEF Acyclic
  <1>2. CASE n \notin S /\ T \cap S = {}
    <2>1. n \in T
      BY <1>2
    <2>2. Children(gr, n) \cap T = {}
      BY <1>2
    <2>3. QED BY <2>1, <2>2
  <1>3. CASE n \notin S /\ T \cap S # {}
    <2>1. T \cap S \in (SUBSET S) \ {{}}
      BY <1>3
    <2>2. PICK p \in T \cap S : Children(gr, p) \cap (T \cap S) = {}
      BY <2>1 DEF Acyclic
    <2>3. Children(gr, p) \cap T = {}
      BY <2>2
    <2>4. QED BY <2>2, <2>3
  <1>4. QED BY <1>1, <1>2, <1>3

\* At the end of the search everything below the roots was iterated.
LEMMA AllIterated ==
    ASSUME TypeInv, Accounted, path = <<>>, level[1] = {}
    PROVE  Acyclic(plan, FromRoots(plan))
  <1>1. Len(path) = 0
    BY EmptySeq
  <1>2. Roots(plan) \subseteq iterated
    BY <1>1 DEF Accounted, Source
  <1>3. iterated \in SUBSET plan.nodes
    BY DEF TypeInv, Typed, PlanTypeOK
  <1>4. FromRoots(plan) \subseteq iterated
    BY <1>2, <1>3, AtOrBelowRoots DEF Accounted
  <1>5. QED BY <1>4 DEF Accounted, Acyclic

\* Every call of iterateDAG keeps account of what it goes through.
LEMMA DagInductive == TypeInv /\ DagInv /\ [PlanNext]_planVars /\ TypeInv' => DagInv'
  <1> SUFFICES ASSUME TypeInv, DagInv, [PlanNext]_planVars, TypeInv' PROVE DagInv'
    OBVIOUS
  <1>1. CASE MatchNames \/ ClosureVisit \/ ClosureRound
    <2>1. CASE phase' = "dag" /\ level' = <<Roots(plan')>>
      <3>1. path' = <<>> /\ ~cyclic' /\ iterated' = {}
        BY <1>1 DEF MatchNames, ClosureVisit, ClosureRound, TypeInv, Typed, Fresh, iterating
      <3>2. Len(path') = 0 /\ level'[1] = Roots(plan') /\ Len(path') + 1 = 1
        BY <2>1, <3>1
      <3>3. Source(plan', path', 1) = Roots(plan')
        BY DEF Source
      <3>4. \A S \in (SUBSET {}) \ {{}} : FALSE
        OBVIOUS
      <3>5. Acyclic(plan', iterated')
        BY <3>1, <3>4 DEF Acyclic
      <3>6. Descends'
        <4>1. \A i \in 1 .. Len(path') + 1 : i = 1
          BY <3>2
        <4>2. \A i \in 1 .. Len(path') : FALSE
          BY <3>2
        <4>3. QED BY <3>2, <3>3, <4>1, <4>2 DEF Descends
      <3>7. Accounted'
        <4>1. \A i \in 1 .. Len(path') : FALSE
          BY <3>2
        <4>2. QED BY <3>1, <3>2, <3>3, <3>5, <4>1 DEF Accounted
      <3>8. QED BY <2>1, <3>1, <3>6, <3>7 DEF DagInv, Sorting
    <2>2. CASE phase' \in {"closure", "error_names"}
      BY <2>2 DEF DagInv, Sorting
    <2>3. QED BY <1>1, <2>1, <2>2 DEF MatchNames, ClosureVisit, ClosureRound, Build
  <1>2. CASE IterateVisit
    <2> DEFINE k == Len(path)
    <2>1. PICK node \in Last(level) :
            LET rest == [level EXCEPT ![Len(level)] = @ \ {node}]
            IN  \/ /\ node \in ToSet(path)
                   /\ cyclic' = TRUE /\ level' = rest
                   /\ UNCHANGED path
                \/ /\ node \notin ToSet(path)
                   /\ path' = Append(path, node)
                   /\ level' = Append(rest, Children(plan, node))
                   /\ UNCHANGED cyclic
      BY <1>2 DEF IterateVisit
    <2>2. phase = "dag" /\ UNCHANGED <<phase, config, plan, iterated>>
      BY <1>2 DEF IterateVisit
    <2>3. /\ Descends /\ (~cyclic => Accounted) /\ (cyclic => ~Acyclic(plan, FromRoots(plan)))
          /\ path \in Seq(plan.nodes) /\ level \in Seq(SUBSET plan.nodes)
          /\ Len(level) = k + 1 /\ k \in Nat
      BY <2>2, LenProperties DEF DagInv, TypeInv, Typed, PlanTypeOK, Fresh
    <2>4. level # <<>> /\ k + 1 \in 1 .. Len(level)
      BY <2>3
    <2>5. Last(level) = level[k + 1] /\ level[k + 1] \in SUBSET plan.nodes
      <3>1. Last(level) = level[Len(level)] /\ Last(level) \in SUBSET plan.nodes
        BY <2>3, <2>4, LastAndFront
      <3>2. QED BY <2>3, <3>1
    <2>6. node \in Source(plan, path, k + 1) /\ node \in plan.nodes
      BY <2>1, <2>3, <2>4, <2>5 DEF Descends
    <2> DEFINE rest == [level EXCEPT ![k + 1] = @ \ {node}]
               T == SUBSET plan.nodes
    <2>7. level \in Seq(T) /\ level[k + 1] \ {node} \in T /\ Children(plan, node) \in T
      BY <2>3, <2>5, SubsetsOfNodes
    <2> HIDE DEF T
    <2>8. /\ rest \in Seq(T) /\ Len(rest) = Len(level) /\ rest[k + 1] = level[k + 1] \ {node}
          /\ \A j \in 1 .. Len(level) : j # k + 1 => rest[j] = level[j]
      BY <2>4, <2>7, Replaced
    <2>9. \/ node \in ToSet(path) /\ path' = path /\ level' = rest /\ cyclic' = TRUE
          \/ path' = Append(path, node) /\ level' = Append(rest, Children(plan, node)) /\ cyclic' = cyclic
      BY <2>1, <2>3
    <2>10. \A i \in 1 .. k + 1 : rest[i] \subseteq level[i]
      <3> SUFFICES ASSUME NEW i \in 1 .. k + 1 PROVE rest[i] \subseteq level[i]
        OBVIOUS
      <3>1. CASE i = k + 1
        BY <2>8, <3>1
      <3>2. CASE i # k + 1
        BY <2>3, <2>8, <3>2
      <3>3. QED BY <3>1, <3>2
    <2> HIDE DEF rest
    <2>11. CASE node \in ToSet(path) /\ path' = path /\ level' = rest /\ cyclic' = TRUE
      <3>1. \A i : Source(plan', path', i) = Source(plan, path, i)
        BY <2>2, <2>11 DEF Source
      <3>2. Descends'
        BY <2>2, <2>3, <2>10, <2>11, <3>1 DEF Descends
      <3>3. PICK j \in 1 .. k : node = path[j]
        BY <2>3, <2>11, LenProperties DEF ToSet
      <3>4. k + 1 # 1 /\ (k + 1) - 1 = k
        BY <2>3, <3>3
      <3>5. path[j] \in Children(plan, path[k])
        BY <2>6, <3>3, <3>4 DEF Source
      <3>6. ~Acyclic(plan, FromRoots(plan))
        BY <2>3, <3>3, <3>5, ClosedPath
      <3>7. QED BY <2>2, <2>11, <3>2, <3>6 DEF DagInv, Sorting
    <2>12. CASE path' = Append(path, node) /\ level' = Append(rest, Children(plan, node)) /\ cyclic' = cyclic
      <3>1. /\ Len(path') = k + 1 /\ path'[k + 1] = node
            /\ \A i \in 1 .. k : path'[i] = path[i]
        BY <2>3, <2>6, <2>12, AppendProperties
      <3>2. /\ level'[k + 2] = Children(plan, node)
            /\ \A i \in 1 .. k + 1 : level'[i] = rest[i]
        <4>1. Len(rest) = k + 1
          BY <2>3, <2>8
        <4>2. /\ Append(rest, Children(plan, node))[Len(rest) + 1] = Children(plan, node)
              /\ \A i \in 1 .. Len(rest) : Append(rest, Children(plan, node))[i] = rest[i]
          BY <2>7, <2>8, AppendProperties
        <4>3. (k + 1) + 1 = k + 2
          BY <2>3
        <4>4. QED BY <2>12, <4>1, <4>2, <4>3
      <3>3. \A i \in 1 .. k + 1 : Source(plan', path', i) = Source(plan, path, i)
        <4> SUFFICES ASSUME NEW i \in 1 .. k + 1 PROVE Source(plan', path', i) = Source(plan, path, i)
          OBVIOUS
        <4>1. CASE i = 1
          BY <2>2, <4>1 DEF Source
        <4>2. CASE i # 1
          <5>1. i - 1 \in 1 .. k
            BY <2>3, <4>2
          <5>2. QED BY <2>2, <3>1, <4>2, <5>1 DEF Source
        <4>3. QED BY <4>1, <4>2
      <3>4. Source(plan', path', k + 2) = Children(plan, node)
        <4>1. k + 2 # 1 /\ (k + 2) - 1 = k + 1
          BY <2>3
        <4>2. QED BY <2>2, <3>1, <4>1 DEF Source
      <3>5. node \in FromRoots(plan)
        <4>1. CASE k = 0
          <5>1. Source(plan, path, k + 1) = Roots(plan)
            BY <4>1 DEF Source
          <5>2. QED BY <2>6, <5>1, AtOrBelowRoots
        <4>2. CASE k # 0
          <5>1. k \in 1 .. k /\ k + 1 # 1 /\ (k + 1) - 1 = k
            BY <2>3, <4>2
          <5>2. path[k] \in FromRoots(plan) /\ node \in Children(plan, path[k])
            BY <2>3, <2>6, <5>1 DEF Descends, Source
          <5>3. QED BY <5>2, AtOrBelowRoots
        <4>3. QED BY <4>1, <4>2
      <3>6. /\ \A i \in 1 .. Len(path') : i \in 1 .. k \/ i = k + 1
            /\ \A i \in 1 .. Len(path') + 1 : i \in 1 .. k + 1 \/ i = k + 2
            /\ Len(path') + 1 = k + 2
            /\ \A i \in 1 .. k : i \in 1 .. k + 1 /\ i # k + 1
            /\ k + 1 \in 1 .. k + 1
        BY <2>3, <3>1
      <3>7. Descends'
        <4>1. ASSUME NEW i \in 1 .. Len(path') PROVE path'[i] \in Source(plan', path', i) /\ path'[i] \in FromRoots(plan')
          <5>1. CASE i \in 1 .. k
            BY <2>2, <2>3, <3>1, <3>3, <3>6, <5>1 DEF Descends
          <5>2. CASE i = k + 1
            BY <2>2, <2>6, <3>1, <3>3, <3>5, <3>6, <5>2
          <5>3. QED BY <3>6, <5>1, <5>2
        <4>2. ASSUME NEW i \in 1 .. Len(path') + 1 PROVE level'[i] \subseteq Source(plan', path', i)
          <5>1. CASE i \in 1 .. k + 1
            BY <2>3, <2>10, <3>2, <3>3, <5>1 DEF Descends
          <5>2. CASE i = k + 2
            BY <3>2, <3>4, <5>2
          <5>3. QED BY <3>6, <5>1, <5>2
        <4>3. QED BY <4>1, <4>2 DEF Descends
      <3>8. ASSUME ~cyclic' PROVE Accounted'
        <4>1. Accounted
          BY <2>3, <2>12, <3>8
        <4>2. ASSUME NEW i \in 1 .. Len(path')
              PROVE  Source(plan', path', i) \subseteq iterated \cup level'[i] \cup {path'[i]}
          <5>1. CASE i \in 1 .. k
            <6>1. rest[i] = level[i]
              BY <2>3, <2>8, <3>6, <5>1
            <6>2. QED BY <3>1, <3>2, <3>3, <3>6, <4>1, <5>1, <6>1 DEF Accounted
          <5>2. CASE i = k + 1
            <6>1. Source(plan, path, k + 1) \subseteq iterated \cup rest[k + 1] \cup {node}
              BY <2>8, <4>1 DEF Accounted
            <6>2. QED BY <3>1, <3>2, <3>3, <3>6, <5>2, <6>1
          <5>3. QED BY <3>6, <5>1, <5>2
        <4>3. Source(plan', path', Len(path') + 1) \subseteq iterated \cup level'[Len(path') + 1]
          BY <3>2, <3>4, <3>6
        <4>4. QED BY <2>2, <4>1, <4>2, <4>3 DEF Accounted
      <3>9. QED BY <2>2, <2>3, <2>12, <3>7, <3>8 DEF DagInv, Sorting
    <2>13. QED BY <2>9, <2>11, <2>12
  <1>3. CASE IterateReturn
    <2> DEFINE k == Len(path)
    <2>1. /\ phase = "dag" /\ path # <<>> /\ Last(level) = {} /\ iterated' = iterated \cup {Last(path)}
          /\ path' = Front(path) /\ level' = Front(level)
          /\ UNCHANGED <<phase, config, plan, cyclic>>
      BY <1>3 DEF IterateReturn
    <2>2. /\ Descends /\ (~cyclic => Accounted) /\ (cyclic => ~Acyclic(plan, FromRoots(plan)))
          /\ path \in Seq(plan.nodes) /\ level \in Seq(SUBSET plan.nodes) /\ Len(level) = k + 1
      BY <2>1 DEF DagInv, TypeInv, Typed, PlanTypeOK, Fresh
    <2>3. /\ k \in Nat \ {0} /\ Last(path) = path[k] /\ Len(path') = k - 1
          /\ \A i \in 1 .. k - 1 : path'[i] = path[i]
      BY <2>1, <2>2, LastAndFront
    <2>4. level # <<>>
      BY <2>2, <2>3
    <2>5. level[k + 1] = {} /\ \A i \in 1 .. k : level'[i] = level[i]
      <3>1. Last(level) = level[Len(level)] /\ \A i \in 1 .. Len(level) - 1 : Front(level)[i] = level[i]
        BY <2>2, <2>4, LastAndFront
      <3>2. Len(level) - 1 = k
        BY <2>2, <2>3
      <3>3. QED BY <2>1, <2>2, <3>1, <3>2
    <2>6. \A i \in 1 .. k : Source(plan', path', i) = Source(plan, path, i)
      <3> SUFFICES ASSUME NEW i \in 1 .. k PROVE Source(plan', path', i) = Source(plan, path, i)
        OBVIOUS
      <3>1. CASE i = 1
        BY <2>1, <3>1 DEF Source
      <3>2. CASE i # 1
        <4>1. i - 1 \in 1 .. k - 1
          BY <2>3, <3>2
        <4>2. QED BY <2>1, <2>3, <3>2, <4>1 DEF Source
      <3>3. QED BY <3>1, <3>2
    <2>7. /\ \A i \in 1 .. k - 1 : i \in 1 .. k
          /\ Len(path') + 1 = k /\ k \in 1 .. k /\ \A i \in 1 .. k : i \in 1 .. k + 1
          /\ k + 1 # 1 /\ (k + 1) - 1 = k
      BY <2>3
    <2>8. Descends'
      <3>1. \A i \in 1 .. k - 1 : path'[i] \in Source(plan', path', i) /\ path'[i] \in FromRoots(plan')
        BY <2>1, <2>2, <2>3, <2>6, <2>7 DEF Descends
      <3>2. \A i \in 1 .. k : level'[i] \subseteq Source(plan', path', i)
        BY <2>2, <2>5, <2>6, <2>7 DEF Descends
      <3>3. QED BY <2>3, <2>7, <3>1, <3>2 DEF Descends
    <2>9. ASSUME ~cyclic' PROVE Accounted'
      <3>1. Accounted
        BY <2>1, <2>2, <2>9
      <3>2. Children(plan, path[k]) \subseteq iterated
        <4>1. Source(plan, path, k + 1) = Children(plan, path[k])
          BY <2>7 DEF Source
        <4>2. QED BY <2>5, <3>1, <4>1 DEF Accounted
      <3>3. Acyclic(plan, iterated \cup {path[k]})
        BY <3>1, <3>2, AcyclicGrows DEF Accounted
      <3>4. \A n \in iterated' : Children(plan, n) \subseteq iterated'
        BY <2>1, <2>3, <3>1, <3>2 DEF Accounted
      <3>5. \A i \in 1 .. k - 1 : Source(plan', path', i) \subseteq iterated' \cup level'[i] \cup {path'[i]}
        BY <2>1, <2>3, <2>5, <2>6, <2>7, <3>1 DEF Accounted
      <3>6. Source(plan', path', k) \subseteq iterated' \cup level'[k]
        BY <2>1, <2>3, <2>5, <2>6, <2>7, <3>1 DEF Accounted
      <3>7. QED BY <2>1, <2>3, <2>7, <3>3, <3>4, <3>5, <3>6 DEF Accounted
    <2>10. QED BY <2>1, <2>2, <2>8, <2>9 DEF DagInv, Sorting
  <1>4. CASE CheckDAG
    <2>1. phase = "dag" /\ Last(level) = {} /\ path = <<>> /\ UNCHANGED <<config, plan>>
      BY <1>4 DEF CheckDAG
    <2>2. level \in Seq(SUBSET plan.nodes) /\ Len(level) = 1
      BY <2>1, EmptySeq DEF TypeInv, Typed, PlanTypeOK, Fresh
    <2>3. level[1] = {}
      <3>1. level # <<>>
        <4>1. Len(<<>>) = 0
          OBVIOUS
        <4>2. Len(level) # Len(<<>>)
          BY <2>2, <4>1
        <4>3. QED BY <4>2
      <3>2. QED BY <2>1, <2>2, <3>1, LastAndFront
    <2>4. CASE cyclic /\ phase' = "error_cycle"
      BY <2>1, <2>4 DEF DagInv, Sorting
    <2>5. CASE ~cyclic /\ phase' \in {"sort", "sorted"}
      <3>1. Acyclic(plan, FromRoots(plan))
        BY <2>1, <2>3, <2>5, AllIterated DEF DagInv
      <3>2. QED BY <2>1, <2>5, <3>1 DEF DagInv, Sorting
    <2>6. QED BY <1>4, <2>4, <2>5 DEF CheckDAG
  <1>5. CASE SortVisit \/ SortPass
    <2>1. Sorting /\ Sorting' /\ UNCHANGED plan
      BY <1>5 DEF SortVisit, SortPass, Sorting
    <2>2. QED BY <2>1 DEF DagInv, Sorting
  <1>6. CASE UNCHANGED planVars
    BY <1>6 DEF planVars, closing, iterating, sorting, DagInv, Sorting, Descends, Accounted, Source
  <1>7. QED BY <1>1, <1>2, <1>3, <1>4, <1>5, <1>6 DEF PlanNext
-----------------------------------------------------------------------------
(* The order, pass by pass *)

\* The steps that can be provided for: part of every set that takes in whoever
\* finds his links created by it, and so only steps at or below the roots.
LEMMA ProvidableLeast ==
    ASSUME NEW gr
    PROVE  /\ Providable(gr) =
                 {n \in gr.nodes : \A S \in SUBSET gr.nodes :
                    (\A m \in FromRoots(gr) :
                        HasAllLinks(gr.requires[m], CreatedBy(gr, S)) => m \in S) => n \in S}
           /\ Providable(gr) \subseteq FromRoots(gr)
  <1>1. Providable(gr) =
          {n \in gr.nodes : \A S \in SUBSET gr.nodes :
              (\A m \in FromRoots(gr) :
                  HasAllLinks(gr.requires[m], CreatedBy(gr, S)) => m \in S) => n \in S}
    BY DEF Providable, Least
  <1>2. FromRoots(gr) \in SUBSET gr.nodes
    BY AtOrBelowRoots
  <1>3. QED BY <1>1, <1>2

\* Whoever finds his links created by providable steps is providable.
LEMMA ProvidableGrows ==
    ASSUME NEW gr, NEW P \in SUBSET Providable(gr), NEW n \in FromRoots(gr),
           HasAllLinks(gr.requires[n], CreatedBy(gr, P))
    PROVE  n \in Providable(gr)
  <1> SUFFICES ASSUME NEW S \in SUBSET gr.nodes,
                      \A m \in FromRoots(gr) :
                          HasAllLinks(gr.requires[m], CreatedBy(gr, S)) => m \in S
               PROVE  n \in S
    BY ProvidableLeast, AtOrBelowRoots
  <1>1. P \subseteq S
    BY ProvidableLeast
  <1>2. CreatedBy(gr, P) \subseteq CreatedBy(gr, S)
    BY <1>1 DEF CreatedBy
  <1>3. HasAllLinks(gr.requires[n], CreatedBy(gr, S))
    BY <1>2 DEF HasAllLinks
  <1>4. QED BY <1>3

\* The steps that do not find their links created so far.
NotReady == {n \in plan.nodes : ~HasAllLinks(plan.requires[n], satisfied)}

\* A set has the roots and the children of what was ordered.
Covered(S) ==
    /\ Roots(plan) \subseteq S
    /\ \A n \in ToSet(order) : Children(plan, n) \subseteq S

\* Nothing that the order has opened up is lost between the worklists, and in a
\* pass that has added nothing it is ordered, still to be visited or not ready.
Worklists ==
    /\ Covered(ToSet(order) \cup ToSet(g) \cup ToSet(waiting))
    /\ ~changed => /\ Covered(ToSet(order) \cup ToSet(g) \cup NotReady)
                   /\ ToSet(waiting) \cap ToSet(order) = {}

\* The inductive invariant of TopologicalSort: the order can be executed and has
\* only providable steps, the worklists are complete, and the verdict is right.
SortInv ==
    /\ OrderIsExecutable
    /\ ToSet(order) \subseteq Providable(plan)
    /\ Sorting => ToSet(g) \cup ToSet(waiting) \subseteq FromRoots(plan)
    /\ phase = "sort" => Worklists
    /\ phase = "sorted" => Covered(ToSet(order))
    /\ phase = "error_missing" /\ ProvidersAreParents(plan) =>
          FromRoots(plan) # Providable(plan)

\* A pass that adds nothing has seen every step that is ready.
LEMMA NothingReady ==
    ASSUME TypeInv, ToSet(order) \subseteq Providable(plan),
           Covered(ToSet(order) \cup NotReady), ProvidersAreParents(plan)
    PROVE  Providable(plan) \subseteq ToSet(order)
  <1>1. ToSet(order) \in SUBSET plan.nodes /\ satisfied = CreatedBy(plan, ToSet(order))
    BY DEF ToSet, TypeInv, Typed, PlanTypeOK
  <1>2. ASSUME NEW n \in FromRoots(plan), HasAllLinks(plan.requires[n], satisfied)
        PROVE  n \in ToSet(order)
    <2>1. n \in plan.nodes /\ n \notin NotReady
      BY <1>2, AtOrBelowRoots DEF NotReady
    <2>2. CASE n \in Roots(plan)
      BY <2>1, <2>2 DEF Covered
    <2>3. CASE n \notin Roots(plan)
      <3>1. PICK r \in plan.requires[n] : TRUE
        BY <2>1, <2>3 DEF Roots, Parents, IsChild
      <3>2. PICK hay \in satisfied : SatisfiedBy(hay, r)
        BY <1>2, <3>1 DEF HasAllLinks
      <3>3. PICK q \in ToSet(order) : hay \in plan.creates[q]
        BY <1>1, <3>2 DEF CreatedBy
      <3>4. q \in plan.nodes
        BY <1>1, <3>3
      <3>5. SatisfiedBy(r, hay)
        BY <2>1, <3>1, <3>2, <3>3, <3>4 DEF ProvidersAreParents
      <3>6. n \in Children(plan, q)
        BY <2>1, <3>1, <3>3, <3>5 DEF Children, IsChild
      <3>7. QED BY <2>1, <3>3, <3>6 DEF Covered
    <2>4. QED BY <2>2, <2>3
  <1>3. QED BY <1>1, <1>2, ProvidableLeast

\* A step that is next, not ordered and ready extends the order.
LEMMA OrderExtended ==
    ASSUME TypeInv, OrderIsExecutable, NEW node \in plan.nodes, node \notin ToSet(order),
           HasAllLinks(plan.requires[node], satisfied), order' = Append(order, node),
           UNCHANGED plan
    PROVE  OrderIsExecutable'
  <1> DEFINE k == Len(order)
  <1>1. /\ order \in Seq(plan.nodes) /\ k \in Nat /\ DOMAIN order = 1 .. k
        /\ satisfied = CreatedBy(plan, ToSet(order))
    BY LenProperties DEF TypeInv, Typed, PlanTypeOK
  <1>2. /\ Len(order') = k + 1 /\ order'[k + 1] = node /\ \A j \in 1 .. k : order'[j] = order[j]
    BY <1>1, AppendProperties
  <1>3. ASSUME NEW i \in 1 .. Len(order')
        PROVE  LET before == {order'[j] : j \in 1 .. i - 1}
               IN  /\ order'[i] \notin before
                   /\ HasAllLinks(plan.requires[order'[i]], CreatedBy(plan, before))
    <2> DEFINE before == {order'[j] : j \in 1 .. i - 1}
    <2>1. CASE i \in 1 .. k
      <3>1. before = {order[j] : j \in 1 .. i - 1}
        <4>1. \A j \in 1 .. i - 1 : j \in 1 .. k
          BY <1>1, <2>1
        <4>2. QED BY <1>2, <4>1
      <3>2. order'[i] = order[i]
        BY <1>2, <2>1
      <3>3. LET earlier == {order[j] : j \in 1 .. i - 1}
            IN  order[i] \notin earlier /\ HasAllLinks(plan.requires[order[i]], CreatedBy(plan, earlier))
        BY <2>1 DEF OrderIsExecutable
      <3> HIDE DEF before
      <3>4. order'[i] \notin before /\ HasAllLinks(plan.requires[order'[i]], CreatedBy(plan, before))
        BY <3>1, <3>2, <3>3
      <3>5. QED BY <3>4 DEF before
    <2>2. CASE i = k + 1
      <3>1. before = ToSet(order)
        <4>1. i - 1 = k
          BY <1>1, <2>2
        <4>2. QED BY <1>1, <1>2, <4>1 DEF ToSet
      <3>2. order'[i] = node
        BY <1>2, <2>2
      <3> HIDE DEF before
      <3>3. order'[i] \notin before /\ HasAllLinks(plan.requires[order'[i]], CreatedBy(plan, before))
        BY <1>1, <3>1, <3>2
      <3>4. QED BY <3>3 DEF before
    <2>3. i \in 1 .. k \/ i = k + 1
      BY <1>1, <1>2
    <2>4. QED BY <2>1, <2>2, <2>3
  <1>4. QED BY <1>3 DEF OrderIsExecutable

\* No turn of TopologicalSort's loops loses a step or orders one too early.
LEMMA SortInductive ==
    TypeInv /\ SortInv /\ [PlanNext]_planVars /\ TypeInv' => SortInv'
  <1> SUFFICES ASSUME TypeInv, SortInv, [PlanNext]_planVars, TypeInv' PROVE SortInv'
    OBVIOUS
  <1>f. IsFiniteSet(plan.nodes)
    BY ConfigShape DEF TypeInv, Typed
  <1>1. CASE MatchNames \/ ClosureVisit \/ ClosureRound \/ IterateVisit \/ IterateReturn
             \/ (CheckDAG /\ phase' = "error_cycle")
    <2>1. order' = <<>> /\ ~Sorting'
      BY <1>1 DEF MatchNames, ClosureVisit, ClosureRound, IterateVisit, IterateReturn, CheckDAG,
                  Build, Sorting, sorting, TypeInv, Typed, Fresh
    <2>2. ToSet(order') = {} /\ \A i \in 1 .. Len(order') : FALSE
      BY <2>1, EmptyMembers
    <2>3. OrderIsExecutable'
      BY <2>2 DEF OrderIsExecutable
    <2>4. QED BY <2>1, <2>2, <2>3 DEF SortInv, Sorting
  <1>2. CASE CheckDAG /\ phase' # "error_cycle"
    <2>1. /\ order' = <<>> /\ waiting' = <<>> /\ ~changed' /\ plan' = plan
          /\ g' \in InOrder(Roots(plan)) /\ phase' \in {"sort", "sorted"}
          /\ phase' = "sorted" => Roots(plan) = {}
      BY <1>2 DEF CheckDAG, TypeInv, Typed, Fresh
    <2>2. ToSet(order') = {} /\ ToSet(waiting') = {} /\ \A i \in 1 .. Len(order') : FALSE
      BY <2>1, EmptyMembers
    <2>3. Roots(plan) \subseteq plan.nodes /\ IsFiniteSet(Roots(plan))
      BY <1>f, SubsetsOfNodes, FS_Subset
    <2>4. ToSet(g') = Roots(plan)
      BY <2>1, <2>3, InOrderMembers
    <2>5. OrderIsExecutable'
      BY <2>2 DEF OrderIsExecutable
    <2>6. ToSet(g') \subseteq FromRoots(plan')
      BY <2>1, <2>4, AtOrBelowRoots
    <2>7. \A S : Roots(plan') \subseteq S => Covered(S)'
      BY <2>2 DEF Covered
    <2>8. Worklists'
      BY <2>1, <2>2, <2>4, <2>7 DEF Worklists
    <2>9. phase' = "sorted" => Covered(ToSet(order))'
      BY <2>1, <2>2, <2>7
    <2>10. QED BY <2>1, <2>2, <2>5, <2>6, <2>8, <2>9 DEF SortInv
  <1>3. CASE SortVisit
    <2> DEFINE node == Head(g)
               kids == Children(plan, Head(g)) \ ToSet(order)
    <2>1. /\ phase = "sort" /\ phase' = "sort" /\ g # <<>> /\ g' = Tail(g)
          /\ UNCHANGED <<config, plan>>
      BY <1>3 DEF SortVisit
    <2>2. PICK unseen \in InOrder(kids) :
            \/ node \in ToSet(order) /\ waiting' = waiting \o unseen
               /\ UNCHANGED <<changed, satisfied, order>>
            \/ /\ node \notin ToSet(order) /\ ~HasAllLinks(plan.requires[node], satisfied)
               /\ waiting' = Append(waiting \o unseen, node)
               /\ UNCHANGED <<changed, satisfied, order>>
            \/ /\ node \notin ToSet(order) /\ HasAllLinks(plan.requires[node], satisfied)
               /\ waiting' = waiting \o unseen
               /\ order' = Append(order, node) /\ changed' = TRUE
      BY <1>3 DEF SortVisit
    <2>3. /\ g \in Seq(plan.nodes) /\ waiting \in Seq(plan.nodes) /\ order \in Seq(plan.nodes)
      BY DEF TypeInv, Typed, PlanTypeOK
    <2>4. node \in plan.nodes /\ ToSet(g) = {node} \cup ToSet(g')
      BY <2>1, <2>3, HeadAndTail
    <2>5. node \in FromRoots(plan)
      BY <2>1, <2>4 DEF SortInv, Sorting
    <2>6. unseen \in Seq(plan.nodes) /\ ToSet(unseen) = kids /\ kids \subseteq FromRoots(plan)
      <3>1. kids \subseteq FromRoots(plan) /\ kids \subseteq plan.nodes
        BY <2>5, AtOrBelowRoots
      <3>2. IsFiniteSet(kids)
        BY <1>f, <3>1, FS_Subset
      <3>3. unseen \in Seq(kids) /\ ToSet(unseen) = kids
        BY <3>2, InOrderMembers
      <3>4. QED BY <3>1, <3>3
    <2>7. kids \cap ToSet(order) = {} /\ Children(plan, node) \subseteq kids \cup ToSet(order)
      OBVIOUS
    <2> HIDE DEF kids, node
    <2>8. /\ ToSet(waiting \o unseen) = ToSet(waiting) \cup kids
          /\ waiting \o unseen \in Seq(plan.nodes)
      BY <2>3, <2>4, <2>6, Members
    <2>9. ToSet(Append(waiting \o unseen, node)) = ToSet(waiting) \cup kids \cup {node}
      <3> DEFINE q == waiting \o unseen
      <3>1. q \in Seq(plan.nodes) /\ ToSet(q) = ToSet(waiting) \cup kids
        BY <2>8
      <3> HIDE DEF q
      <3>2. ToSet(Append(q, node)) = ToSet(q) \cup {node}
        BY <2>4, <3>1, Members
      <3>3. QED BY <3>1, <3>2 DEF q
    <2>10. ToSet(Append(order, node)) = ToSet(order) \cup {node}
      BY <2>3, <2>4, Members
    <2>11. Worklists /\ OrderIsExecutable /\ ToSet(order) \subseteq Providable(plan)
           /\ ToSet(g) \cup ToSet(waiting) \subseteq FromRoots(plan)
      BY <2>1 DEF SortInv, Sorting
    <2>12. CASE UNCHANGED <<changed, satisfied, order>>
      <3>1. \/ node \in ToSet(order) /\ ToSet(waiting') = ToSet(waiting) \cup kids
            \/ /\ node \notin ToSet(order) /\ node \in NotReady
               /\ ToSet(waiting') = ToSet(waiting) \cup kids \cup {node}
        <4>1. order' = order /\ order' # Append(order, node)
          <5>1. Len(Append(order, node)) = Len(order) + 1 /\ Len(order) \in Nat
            BY <2>3, <2>4, AppendProperties, LenProperties
          <5>2. QED BY <2>12, <5>1
        <4>2. QED BY <2>2, <2>4, <2>8, <2>9, <4>1 DEF NotReady
      <3>2. OrderIsExecutable'
        BY <2>1, <2>11, <2>12 DEF OrderIsExecutable
      <3>3. \A S, T : Covered(S) /\ S \subseteq T => Covered(T)'
        BY <2>1, <2>12 DEF Covered
      <3>4. Covered(ToSet(order) \cup ToSet(g) \cup ToSet(waiting))'
        <4>1. ToSet(order) \cup ToSet(g) \cup ToSet(waiting) \subseteq ToSet(order') \cup ToSet(g') \cup ToSet(waiting')
          BY <2>4, <2>12, <3>1
        <4>2. QED BY <2>11, <3>3, <4>1 DEF Worklists
      <3>5. ASSUME ~changed'
            PROVE  /\ Covered(ToSet(order) \cup ToSet(g) \cup NotReady)'
                   /\ ToSet(waiting') \cap ToSet(order') = {}
        <4>1. ~changed /\ NotReady' = NotReady
          BY <2>1, <2>12, <3>5 DEF NotReady
        <4>2. Covered(ToSet(order) \cup ToSet(g) \cup NotReady) /\ ToSet(waiting) \cap ToSet(order) = {}
          BY <2>11, <4>1 DEF Worklists
        <4>3. ToSet(order) \cup ToSet(g) \cup NotReady \subseteq ToSet(order') \cup ToSet(g') \cup NotReady'
          BY <2>4, <2>12, <3>1, <4>1
        <4>4. Covered(ToSet(order) \cup ToSet(g) \cup NotReady)'
          BY <3>3, <4>2, <4>3
        <4>5. ToSet(waiting') \cap ToSet(order') = {}
          BY <2>7, <2>12, <3>1, <4>2
        <4>6. QED BY <4>4, <4>5
      <3>6. ToSet(g') \cup ToSet(waiting') \subseteq FromRoots(plan')
        BY <2>1, <2>4, <2>5, <2>6, <2>11, <3>1
      <3>7. Worklists'
        BY <3>4, <3>5 DEF Worklists
      <3>8. ToSet(order') \subseteq Providable(plan')
        BY <2>1, <2>11, <2>12
      <3>9. QED BY <2>1, <3>2, <3>6, <3>7, <3>8 DEF SortInv
    <2>13. CASE /\ node \notin ToSet(order) /\ HasAllLinks(plan.requires[node], satisfied)
                /\ waiting' = waiting \o unseen
                /\ order' = Append(order, node) /\ changed' = TRUE
      <3>1. OrderIsExecutable'
        BY <2>1, <2>4, <2>11, <2>13, OrderExtended
      <3>2. ToSet(order') = ToSet(order) \cup {node} /\ ToSet(waiting') = ToSet(waiting) \cup kids
        BY <2>8, <2>10, <2>13
      <3>3. node \in Providable(plan)
        <4>1. satisfied = CreatedBy(plan, ToSet(order))
          BY DEF TypeInv, Typed, PlanTypeOK
        <4>2. QED BY <2>5, <2>11, <2>13, <4>1, ProvidableGrows
      <3>4. ToSet(order') \subseteq Providable(plan')
        BY <2>1, <2>11, <3>2, <3>3
      <3>5. ToSet(g') \cup ToSet(waiting') \subseteq FromRoots(plan')
        BY <2>1, <2>4, <2>6, <2>11, <3>2
      <3> DEFINE W == ToSet(order) \cup ToSet(g) \cup ToSet(waiting)
                 X == ToSet(order') \cup ToSet(g') \cup ToSet(waiting')
      <3>6. W \subseteq X /\ Children(plan, node) \subseteq X
        BY <2>4, <2>7, <3>2
      <3>7. Roots(plan) \subseteq W /\ \A n \in ToSet(order) : Children(plan, n) \subseteq W
        BY <2>11 DEF Worklists, Covered
      <3> HIDE DEF W, X
      <3>8. Roots(plan') \subseteq X /\ \A n \in ToSet(order') : Children(plan', n) \subseteq X
        BY <2>1, <3>2, <3>6, <3>7
      <3>9. Covered(ToSet(order) \cup ToSet(g) \cup ToSet(waiting))'
        BY <3>8 DEF Covered, X
      <3>10. Worklists'
        BY <2>13, <3>9 DEF Worklists
      <3>11. QED BY <2>1, <3>1, <3>4, <3>5, <3>10 DEF SortInv
    <2>14. QED BY <2>2, <2>12, <2>13
  <1>4. CASE SortPass
    <2>1. /\ phase = "sort" /\ g = <<>> /\ g' = waiting /\ waiting' = <<>> /\ ~changed'
          /\ UNCHANGED <<config, plan, satisfied, order>>
          /\ phase' \in {"error_missing", "sorted", "sort"}
          /\ phase' = "error_missing" => ~changed /\ waiting # <<>>
          /\ phase' = "sorted" => waiting = <<>>
      BY <1>4 DEF SortPass
    <2>2. Worklists /\ OrderIsExecutable /\ ToSet(order) \subseteq Providable(plan)
          /\ ToSet(waiting) \subseteq FromRoots(plan)
      BY <2>1 DEF SortInv, Sorting
    <2>3. ToSet(g) = {} /\ ToSet(waiting') = {}
      BY <2>1, EmptyMembers
    <2>4. OrderIsExecutable'
      BY <2>1, <2>2 DEF OrderIsExecutable
    <2>5. \A S, T : Covered(S) /\ S \subseteq T => Covered(T)'
      BY <2>1 DEF Covered
    <2>6. Covered(ToSet(order) \cup ToSet(waiting))
      BY <2>2, <2>3 DEF Worklists
    <2>7. Worklists'
      <3>1. Covered(ToSet(order) \cup ToSet(g) \cup ToSet(waiting))'
        BY <2>1, <2>5, <2>6
      <3>2. Covered(ToSet(order) \cup ToSet(g) \cup NotReady)'
        BY <2>1, <2>5, <2>6
      <3>3. QED BY <2>3, <3>1, <3>2 DEF Worklists
    <2>8. phase' = "sorted" => Covered(ToSet(order))'
      <3>1. phase' = "sorted" => ToSet(waiting) = {}
        BY <2>1, EmptyMembers
      <3>2. QED BY <2>1, <2>5, <2>6, <3>1
    <2>9. ASSUME phase' = "error_missing", ProvidersAreParents(plan)
          PROVE  FromRoots(plan) # Providable(plan)
      <3>1. ~changed /\ waiting # <<>> /\ waiting \in Seq(plan.nodes)
        BY <2>1, <2>9 DEF TypeInv, Typed, PlanTypeOK
      <3>2. Covered(ToSet(order) \cup NotReady) /\ ToSet(waiting) \cap ToSet(order) = {}
        BY <2>2, <2>3, <3>1 DEF Worklists
      <3>3. Providable(plan) \subseteq ToSet(order)
        BY <2>2, <2>9, <3>2, NothingReady
      <3>4. Head(waiting) \in ToSet(waiting)
        BY <3>1, HeadAndTail
      <3>5. QED BY <2>2, <3>2, <3>3, <3>4
    <2>10. ToSet(g') \cup ToSet(waiting') \subseteq FromRoots(plan')
      BY <2>1, <2>2, <2>3
    <2>11. ToSet(order') \subseteq Providable(plan')
      BY <2>1, <2>2
    <2>12. QED BY <2>1, <2>4, <2>7, <2>8, <2>9, <2>10, <2>11 DEF SortInv
  <1>5. CASE UNCHANGED planVars
    <2>1. UNCHANGED <<phase, config, plan, g, waiting, changed, satisfied, order>>
      BY <1>5 DEF planVars, sorting
    <2>2. NotReady' = NotReady
      BY <2>1 DEF NotReady
    <2>3. QED BY <2>1, <2>2 DEF SortInv, Sorting, Worklists, Covered, OrderIsExecutable
  <1>6. QED BY <1>1, <1>2, <1>3, <1>4, <1>5 DEF PlanNext

\* Without what the check for missing dependencies relies on: an order that can be
\* executed, complete when it is accepted, and a cycle wherever one is reported.
PlansAreExact ==
    /\ OrderIsExecutable
    /\ phase = "sorted" => /\ ToSet(order) = FromRoots(plan)
                           /\ FromRoots(plan) = Providable(plan)
                           /\ Acyclic(plan, FromRoots(plan))
    /\ phase = "error_cycle" => ~Acyclic(plan, FromRoots(plan))

\* What the invariants say of the end of the search and of the last pass.
LEMMA InvGivesVerdict ==
    TypeInv /\ DagInv /\ SortInv =>
        PlansAreExact /\ (ProvidersAreParents(plan) => VerdictIsExact)
  <1> SUFFICES ASSUME TypeInv, DagInv, SortInv
               PROVE  PlansAreExact /\ (ProvidersAreParents(plan) => VerdictIsExact)
    OBVIOUS
  <1>1. ASSUME phase = "sorted"
        PROVE  ToSet(order) = FromRoots(plan) /\ FromRoots(plan) = Providable(plan)
    <2>1. ToSet(order) \in SUBSET plan.nodes
      BY DEF ToSet, TypeInv, Typed, PlanTypeOK
    <2>2. FromRoots(plan) \subseteq ToSet(order)
      BY <1>1, <2>1, AtOrBelowRoots DEF SortInv, Covered
    <2>3. ToSet(order) \subseteq Providable(plan) /\ Providable(plan) \subseteq FromRoots(plan)
      BY ProvidableLeast DEF SortInv
    <2>4. QED BY <2>2, <2>3
  <1>2. PlansAreExact
    BY <1>1 DEF PlansAreExact, SortInv, DagInv, Sorting
  <1>3. QED BY <1>2 DEF PlansAreExact, VerdictIsExact, SortInv

\* Neither has begun.
LEMMA SearchInitially == PlanInit => DagInv /\ SortInv
  <1> SUFFICES ASSUME PlanInit PROVE DagInv /\ SortInv
    OBVIOUS
  <1>1. phase = "match" /\ order = <<>>
    BY DEF PlanInit
  <1>2. ToSet(order) = {} /\ \A i \in 1 .. Len(order) : FALSE
    BY <1>1, EmptyMembers
  <1>3. QED BY <1>1, <1>2 DEF DagInv, SortInv, Sorting, OrderIsExecutable

\* Whatever TopologicalSort accepts can be executed in its order, completely, and
\* has no cycle below its roots; where it reports a cycle there is one.
THEOREM PlansExact == PlanSpec => []PlansAreExact
  <1>1. PlanInit => TypeInv /\ DagInv /\ SortInv
    BY TypeInitially, SearchInitially
  <1>2. TypeInv /\ DagInv /\ SortInv /\ [PlanNext]_planVars => TypeInv' /\ DagInv' /\ SortInv'
    BY TypeInductive, DagInductive, SortInductive
  <1>3. TypeInv /\ DagInv /\ SortInv => PlansAreExact
    BY InvGivesVerdict
  <1>4. QED BY <1>1, <1>2, <1>3, PTL DEF PlanSpec

\* It also reports missing dependencies only where there are some, when whoever
\* provides a link in the sense of HasAllLinks is a parent in that of BuildGraph.
\* Otherwise a pass may add nothing although a step further down is ready.
THEOREM VerdictExact == PlanSpec => [](ProvidersAreParents(plan) => VerdictIsExact)
  <1>1. PlanInit => TypeInv /\ DagInv /\ SortInv
    BY TypeInitially, SearchInitially
  <1>2. TypeInv /\ DagInv /\ SortInv /\ [PlanNext]_planVars => TypeInv' /\ DagInv' /\ SortInv'
    BY TypeInductive, DagInductive, SortInductive
  <1>3. TypeInv /\ DagInv /\ SortInv => (ProvidersAreParents(plan) => VerdictIsExact)
    BY InvGivesVerdict
  <1>4. QED BY <1>1, <1>2, <1>3, PTL DEF PlanSpec

-----------------------------------------------------------------------------
(* From the planner to the executor *)

\* A graph that TopologicalSort has accepted with all its nodes in the order is one
\* for which the executor forgets nothing (theorem NothingForgotten).
THEOREM PlansAreAccepted ==
    PlanSpec => [](phase = "sorted" /\ ToSet(order) = plan.nodes => Accepted(plan))
  <1>1. PlansAreExact => (phase = "sorted" /\ ToSet(order) = plan.nodes => Accepted(plan))
    BY DEF PlansAreExact, Accepted
  <1>2. QED BY <1>1, PlansExact, PTL
=============================================================================
