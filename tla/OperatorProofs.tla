--------------------------- MODULE OperatorProofs ---------------------------
(***************************************************************************)
(* Theorems about the end of ci-operator, for every set of promotion steps *)
(* and of requests to the lease proxy, and about the metrics agent that it *)
(* stops, for every set of producers and every capacity.                   *)
(***************************************************************************)
EXTENDS Operator, MetricsAgent, FiniteSetTheorems, SequenceTheorems, TLAPS

\* What the end of the critical section and the handler of signals owe to
\* sync.Once: behind the section the function inside once.Do was executed, by
\* one of the two, and the metrics agent is stopped only then.
OnceDone ==
    /\ handler = "off" => once = "free" /\ main \in {"setup", "stopping", "flushing"} \cup Ended
    /\ main = "setup" => handler = "off"
    /\ main = "unhooking" => once = "done"
    /\ main \in {"stopping", "flushing", "exit"} => handler = "off" \/ once = "done"
    /\ saved = IF once = "done" \/ handler = "final" THEN 1 ELSE 0
    /\ ~recording => main \in Ended \cup {"flushing"}

\* Every step keeps the types and what sync.Once does for the end of the section.
LEMMA OnceInductive ==
    ASSUME TypeOK, OnceDone, [Next]_vars
    PROVE  TypeOK' /\ OnceDone'
  <1> USE DEF TypeOK, OnceDone, Section, Ended, signalling, promoting, proxying
  <1>0. Cardinality(Promotion) \in Nat
    BY OperatorAssumption, FS_CardinalityType
  <1>1. CASE SetupReturns
    BY <1>1 DEF SetupReturns
  <1>2. CASE EnterSection
    BY <1>2 DEF EnterSection
  <1>3. CASE InitializeLeaseClient
    BY <1>3 DEF InitializeLeaseClient
  <1>4. CASE StartExecution
    BY <1>4 DEF StartExecution
  <1>5. CASE ReceiveResult
    <2>1. received' \in 0 .. Cardinality(Promotion)
      BY <1>0, <1>5 DEF ReceiveResult
    <2>2. mail' \subseteq Promotion /\ main' \in {main, "releasing"} /\ failed' \in BOOLEAN
      BY <1>5 DEF ReceiveResult
    <2>3. QED
      BY <1>5, <2>1, <2>2 DEF ReceiveResult
  <1>6. CASE PromotionEnds
    BY <1>6 DEF PromotionEnds
  <1>7. CASE ReleaseAll
    BY <1>7 DEF ReleaseAll
  <1>8. CASE Close
    BY <1>8 DEF Close
  <1>9. CASE CloseNotifies
    BY <1>9 DEF CloseNotifies
  <1>10. CASE Unhook
    BY <1>10 DEF Unhook
  <1>11. CASE Stop
    BY <1>11 DEF Stop
  <1>12. CASE Exit
    BY <1>12 DEF Exit
  <1>13. CASE Signal
    BY <1>13 DEF Signal
  <1>14. CASE HandlerReceives
    BY <1>14 DEF HandlerReceives
  <1>15. CASE HandlerSignals
    BY <1>15 DEF HandlerSignals
  <1>16. CASE HandlerNotifies /\ main \notin Ended
    BY <1>16 DEF HandlerNotifies
  <1>17. CASE HandlerCancels
    BY <1>17 DEF HandlerCancels
  <1>18. CASE ExecutionReturns
    BY <1>18 DEF ExecutionReturns
  <1>19. ASSUME NEW p \in Promotion, PromotionStarts(p) \/ PromotionReturns(p),
                main \notin Ended
         PROVE  TypeOK' /\ OnceDone'
    BY <1>19 DEF PromotionStarts, PromotionReturns
  <1>20. ASSUME NEW r \in Request, ProxyAcquire(r) \/ ProxyAnswers(r) \/ ProxyRelease(r)
         PROVE  TypeOK' /\ OnceDone'
    <2>1. CASE ProxyAcquire(r)
      BY <2>1 DEF ProxyAcquire
    <2>2. CASE ProxyAnswers(r)
      BY <2>2 DEF ProxyAnswers
    <2>3. CASE ProxyRelease(r)
      BY <2>3 DEF ProxyRelease
    <2>4. QED
      BY <1>20, <2>1, <2>2, <2>3
  <1>21. CASE StepsLease \/ RegisterHandlers \/ CancelledElsewhere
    <2>1. CASE StepsLease
      BY <2>1 DEF StepsLease
    <2>2. CASE RegisterHandlers
      BY <2>2 DEF RegisterHandlers
    <2>3. CASE CancelledElsewhere
      BY <2>3 DEF CancelledElsewhere
    <2>4. QED
      BY <1>21, <2>1, <2>2, <2>3
  <1>22. CASE UNCHANGED vars
    BY <1>22 DEF vars
  <1>23. QED
    BY <1>1, <1>2, <1>3, <1>4, <1>5, <1>6, <1>7, <1>8, <1>9, <1>10, <1>11, <1>12, <1>13,
       <1>14, <1>15, <1>16, <1>17, <1>18, <1>19, <1>20, <1>21, <1>22
    DEF Next, Main, Handle, Others

\* The type invariant, and what sync.Once does for the end of the section, hold
\* in every reachable state.
THEOREM OnceCorrect == Spec => [](TypeOK /\ OnceDone)
  <1>1. Init => TypeOK /\ OnceDone
    <2>1. Cardinality(Promotion) \in Nat
      BY OperatorAssumption, FS_CardinalityType
    <2>2. Init => received \in 0 .. Cardinality(Promotion) /\ saved \in Nat
      BY <2>1 DEF Init
    <2>3. Init => TypeOK
      BY <2>2, Zenon DEF Init, TypeOK, Section, Ended
    <2>4. Init => OnceDone
      BY Zenon DEF Init, OnceDone, Ended
    <2>5. QED
      BY <2>3, <2>4
  <1>2. QED
    BY <1>1, OnceInductive, PTL DEF Spec

\* However a signal and the end of the critical section cross, the artifacts are
\* saved once, and before the metrics are written: Handler.Close waits for the
\* function that a signal has begun.
THEOREM SavedOnce == Spec => []ArtifactsSavedOnce
  <1>1. TypeOK /\ OnceDone => ArtifactsSavedOnce
    BY DEF TypeOK, OnceDone, ArtifactsSavedOnce, Ended
  <1>2. QED
    BY <1>1, OnceCorrect, PTL

-----------------------------------------------------------------------------
(* Promotion *)

\* The promotion steps whose result was received.
Received == {p \in Promotion : promotion[p] \in {"ok", "failed"} /\ p \notin mail}

\* Where the promotion is over.
Behind == {"releasing", "closing", "saving", "unhooking", "stopping", "flushing", "exit"}

\* While main waits for results it has counted those it received, all of them
\* good; it goes on with the first bad one, or with all of them good.
ResultsCounted ==
    /\ main \in {"setup", "leasing", "starting", "executing"} =>
          /\ \A p \in Promotion : promotion[p] = "idle"
          /\ mail = {} /\ received = 0
    /\ \A p \in mail : promotion[p] \in {"ok", "failed"}
    /\ main = "promoting" =>
          /\ received = Cardinality(Received)
          /\ \A p \in Received : promotion[p] = "ok"
          /\ \A p \in Promotion : promotion[p] # "idle"
    /\ main \in Behind /\ handler # "off" /\ ~failed => \A p \in Promotion : promotion[p] = "ok"
    /\ main \in Behind =>
          \/ \A p \in Promotion : promotion[p] \in {"idle", "ok", "failed"}
          \/ \E p \in Received : promotion[p] = "failed"
    /\ OnlyOutrunPromotionsPanic

\* Received grows with the results that are received, and only with them.
LEMMA ReceivedCounts ==
    ASSUME TypeOK
    PROVE  /\ IsFiniteSet(Received) /\ Received \subseteq Promotion
           /\ Cardinality(Received) \in Nat
           /\ Cardinality(Received) = Cardinality(Promotion) => Received = Promotion
  <1>1. Received \subseteq Promotion
    BY DEF Received
  <1>2. QED
    BY <1>1, OperatorAssumption, FS_Subset, FS_CardinalityType

\* Every step keeps the account of the results that runPromotionStep's goroutines send.
LEMMA ResultsInductive ==
    ASSUME TypeOK, TypeOK', OnceDone, ResultsCounted, [Next]_vars
    PROVE  ResultsCounted'
  <1> USE DEF TypeOK, ResultsCounted, Behind, Section, Ended, signalling, promoting, proxying,
              OnlyOutrunPromotionsPanic
  <1>1. CASE SetupReturns
    BY <1>1 DEF SetupReturns, Received, OnceDone
  <1>2. CASE EnterSection \/ InitializeLeaseClient \/ StartExecution
    BY <1>2 DEF EnterSection, InitializeLeaseClient, StartExecution, Received
  <1>3. CASE ReceiveResult
    <2>1. PICK p \in mail :
            /\ mail' = mail \ {p} /\ received' = received + 1
            /\ \/ promotion[p] = "ok" /\ UNCHANGED <<main, failed>>
               \/ promotion[p] = "failed" /\ main' = "releasing" /\ failed' = TRUE
      BY <1>3 DEF ReceiveResult
    <2>2. main = "promoting" /\ UNCHANGED <<promotion, handler>>
      BY <1>3 DEF ReceiveResult
    <2>3. p \notin Received /\ Received' = Received \cup {p}
      BY <2>1, <2>2 DEF Received
    <2>4. Cardinality(Received') = Cardinality(Received) + 1
      BY <2>3, ReceivedCounts, FS_AddElement
    <2>5. CASE promotion[p] = "ok"
      BY <2>1, <2>2, <2>3, <2>4, <2>5
    <2>6. CASE promotion[p] = "failed"
      BY <2>1, <2>2, <2>3, <2>6
    <2>7. QED
      BY <2>1, <2>5, <2>6
  <1>4. CASE PromotionEnds
    <2>1. Received = Promotion
      BY <1>4, ReceivedCounts DEF PromotionEnds
    <2>2. QED
      BY <1>4, <2>1 DEF PromotionEnds
  <1>5. CASE ReleaseAll \/ Close \/ CloseNotifies \/ Unhook \/ Stop \/ Exit
    BY <1>5 DEF ReleaseAll, Close, CloseNotifies, Unhook, Stop, Exit, Received
  <1>6. CASE Signal
    BY <1>6 DEF Signal, Received
  <1>7. CASE HandlerReceives \/ HandlerSignals \/ HandlerCancels
    BY <1>7 DEF HandlerReceives, HandlerSignals, HandlerCancels, Received
  <1>8. CASE HandlerNotifies /\ main \notin Ended
    BY <1>8 DEF HandlerNotifies, OnceDone, Received
  <1>9. CASE ExecutionReturns
    <2>1. CASE main' = "promoting"
      <3>1. promotion' = [p \in Promotion |-> "begun"] /\ mail' = {} /\ received' = 0
        BY <1>9, <2>1 DEF ExecutionReturns
      <3>2. Received' = {}
        BY <3>1 DEF Received
      <3>3. QED
        BY <2>1, <3>1, <3>2, FS_EmptySet
    <2>2. CASE main' = "releasing"
      BY <1>9, <2>2 DEF ExecutionReturns, Received
    <2>3. QED
      BY <1>9, <2>1, <2>2 DEF ExecutionReturns
  <1>10. ASSUME NEW p \in Promotion, PromotionStarts(p), main \notin Ended
         PROVE  ResultsCounted'
    BY <1>10 DEF PromotionStarts, Received, OnceDone
  <1>11. ASSUME NEW p \in Promotion, PromotionReturns(p), main \notin Ended
         PROVE  ResultsCounted'
    BY <1>11 DEF PromotionReturns, Received, OnceDone
  <1>12. ASSUME NEW r \in Request, ProxyAcquire(r) \/ ProxyAnswers(r) \/ ProxyRelease(r)
         PROVE  ResultsCounted'
    BY <1>12 DEF ProxyAcquire, ProxyAnswers, ProxyRelease, Received
  <1>13. CASE StepsLease \/ RegisterHandlers \/ CancelledElsewhere
    BY <1>13 DEF StepsLease, RegisterHandlers, CancelledElsewhere, Received
  <1>14. CASE UNCHANGED vars
    BY <1>14 DEF vars, Received
  <1>15. QED
    BY <1>1, <1>2, <1>3, <1>4, <1>5, <1>6, <1>7, <1>8, <1>9, <1>10, <1>11, <1>12, <1>13,
       <1>14
    DEF Next, Main, Handle, Others

\* runPromotionStep's results are counted in every reachable state: main leaves its
\* loop with the first bad one, or when each promotion step has sent a good one.
THEOREM ResultsCorrect == Spec => []ResultsCounted
  <1>1. Init => ResultsCounted
    BY DEF Init, ResultsCounted, Behind, OnlyOutrunPromotionsPanic
  <1>2. QED
    BY <1>1, ResultsInductive, OnceCorrect, PTL DEF Spec

\* The only events that are recorded after the metrics agent was stopped are
\* those of promotion steps that another one's failure has outrun: neither the
\* handler of signals nor a promotion that ended well comes too late.
THEOREM OnlyOutrunPanic == Spec => []OnlyOutrunPromotionsPanic
  <1>1. ResultsCounted => OnlyOutrunPromotionsPanic
    BY DEF ResultsCounted
  <1>2. QED
    BY <1>1, ResultsCorrect, PTL

\* ci-operator reports success only when every promotion step has succeeded,
\* in whatever order their results came.
THEOREM SuccessIsPromotion == Spec => []SuccessMeansPromoted
  <1>1. ResultsCounted => SuccessMeansPromoted
    BY DEF ResultsCounted, SuccessMeansPromoted, Behind
  <1>2. QED
    BY <1>1, ResultsCorrect, PTL

-----------------------------------------------------------------------------
(* Leases *)

\* A lease of the steps that is not accounted for exists only between the start
\* of the graph and the release of all leases.
StepsReleased ==
    main \notin {"executing", "promoting", "releasing"} => Steps \notin leases \ reported

\* On every way out of the process, by a return, a panic or a signal, the leases
\* of the steps were released or their release has failed with an error.
THEOREM NoLeakOfSteps == Spec => []StepsLeakNothing
  <1>1. Init => StepsReleased
    BY DEF Init, StepsReleased
  <1>2. ASSUME TypeOK, OnceDone, StepsReleased, [Next]_vars
        PROVE  StepsReleased'
    <2> USE <1>2 DEF StepsReleased, signalling, promoting, proxying
    <2>1. CASE SetupReturns \/ EnterSection \/ InitializeLeaseClient \/ StartExecution
               \/ ReceiveResult \/ PromotionEnds \/ ExecutionReturns
      BY <2>1 DEF SetupReturns, EnterSection, InitializeLeaseClient, StartExecution,
                  ReceiveResult, PromotionEnds, ExecutionReturns
    <2>2. CASE ReleaseAll
      BY <2>2 DEF ReleaseAll
    <2>3. CASE Close \/ CloseNotifies \/ Unhook \/ Stop \/ Exit
      BY <2>3 DEF Close, CloseNotifies, Unhook, Stop, Exit
    <2>4. CASE Signal
      BY <2>4 DEF Signal, Section
    <2>5. CASE (Handle \/ CancelledElsewhere) /\ main \notin Ended
      BY <2>5 DEF Handle, HandlerReceives, HandlerSignals, HandlerNotifies, HandlerCancels,
                  CancelledElsewhere, TypeOK, OnceDone, Ended
    <2>6. ASSUME NEW p \in Promotion, PromotionStarts(p) \/ PromotionReturns(p),
                 main \notin Ended
          PROVE  StepsReleased'
      BY <2>6 DEF PromotionStarts, PromotionReturns, OnceDone, Ended
    <2>7. ASSUME NEW r \in Request, ProxyAcquire(r) \/ ProxyAnswers(r) \/ ProxyRelease(r)
          PROVE  StepsReleased'
      BY <2>7, OperatorAssumption DEF ProxyAcquire, ProxyAnswers, ProxyRelease
    <2>8. CASE StepsLease \/ RegisterHandlers
      BY <2>8 DEF StepsLease, RegisterHandlers
    <2>9. CASE UNCHANGED vars
      BY <2>9 DEF vars
    <2>10. QED
      BY <2>1, <2>2, <2>3, <2>4, <2>5, <2>6, <2>7, <2>8, <2>9 DEF Next, Main, Others
  <1>3. StepsReleased => StepsLeakNothing
    BY DEF StepsReleased, StepsLeakNothing, Ended
  <1>4. QED
    BY <1>1, <1>2, <1>3, OnceCorrect, PTL DEF Spec

-----------------------------------------------------------------------------
(* The metrics agent, which options.Run stops at its end *)

\* Where the agent is, against the WaitGroup, the channel and what it holds.
AgentInv ==
    /\ wg = IF agent \in {"loop", "select", "recording"} THEN 1 ELSE 0
    /\ agent # "recording" => inHand = <<>>
    /\ agent = "ended" => closed /\ events = <<>>
    /\ caller = "flushing" /\ ~missed => agent = "ended"

\* The inductive invariant: no event is lost, and an agent that has ended has left
\* a channel that is closed and empty.
FlowInv == MetricsTypeOK /\ NothingLostOnTheWay /\ AgentInv

\* An event that joins the end of the queue joins the end of everything.
LEMMA AppendToConcat ==
    \A a, b \in Seq(Event) : \A x \in Event : Append(a \o b, x) = a \o Append(b, x)
  <1> SUFFICES ASSUME NEW a \in Seq(Event), NEW b \in Seq(Event), NEW x \in Event
               PROVE  Append(a \o b, x) = a \o Append(b, x)
    OBVIOUS
  <1>1. a \o b \in Seq(Event) /\ <<x>> \in Seq(Event)
    OBVIOUS
  <1>2. Append(a \o b, x) = (a \o b) \o <<x>> /\ Append(b, x) = b \o <<x>>
    BY <1>1, AppendIsConcat
  <1>3. (a \o b) \o <<x>> = a \o (b \o <<x>>)
    BY <1>1, ConcatAssociative
  <1>4. QED BY <1>2, <1>3

\* Every step of the agent, of a Record and of Stop passes the events on.
LEMMA FlowInductive == FlowInv /\ [MetricsNext]_metricsVars => FlowInv'
  <1> SUFFICES ASSUME FlowInv, [MetricsNext]_metricsVars PROVE FlowInv'
    OBVIOUS
  <1>t. MetricsTypeOK /\ NothingLostOnTheWay /\ AgentInv
    BY DEF FlowInv
  <1>1. CASE AgentBegins
    <2>1. AgentInv'
      BY <1>t, <1>1 DEF AgentBegins, channel, stopper, AgentInv, MetricsTypeOK
    <2>2. QED BY <1>t, <1>1, <2>1 DEF AgentBegins, channel, stopper, FlowInv, MetricsTypeOK, NothingLostOnTheWay, AgentInv
  <1>2. CASE AgentLoads
    BY <1>t, <1>2 DEF AgentLoads, channel, stopper, FlowInv, MetricsTypeOK, NothingLostOnTheWay, AgentInv
  <1>3. CASE AgentReceives
    <2>1. /\ Head(events) \in Event /\ Tail(events) \in Seq(Event)
          /\ Len(Tail(events)) = Len(events) - 1
          /\ events = <<Head(events)>> \o Tail(events)
      BY <1>t, <1>3, HeadTailProperties DEF AgentReceives, MetricsTypeOK
    <2>2. inHand' \in Seq(Event) /\ events' = Tail(events) /\ events = inHand' \o events'
      BY <2>1, <1>3 DEF AgentReceives
    <2>3. MetricsTypeOK'
      BY <1>t, <1>3, <2>1, <2>2, MetricsAssumption DEF AgentReceives, stopper, MetricsTypeOK
    <2>4. NothingLostOnTheWay'
      <3>1. inHand = <<>> /\ stored' = stored /\ accepted' = accepted
        BY <1>t, <1>3 DEF AgentReceives, AgentInv
      <3>2. stored \o <<>> = stored
        BY <1>t DEF MetricsTypeOK
      <3>3. accepted = stored \o (inHand' \o events')
        BY <1>t, <2>2, <3>1, <3>2 DEF NothingLostOnTheWay
      <3>4. stored \o (inHand' \o events') = (stored \o inHand') \o events'
        <4>1. stored \in Seq(Event) /\ inHand' \in Seq(Event) /\ events' \in Seq(Event)
          BY <1>t, <2>1, <2>2 DEF MetricsTypeOK
        <4>2. QED BY <4>1, ConcatAssociative
      <3>5. QED BY <3>1, <3>3, <3>4 DEF NothingLostOnTheWay
    <2>5. AgentInv'
      BY <1>t, <1>3 DEF AgentReceives, stopper, AgentInv
    <2>6. QED BY <2>3, <2>4, <2>5 DEF FlowInv
  <1>4. CASE AgentEnds
    <2>1. AgentInv'
      BY <1>t, <1>4 DEF AgentEnds, channel, stopper, AgentInv, MetricsTypeOK
    <2>2. QED BY <1>t, <1>4, <2>1 DEF AgentEnds, channel, stopper, FlowInv, MetricsTypeOK, NothingLostOnTheWay, AgentInv
  <1>5. CASE AgentRecords
    <2>1. stored' \in Seq(Event) /\ inHand' = <<>> /\ stored' \o <<>> = stored'
      BY <1>t, <1>5 DEF AgentRecords, MetricsTypeOK
    <2>2. MetricsTypeOK'
      BY <1>t, <1>5, <2>1 DEF AgentRecords, channel, stopper, MetricsTypeOK
    <2>3. NothingLostOnTheWay'
      BY <1>t, <1>5, <2>1 DEF AgentRecords, channel, stopper, NothingLostOnTheWay
    <2>4. AgentInv'
      BY <1>t, <1>5 DEF AgentRecords, channel, stopper, AgentInv
    <2>5. QED BY <2>2, <2>3, <2>4 DEF FlowInv
  <1>6. ASSUME NEW p \in Producer, RecordLocks(p) PROVE FlowInv'
    BY <1>t, <1>6 DEF RecordLocks, stopper, FlowInv, MetricsTypeOK, NothingLostOnTheWay, AgentInv
  <1>7. ASSUME NEW p \in Producer, RecordSends(p) PROVE FlowInv'
    <2> DEFINE ev == <<p, next[p]>>
    <2>1. ev \in Event
      BY <1>t DEF MetricsTypeOK, Event
    <2>2. /\ ~closed /\ Len(events) < Capacity /\ events' = Append(events, ev)
          /\ accepted' = Append(accepted, ev) /\ next' = [next EXCEPT ![p] = @ + 1] /\ mu' = {}
          /\ UNCHANGED <<closed, agent, inHand, stored, wg, adding, caller, missed, output, crashed>>
      BY <1>7 DEF RecordSends, stopper
    <2> HIDE DEF ev
    <2>3. MetricsTypeOK'
      <3>1. events' \in Seq(Event) /\ Len(events') = Len(events) + 1 /\ accepted' \in Seq(Event)
        BY <1>t, <2>1, <2>2, AppendProperties DEF MetricsTypeOK
      <3>2. Len(events') <= Capacity
        BY <1>t, <2>2, <3>1, MetricsAssumption DEF MetricsTypeOK
      <3>3. next' \in [Producer -> Nat]
        BY <1>t, <2>2 DEF MetricsTypeOK
      <3>4. QED BY <1>t, <2>2, <3>1, <3>2, <3>3 DEF MetricsTypeOK
    <2>4. NothingLostOnTheWay'
      <3>1. stored \o inHand \in Seq(Event)
        BY <1>t DEF MetricsTypeOK
      <3>2. Append((stored \o inHand) \o events, ev) = (stored \o inHand) \o Append(events, ev)
        <4>1. events \in Seq(Event)
          BY <1>t DEF MetricsTypeOK
        <4>2. QED BY <2>1, <3>1, <4>1, AppendToConcat, Zenon
      <3>3. QED BY <1>t, <2>2, <3>2 DEF NothingLostOnTheWay
    <2>5. AgentInv'
      BY <1>t, <2>2 DEF AgentInv
    <2>6. QED BY <2>3, <2>4, <2>5 DEF FlowInv
  <1>8. ASSUME NEW p \in Producer, RecordPanics(p) PROVE FlowInv'
    BY <1>t, <1>8 DEF RecordPanics, stopper, FlowInv, MetricsTypeOK, NothingLostOnTheWay, AgentInv
  <1>9. CASE StopCloses
    BY <1>t, <1>9 DEF StopCloses, FlowInv, MetricsTypeOK, NothingLostOnTheWay, AgentInv
  <1>10. CASE StopWaits \/ StopFlushes \/ AddWaits \/ AddSends
    <2>1. UNCHANGED <<channel, agent, inHand, stored, wg>>
      BY <1>10 DEF StopWaits, StopFlushes, AddWaits, AddSends
    <2>2. /\ adding' \in BOOLEAN /\ missed' \in BOOLEAN /\ output' \in Seq(Event)
          /\ caller' \in {"running", "stopping", "flushing", "flushed"}
      BY <1>t, <1>10 DEF StopWaits, StopFlushes, AddWaits, AddSends, stopper, MetricsTypeOK
    <2>3. caller' = "flushing" /\ ~missed' => agent = "ended"
      <3>1. CASE StopWaits
        <4>1. wg = 0 /\ (~missed' => agent # "created")
          BY <3>1 DEF StopWaits
        <4>2. QED BY <1>t, <4>1 DEF MetricsTypeOK, AgentInv
      <3>2. CASE StopFlushes \/ AddWaits \/ AddSends
        BY <1>t, <3>2 DEF StopFlushes, AddWaits, AddSends, stopper, AgentInv
      <3>3. QED BY <1>10, <3>1, <3>2
    <2>4. QED BY <1>t, <2>1, <2>2, <2>3 DEF channel, FlowInv, MetricsTypeOK, NothingLostOnTheWay, AgentInv
  <1>11. CASE UNCHANGED metricsVars
    BY <1>t, <1>11 DEF metricsVars, FlowInv, MetricsTypeOK, NothingLostOnTheWay, AgentInv
  <1>12. QED
    BY <1>1, <1>2, <1>3, <1>4, <1>5, <1>6, <1>7, <1>8, <1>9, <1>10, <1>11
    DEF MetricsNext, Agent, StopAgent, Record

\* There are no events yet.
LEMMA FlowInitially == MetricsInit => FlowInv
  <1> SUFFICES ASSUME MetricsInit PROVE FlowInv
    OBVIOUS
  <1>1. <<>> \in Seq(Event) /\ Len(<<>>) = 0 /\ <<>> \o <<>> \o <<>> = <<>>
    OBVIOUS
  <1>2. MetricsTypeOK
    <2>1. next \in [Producer -> Nat] /\ wg \in {0, 1} /\ closed \in BOOLEAN
      BY DEF MetricsInit
    <2>2. 0 <= Capacity
      BY MetricsAssumption
    <2>3. events \in Seq(Event) /\ Len(events) <= Capacity /\ inHand \in Seq(Event) /\ stored \in Seq(Event)
          /\ output \in Seq(Event) /\ accepted \in Seq(Event)
      BY <1>1, <2>2 DEF MetricsInit
    <2>4. QED BY <2>1, <2>3 DEF MetricsInit, MetricsTypeOK
  <1>3. NothingLostOnTheWay /\ AgentInv
    BY <1>1 DEF MetricsInit, NothingLostOnTheWay, AgentInv
  <1>4. QED BY <1>2, <1>3 DEF FlowInv

\* The channel is closed when everything that is waited for was recorded.
LateInv == (closed => WaitedFor) /\ OnlyLateEventsPanic

\* Once the channel is closed only events that nobody waited for can come.
LEMMA LateInductive ==
    FlowInv /\ LateInv /\ [MetricsNext]_metricsVars => LateInv'
  <1> SUFFICES ASSUME FlowInv, LateInv, [MetricsNext]_metricsVars PROVE LateInv'
    OBVIOUS
  <1>1. ASSUME NEW p \in Producer, RecordSends(p) PROVE LateInv'
    <2>1. /\ next \in [Producer -> Nat] /\ Late \in [Producer -> Nat] /\ Count \in [Producer -> Nat]
          /\ crashed \subseteq Producer
      BY MetricsAssumption DEF FlowInv, MetricsTypeOK
    <2>2. \A q \in Producer : next'[q] \in Nat /\ next'[q] >= next[q]
      BY <1>1, <2>1 DEF RecordSends
    <2>3. closed' = closed /\ crashed' = crashed
      BY <1>1 DEF RecordSends
    <2>4. \A q \in Producer : next[q] + Late[q] > Count[q] => next'[q] + Late[q] > Count[q]
      BY <2>1, <2>2
    <2>5. QED BY <2>1, <2>3, <2>4 DEF LateInv, WaitedFor, OnlyLateEventsPanic
  <1>2. ASSUME NEW p \in Producer, RecordPanics(p) PROVE LateInv'
    BY <1>2 DEF RecordPanics, LateInv, WaitedFor, OnlyLateEventsPanic
  <1>3. CASE StopCloses
    BY <1>3 DEF StopCloses, LateInv, WaitedFor, OnlyLateEventsPanic
  <1>4. CASE UNCHANGED <<closed, next, crashed>>
    BY <1>4 DEF LateInv, WaitedFor, OnlyLateEventsPanic
  <1>5. QED
    BY <1>1, <1>2, <1>3, <1>4 DEF MetricsNext, Agent, StopAgent, Record, AgentBegins, AgentLoads,
       AgentReceives, AgentEnds, AgentRecords, RecordLocks, StopWaits, StopFlushes, AddWaits,
       AddSends, channel, metricsVars

\* A send on the closed channel is always that of an event nobody waited for.
THEOREM OnlyLatePanic == MetricsSpec => []OnlyLateEventsPanic
  <1>1. MetricsInit => FlowInv /\ LateInv
    BY FlowInitially DEF MetricsInit, LateInv, OnlyLateEventsPanic
  <1>2. FlowInv /\ LateInv /\ [MetricsNext]_metricsVars => FlowInv' /\ LateInv'
    BY FlowInductive, LateInductive
  <1>3. FlowInv /\ LateInv => OnlyLateEventsPanic
    BY DEF LateInv
  <1>4. QED BY <1>1, <1>2, <1>3, PTL DEF MetricsSpec, MetricsSafetySpec

\* Between Record and the plugins no event is lost, repeated or overtaken.
THEOREM NothingLost == MetricsSpec => []NothingLostOnTheWay
  <1>1. MetricsInit => FlowInv
    BY FlowInitially
  <1>2. FlowInv /\ [MetricsNext]_metricsVars => FlowInv'
    BY FlowInductive
  <1>3. FlowInv => NothingLostOnTheWay
    BY DEF FlowInv
  <1>4. QED BY <1>1, <1>2, <1>3, PTL DEF MetricsSpec, MetricsSafetySpec

\* When Stop has waited for an agent that had begun, what it writes has every event
\* whose Record returned, for every number of goroutines and every capacity.  (Not
\* when Stop goes past the WaitGroup before Run is counted.)
THEOREM FlushComplete == MetricsSpec => FlushIsComplete
  <1>1. MetricsInit => FlowInv
    BY FlowInitially
  <1>2. FlowInv /\ [MetricsNext]_metricsVars => FlowInv'
    BY FlowInductive
  <1>3. FlowInv /\ [MetricsNext]_metricsVars =>
          [(caller' = "flushed" /\ caller # "flushed" /\ ~missed) => output' = accepted]_metricsVars
    <2> SUFFICES ASSUME FlowInv, MetricsNext, caller' = "flushed", caller # "flushed", ~missed
                 PROVE  output' = accepted
      OBVIOUS
    <2>1. StopFlushes
      BY DEF MetricsNext, Agent, StopAgent, Record, AgentBegins, AgentLoads, AgentReceives, AgentEnds,
             AgentRecords, RecordLocks, RecordSends, RecordPanics, StopCloses, StopWaits, AddWaits, AddSends,
             stopper
    <2>2. agent = "ended" /\ output' = stored
      BY <2>1 DEF StopFlushes, FlowInv, AgentInv, MetricsTypeOK
    <2>3. events = <<>> /\ inHand = <<>> /\ stored \in Seq(Event)
      BY <2>2 DEF FlowInv, AgentInv, MetricsTypeOK
    <2>4. QED BY <2>2, <2>3 DEF FlowInv, NothingLostOnTheWay
  <1>4. QED BY <1>1, <1>2, <1>3, PTL DEF MetricsSpec, MetricsSafetySpec, FlushIsComplete
=============================================================================
