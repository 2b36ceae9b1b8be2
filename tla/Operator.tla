------------------------------ MODULE Operator ------------------------------
(***************************************************************************)
(* The main function of ci-operator (options.Run in cmd/ci-operator) with  *)
(* the handler of signals it runs its critical section under               *)
(* (pkg/interrupt), the promotion steps that follow the graph, the release *)
(* of leases when the section ends, and the lease proxy through which pods *)
(* acquire leases over HTTP (pkg/lease/proxy, pkg/steps/lease_proxy.go).   *)
(*                                                                         *)
(* The executor of the graph is module StepRun, here a call that returns.  *)
(* The metrics agent is module MetricsAgent, here a channel that is open   *)
(* or closed: recording an event on a closed one panics.                   *)
(***************************************************************************)
EXTENDS Naturals, FiniteSets

CONSTANTS
    Promotion,   \* the promotion steps
    Request,     \* what pods ask of the lease proxy: a lease each
    Steps        \* stands for the steps of the graph as holders of leases

ASSUME OperatorAssumption == IsFiniteSet(Promotion) /\ Steps \notin Request

VARIABLES
    main,       \* where options.Run is
    failed,     \* errs is not empty
    cancelled,  \* ctx
    once,       \* "free", "close" or "signal": who is inside; "done"
    handler,    \* goroutine of Handler.Run: "off", "listening", "signalled",
                \* "notifying", "final" or "gone"
    pending,    \* there is a signal in the channel
    saved,      \* how often saveNamespaceArtifacts was called
    promotion,  \* step -> "idle", "begun", "running", "ok" or "failed"
    mail,       \* the promotion steps whose result is in a channel
    received,   \* how many results were received
    proxied,    \* the handlers of the lease proxy are registered
    request,    \* request -> "new", "waiting", "holding" or "over"
    leases,     \* holders of leases the client knows
    reported,   \* history: holders of a lease that could not be released
    recording   \* the channel of the metrics agent is open

vars == <<main, failed, cancelled, once, handler, pending, saved, promotion, mail,
          received, proxied, request, leases, reported, recording>>

signalling == <<cancelled, once, handler, pending, saved>>

promoting == <<promotion, mail, received>>

proxying == <<proxied, request>>

\* Where the process has come to its end.
Ended == {"exit", "killed", "crashed"}

\* Where termination signals go to the channel of the handler.
Section == {"leasing", "starting", "executing", "promoting", "releasing", "closing",
            "saving", "unhooking"}

Init ==
    /\ main = "setup" /\ failed = FALSE /\ cancelled = FALSE
    /\ once = "free" /\ handler = "off" /\ pending = FALSE /\ saved = 0
    /\ promotion = [p \in Promotion |-> "idle"]
    /\ mail = {} /\ received = 0
    /\ proxied = FALSE
    /\ request = [r \in Request |-> "new"]
    /\ leases = {} /\ reported = {} /\ recording = TRUE

-----------------------------------------------------------------------------
\* One of the many returns before the critical section: an error, or the graph
\* was only to be printed.
SetupReturns ==
    /\ main = "setup"
    /\ main' = "stopping" /\ failed' \in BOOLEAN
    /\ UNCHANGED <<signalling, promoting, proxying, leases, reported, recording>>

\* interrupt.New(...).Run: signals are caught from here on.
EnterSection ==
    /\ main = "setup"
    /\ main' = "leasing" /\ handler' = "listening"
    /\ UNCHANGED <<failed, cancelled, once, pending, saved, promoting, proxying, leases,
                   reported, recording>>

\* initializeLeaseClient; its error comes before the release is deferred.
InitializeLeaseClient ==
    /\ main = "leasing"
    /\ \/ main' = "starting" /\ UNCHANGED failed
       \/ main' = "closing" /\ failed' = TRUE
    /\ UNCHANGED <<signalling, promoting, proxying, leases, reported, recording>>

\* The clients for events, and the call of steps.Run.
StartExecution ==
    /\ main = "starting"
    /\ \/ main' = "executing" /\ UNCHANGED failed
       \/ main' = "releasing" /\ failed' = TRUE
    /\ UNCHANGED <<signalling, promoting, proxying, leases, reported, recording>>

\* While the graph runs: its steps acquire leases and release them or fail to.
StepsLease ==
    /\ main = "executing"
    /\ leases' \in {leases \cup {Steps}, leases \ {Steps}}
    /\ UNCHANGED <<main, failed, signalling, promoting, proxying, reported, recording>>

\* The step lease-proxy-server registers its handlers.
RegisterHandlers ==
    /\ main = "executing"
    /\ proxied' = TRUE
    /\ UNCHANGED <<main, failed, signalling, promoting, request, leases, reported, recording>>

\* steps.Run returns; without an error the promotion steps are started.
ExecutionReturns ==
    /\ main = "executing"
    /\ \/ /\ main' = "promoting"
          /\ promotion' = [p \in Promotion |-> "begun"]
          /\ UNCHANGED failed
       \/ /\ main' = "releasing" /\ failed' = TRUE
          /\ UNCHANGED promotion
    /\ UNCHANGED <<signalling, mail, received, proxying, leases, reported, recording>>

\* The loop over the results: an error ends it.
ReceiveResult ==
    /\ main = "promoting" /\ received < Cardinality(Promotion)
    /\ \E p \in mail :
          /\ mail' = mail \ {p}
          /\ received' = received + 1
          /\ \/ promotion[p] = "ok" /\ UNCHANGED <<main, failed>>
             \/ promotion[p] = "failed" /\ main' = "releasing" /\ failed' = TRUE
    /\ UNCHANGED <<signalling, promotion, proxying, leases, reported, recording>>

\* Mutant: the loop ends one result too early.
PromotionEndsEarly ==
    /\ main = "promoting" /\ received + 1 >= Cardinality(Promotion)
    /\ main' = "releasing"
    /\ UNCHANGED <<failed, signalling, promoting, proxying, leases, reported, recording>>

PromotionEnds ==
    /\ main = "promoting" /\ received = Cardinality(Promotion)
    /\ main' = "releasing"
    /\ UNCHANGED <<failed, signalling, promoting, proxying, leases, reported, recording>>

\* Mutant: the leases are released only when the graph succeeded.
ReleaseAllOnSuccess ==
    /\ main = "releasing"
    /\ \E left \in SUBSET leases :
          /\ leases' = IF failed THEN leases ELSE left
          /\ reported' = IF failed THEN reported ELSE reported \cup left
    /\ main' = "closing"
    /\ UNCHANGED <<failed, signalling, promoting, proxying, recording>>

\* The deferred function: what cannot be released is logged.
ReleaseAll ==
    /\ main = "releasing"
    /\ \E left \in SUBSET leases :
          /\ leases' = left
          /\ reported' = reported \cup left
    /\ main' = "closing"
    /\ UNCHANGED <<failed, signalling, promoting, proxying, recording>>

\* Mutant: Close runs its functions beside a Signal that is inside once.Do.
CloseBeside ==
    /\ main = "closing"
    /\ \/ once \in {"free", "signal"} /\ once' = "close" /\ main' = "saving"
       \/ once = "done" /\ main' = "unhooking" /\ UNCHANGED once
    /\ UNCHANGED <<failed, cancelled, handler, pending, saved, promoting, proxying, leases,
                   reported, recording>>

\* Handler.Close: once.Do runs the function, or waits for the one that does.
Close ==
    /\ main = "closing"
    /\ \/ once = "free" /\ once' = "close" /\ main' = "saving"
       \/ once = "done" /\ main' = "unhooking" /\ UNCHANGED once
    /\ UNCHANGED <<failed, cancelled, handler, pending, saved, promoting, proxying, leases,
                   reported, recording>>

CloseNotifies ==
    /\ main = "saving"
    /\ saved' = saved + 1
    /\ once' = "done" /\ main' = "unhooking"
    /\ UNCHANGED <<failed, cancelled, handler, pending, promoting, proxying, leases,
                   reported, recording>>

\* signal.Stop and close(ch): from here on a signal kills the process.
Unhook ==
    /\ main = "unhooking"
    /\ main' = "stopping"
    /\ UNCHANGED <<failed, signalling, promoting, proxying, leases, reported, recording>>

\* metricsAgent.Stop closes the channel ...
Stop ==
    /\ main = "stopping"
    /\ recording' = FALSE /\ main' = "flushing"
    /\ UNCHANGED <<failed, signalling, promoting, proxying, leases, reported>>

\* ... and writes the artifact; then the HTTP server is closed, and main ends.
Exit ==
    /\ main = "flushing"
    /\ main' = "exit"
    /\ UNCHANGED <<failed, signalling, promoting, proxying, leases, reported, recording>>

Main ==
    \/ SetupReturns \/ EnterSection \/ InitializeLeaseClient \/ StartExecution
    \/ ReceiveResult \/ PromotionEnds \/ ReleaseAll \/ Close \/ CloseNotifies
    \/ Unhook \/ Stop \/ Exit

-----------------------------------------------------------------------------
\* A termination signal: the channel has room for one; outside of the section
\* the process is killed.
Signal ==
    /\ main \notin Ended
    /\ \/ main \in Section /\ ~pending /\ pending' = TRUE /\ UNCHANGED main
       \/ main \notin Section /\ main' = "killed" /\ UNCHANGED pending
    /\ UNCHANGED <<failed, cancelled, once, handler, saved, promoting, proxying, leases,
                   reported, recording>>

\* The goroutine of Handler.Run.
HandlerReceives ==
    /\ handler = "listening"
    /\ \/ pending /\ pending' = FALSE /\ handler' = "signalled"
       \/ /\ ~pending /\ main \in {"stopping", "flushing"}
          /\ handler' = "gone" /\ UNCHANGED pending
    /\ UNCHANGED <<main, failed, cancelled, once, saved, promoting, proxying, leases,
                   reported, recording>>

\* Handler.Signal: once.Do.
HandlerSignals ==
    /\ handler = "signalled"
    /\ \/ once = "free" /\ once' = "signal" /\ handler' = "notifying"
       \/ once = "done" /\ handler' = "gone" /\ UNCHANGED once
    /\ UNCHANGED <<main, failed, cancelled, pending, saved, promoting, proxying, leases,
                   reported, recording>>

\* saveNamespaceArtifacts, which ends with an event.
HandlerNotifies ==
    /\ handler = "notifying"
    /\ saved' = saved + 1
    /\ handler' = "final"
    /\ main' = IF recording THEN main ELSE "crashed"
    /\ UNCHANGED <<failed, cancelled, once, pending, promoting, proxying, leases,
                   reported, recording>>

\* Mutant: the final function does not cancel the context.
HandlerForgetsCancel ==
    /\ handler = "final"
    /\ once' = "done" /\ handler' = "gone"
    /\ UNCHANGED <<main, failed, cancelled, pending, saved, promoting, proxying, leases,
                   reported, recording>>

\* The final function cancels the context.
HandlerCancels ==
    /\ handler = "final"
    /\ cancelled' = TRUE /\ once' = "done" /\ handler' = "gone"
    /\ UNCHANGED <<main, failed, pending, saved, promoting, proxying, leases, reported,
                   recording>>

Handle == HandlerReceives \/ HandlerSignals \/ HandlerNotifies \/ HandlerCancels

\* The namespace is deleted, or the HTTP server fails.
CancelledElsewhere ==
    /\ main \in Section \cup {"setup"} /\ ~cancelled
    /\ cancelled' = TRUE
    /\ UNCHANGED <<main, failed, once, handler, pending, saved, promoting, proxying, leases,
                   reported, recording>>

-----------------------------------------------------------------------------
\* runPromotionStep: an event when it begins, one when it ends, and its result.
PromotionStarts(p) ==
    /\ promotion[p] = "begun"
    /\ promotion' = [promotion EXCEPT ![p] = "running"]
    /\ main' = IF recording THEN main ELSE "crashed"
    /\ UNCHANGED <<failed, signalling, mail, received, proxying, leases, reported, recording>>

PromotionReturns(p) ==
    /\ promotion[p] = "running"
    /\ \E result \in {"ok", "failed"} : promotion' = [promotion EXCEPT ![p] = result]
    /\ mail' = mail \cup {p}
    /\ main' = IF recording THEN main ELSE "crashed"
    /\ UNCHANGED <<failed, signalling, received, proxying, leases, reported, recording>>

\* A pod asks the proxy for a lease: the handler waits in Acquire.
ProxyAcquire(r) ==
    /\ proxied /\ request[r] = "new"
    /\ request' = [request EXCEPT ![r] = "waiting"]
    /\ UNCHANGED <<main, failed, signalling, promoting, proxied, leases, reported, recording>>

\* Acquire returns; when it fails it may have got some of the leases it was asked
\* for.
ProxyAnswers(r) ==
    /\ request[r] = "waiting"
    /\ \/ /\ request' = [request EXCEPT ![r] = "holding"]
          /\ leases' = leases \cup {r}
       \/ /\ request' = [request EXCEPT ![r] = "over"]
          /\ leases' \in {leases, leases \cup {r}}
    /\ UNCHANGED <<main, failed, signalling, promoting, proxied, reported, recording>>

\* The pod has its lease released, or gets an error.
ProxyRelease(r) ==
    /\ request[r] = "holding"
    /\ request' = [request EXCEPT ![r] = "over"]
    /\ \/ leases' = leases \ {r} /\ UNCHANGED reported
       \/ reported' = reported \cup {r} /\ UNCHANGED leases
    /\ UNCHANGED <<main, failed, signalling, promoting, proxied, recording>>

Others ==
    \/ \E p \in Promotion : PromotionStarts(p) \/ PromotionReturns(p)
    \/ \E r \in Request : ProxyAcquire(r) \/ ProxyAnswers(r) \/ ProxyRelease(r)
    \/ StepsLease \/ RegisterHandlers \/ CancelledElsewhere

Next ==
    /\ main \notin Ended
    /\ Main \/ Signal \/ Handle \/ ExecutionReturns \/ Others

\* Steps may hang for as long as they like, but not once they are cancelled.
Spec ==
    /\ Init /\ [][Next]_vars
    /\ WF_vars(main \notin Ended /\ Main)
    /\ WF_vars(main \notin Ended /\ Handle)
    /\ WF_vars(main \notin Ended /\ cancelled /\ ExecutionReturns)
    /\ \A p \in Promotion :
          WF_vars(/\ main \notin Ended /\ cancelled
                  /\ PromotionStarts(p) \/ PromotionReturns(p))

-----------------------------------------------------------------------------
(* Properties *)

\* Every variable has its type; once.Do is held by one who is inside.
TypeOK ==
    /\ main \in Section \cup Ended \cup {"setup", "stopping", "flushing"}
    /\ failed \in BOOLEAN /\ cancelled \in BOOLEAN /\ pending \in BOOLEAN
    /\ once \in {"free", "close", "signal", "done"}
    /\ once = "close" <=> main = "saving"
    /\ handler \in {"off", "listening", "signalled", "notifying", "final", "gone"}
    /\ handler \in {"notifying", "final"} => once = "signal"
    /\ saved \in Nat /\ received \in 0 .. Cardinality(Promotion)
    /\ promotion \in [Promotion -> {"idle", "begun", "running", "ok", "failed"}]
    /\ mail \subseteq Promotion
    /\ proxied \in BOOLEAN /\ recording \in BOOLEAN
    /\ request \in [Request -> {"new", "waiting", "holding", "over"}]
    /\ leases \subseteq Request \cup {Steps} /\ reported \subseteq Request \cup {Steps}

\* However a signal and the end of the critical section cross, the artifacts of
\* the namespace are saved exactly once, and before the metrics are written.
ArtifactsSavedOnce ==
    /\ saved <= 1
    /\ main \in {"stopping", "flushing", "exit"} /\ handler # "off" => saved = 1

\* No event is recorded after Stop, except by promotion steps that are still at
\* work when another one has failed (and by the late ones of MetricsAgent).
OnlyOutrunPromotionsPanic ==
    main = "crashed" => \E p \in Promotion : promotion[p] = "failed" /\ p \notin mail

\* Success is only reported when the graph and every promotion step succeeded.
SuccessMeansPromoted ==
    main = "exit" /\ handler # "off" /\ ~failed => \A p \in Promotion : promotion[p] = "ok"

\* However the process ends (by a signal that kills it, too, but not by a panic
\* inside the graph such as that of IPPool), a lease that the steps have left
\* behind was released, or the failure to do so was logged.
\* What a pod is granted through the proxy after ReleaseAll is not covered.
StepsLeakNothing ==
    main \in Ended => Steps \notin leases \ reported

\* A signal in the critical section ends ci-operator even when a step hangs:
\* once cancelled the steps return, post steps at the latest at their deadline.
\* Whether Stop itself returns is the question of MetricsAgent.
SignalEndsRun == pending ~> main \in Ended
=============================================================================
