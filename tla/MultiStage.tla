----------------------------- MODULE MultiStage -----------------------------
(***************************************************************************)
(* A multi-stage test (pkg/steps/multi_stage): the pods of the phases      *)
(* "pre", "test" and "post" run one after another while observer pods run  *)
(* beside "pre" and "test".  A failure ends a phase, except "post"; "test" *)
(* needs "pre"; "post" runs in any case, with a context that cannot be     *)
(* cancelled.                                                              *)
(*                                                                         *)
(* The cluster is external: a pod goes from pending to running to ended,   *)
(* unless it stays pending, and is gone some time after it was deleted, by *)
(* ci-operator or by the cluster itself.  A request may fail before or     *)
(* after it had its effect.  The set-up that precedes the observers is not *)
(* modelled.                                                               *)
(***************************************************************************)
EXTENDS Naturals, Sequences, SequencesExt

CONSTANTS
    Tests,     \* set of [pre, test, post, observers, optional, bestEffort]:
               \* three sequences and three sets of names; the last two are
               \* empty when the test does not allow such steps
    Pod        \* all the names

ASSUME TestsAssumption ==
    \A t \in Tests : {t.pre, t.test, t.post} \subseteq Seq(Pod) /\ t.observers \subseteq Pod

VARIABLES
    conf,         \* the test
    phase,        \* "pre", "test", "post" or "observers": waiting for them
    pc,           \* "generate", "create", "wait" or "returned"
    left,         \* the positions of the pods of the phase that are left
    failed,       \* the phases with errors (of hasPrevErrs and errs)
    cancelled,    \* the context of the step
    tearingDown,  \* the context of the observers was cancelled
    pod,          \* name -> "absent", "pending", "running", "ended", "deleting", "gone"
    watch,        \* name -> what the wait for the pod has seen: "none", "pending",
                  \* "running"; "expired": pending for too long; "revived":
                  \* running, but only after it was found pending for too long
    good,         \* the pods that ended well
    tried,        \* the steps that were started, or would have been
    skipped,      \* the steps left out as optional
    abandoned,    \* pods whose creation or deletion was answered by an error
    revived,      \* pods that were seen to start after they had been given up
    broken,       \* phases whose pods could not be generated
    observer,     \* observer -> "new", "waiting" or "finished": its runPod
    deleter       \* observer -> "waiting" or "gone": the goroutine that stops it

vars == <<conf, phase, pc, left, failed, cancelled, tearingDown, pod, watch,
          good, tried, skipped, abandoned, revived, broken, observer, deleter>>

control == <<conf, phase, pc, left, failed, cancelled, tearingDown>>

record == <<good, tried, skipped, abandoned, revived, broken>>

observing == <<observer, deleter>>

Phases == {"pre", "test", "post"}

StepsOf(p) == conf[p]

\* The pod that is next.
Current == StepsOf(phase)[Min(left)]

\* The context of the current phase.
Done == cancelled /\ phase # "post"

Init ==
    /\ conf \in Tests
    /\ phase = "pre" /\ pc = "generate" /\ left = {}
    /\ failed = {} /\ cancelled = FALSE /\ tearingDown = FALSE
    /\ pod = [p \in Pod |-> "absent"] /\ watch = [p \in Pod |-> "none"]
    /\ good = {} /\ tried = {} /\ skipped = {} /\ broken = {}
    /\ abandoned = {} /\ revived = {}
    /\ observer = [o \in conf.observers |-> "new"]
    /\ deleter = [o \in conf.observers |-> "waiting"]

-----------------------------------------------------------------------------
\* The environment of the step.
Cancel ==
    /\ ~cancelled /\ pc # "returned"
    /\ cancelled' = TRUE
    /\ tearingDown' = TRUE    \* the context of the observers is derived from it
    /\ UNCHANGED <<conf, phase, pc, left, failed, pod, watch, record, observing>>

\* A pod is scheduled, or evicted; nothing forces the cluster to either.
PodStarts(p) ==
    /\ pod[p] = "pending"
    /\ pod' = [pod EXCEPT ![p] = "running"]
    /\ UNCHANGED <<control, watch, record, observing>>

PodEvicted(p) ==
    /\ pod[p] \in {"pending", "running"}
    /\ pod' = [pod EXCEPT ![p] = "deleting"]
    /\ UNCHANGED <<control, watch, record, observing>>

\* A pod that runs ends, and one that is deleted disappears.
PodProceeds(p) ==
    /\ \/ /\ pod[p] = "running" /\ pod' = [pod EXCEPT ![p] = "ended"]
          /\ good' \in {good, good \cup {p}}
       \/ pod[p] = "deleting" /\ pod' = [pod EXCEPT ![p] = "gone"] /\ UNCHANGED good
    /\ UNCHANGED <<control, watch, tried, skipped, abandoned, revived, broken, observing>>

Deleted(p) == IF pod[p] \in {"pending", "running", "ended"} THEN "deleting" ELSE pod[p]

\* A request to delete a pod.
Delete(p) ==
    \/ pod' = [pod EXCEPT ![p] = Deleted(p)] /\ UNCHANGED abandoned
    \/ abandoned' = abandoned \cup {p} /\ UNCHANGED pod

-----------------------------------------------------------------------------
\* WaitForPodCompletion runs for the pod.
Waiting(p) ==
    \/ pc = "wait" /\ p = Current
    \/ p \in conf.observers /\ observer[p] = "waiting"

\* The watch sees the pod, at first in its initial list.  (Of a pod that is being
\* deleted the phase is not modelled.)
SeePod(p) ==
    /\ Waiting(p) /\ pod[p] \in {"pending", "running", "deleting"}
    /\ \/ /\ watch[p] = "none"
          /\ \E seen \in {"pending", "running"} :
                /\ pod[p] \in {seen, "deleting"}
                /\ watch' = [watch EXCEPT ![p] = seen]
       \/ /\ watch[p] = "pending" /\ pod[p] = "running"
          /\ watch' = [watch EXCEPT ![p] = "running"]
       \/ /\ watch[p] = "expired" /\ pod[p] = "running"
          /\ watch' = [watch EXCEPT ![p] = "revived"]
    /\ UNCHANGED <<control, pod, record, observing>>

\* pendingCheck, which is started when the pod is seen: it was pending for too
\* long when last seen.  Until WaitForPodCompletion returns (first the events of
\* the pod are listed) the watch goes on.
PendingTimeout(p) ==
    /\ Waiting(p) /\ watch[p] = "pending"
    /\ watch' = [watch EXCEPT ![p] = "expired"]
    /\ UNCHANGED <<control, pod, record, observing>>

\* WaitForPodCompletion returns the end of the pod ...
SeesEnd(p) == pod[p] = "ended" /\ watch[p] \notin {"expired", "revived"}

\* ... or an error: the pod was pending for too long, the context is done, or a pod
\* that had been seen is gone.  For a pod that was gone before the first list it
\* does neither.
GivesUp(p, done) ==
    \/ watch[p] \in {"expired", "revived"}
    \/ done
    \/ pod[p] = "gone" /\ watch[p] # "none"

\* Mutant: a pod that failed to start is not deleted.
CleanUpNothing(p) ==
    /\ UNCHANGED <<pod, abandoned>>
    /\ revived' = IF watch[p] = "revived" THEN revived \cup {p} ELSE revived
    /\ watch' = [watch EXCEPT ![p] = "none"]

\* runPod, after an error: the pod is deleted if it was pending when last seen (or
\* is known from its creation only).  If it was running it is left: to the end of
\* the phase, when the context is done, or for good, when it started only after
\* pendingCheck had looked at it.
CleanUp(p) ==
    /\ \/ watch[p] \in {"none", "pending", "expired"} /\ Delete(p)
       \/ watch[p] \in {"running", "revived"} /\ UNCHANGED <<pod, abandoned>>
    /\ revived' = IF watch[p] = "revived" THEN revived \cup {p} ELSE revived
    /\ watch' = [watch EXCEPT ![p] = "none"]

-----------------------------------------------------------------------------
\* generatePods leaves an optional step out when nothing has failed so far.
Skipped(p) == p \in conf.optional /\ failed = {}

\* `run`, after a phase: "test" follows "pre" when that was good; then the
\* observers are told, and "post" follows in any case.
NextPhase(errors) ==
    \/ /\ phase = "pre" /\ "pre" \notin errors
       /\ phase' = "test" /\ UNCHANGED tearingDown
    \/ /\ phase = "test" \/ (phase = "pre" /\ "pre" \in errors)
       /\ phase' = "post" /\ tearingDown' = TRUE
    \/ /\ phase = "post"
       /\ phase' = "observers" /\ UNCHANGED tearingDown

\* runSteps: the pods of the phase cannot be generated.
GenerateFails ==
    /\ pc = "generate" /\ phase \in Phases
    /\ failed' = failed \cup {phase} /\ broken' = broken \cup {phase}
    /\ NextPhase(failed')
    /\ UNCHANGED <<conf, pc, left, cancelled, pod, watch, good, tried, skipped,
                   abandoned, revived, observing>>

\* runSteps: the pods of the phase.
GeneratePods ==
    /\ pc = "generate" /\ phase \in Phases
    /\ left' = {i \in DOMAIN StepsOf(phase) : ~Skipped(StepsOf(phase)[i])}
    /\ skipped' = skipped \cup {p \in ToSet(StepsOf(phase)) : Skipped(p)}
    /\ pc' = "create"
    /\ UNCHANGED <<conf, phase, failed, cancelled, tearingDown, pod, watch, good,
                   tried, abandoned, revived, broken, observing>>

\* Mutant: the flag for short circuits is not reset before "post".
PodReturnedShort(p, ok) ==
    LET ignored == ok \/ p \in conf.bestEffort
    IN  /\ failed' = IF ignored THEN failed ELSE failed \cup {phase}
        /\ left' = IF ignored THEN left \ {Min(left)} ELSE {}
        /\ pc' = "create"

\* runPods, when runPod has returned: on with the next pod, unless the error
\* ends the phase.
PodReturned(p, ok) ==
    LET ignored == ok \/ p \in conf.bestEffort
    IN  /\ failed' = IF ignored THEN failed ELSE failed \cup {phase}
        /\ left' = IF ignored \/ phase = "post" THEN left \ {Min(left)} ELSE {}
        /\ pc' = "create"

\* CreateOrRestartPod, which fails when the context is done, and may otherwise:
\* before the cluster has created the pod, or after.
CreatePod ==
    /\ pc = "create" /\ left # {}
    /\ LET p == Current
       IN  /\ tried' = tried \cup {p}
           /\ \/ /\ ~Done
                 /\ pod' = [pod EXCEPT ![p] = "pending"]
                 /\ pc' = "wait"
                 /\ UNCHANGED <<left, failed, abandoned>>
              \/ /\ ~Done
                 /\ pod' = [pod EXCEPT ![p] = "pending"]
                 /\ abandoned' = abandoned \cup {p}
                 /\ PodReturned(p, FALSE)
              \/ PodReturned(p, FALSE) /\ UNCHANGED <<pod, abandoned>>
    /\ UNCHANGED <<conf, phase, cancelled, tearingDown, watch, good, skipped, revived,
                   broken, observing>>

\* WaitForPodCompletion sees the pod end.
PodEnds ==
    /\ pc = "wait" /\ SeesEnd(Current)
    /\ PodReturned(Current, Current \in good)
    /\ watch' = [watch EXCEPT ![Current] = "none"]
    /\ UNCHANGED <<conf, phase, cancelled, tearingDown, pod, record, observing>>

\* WaitForPodCompletion returns an error.
GiveUp ==
    /\ pc = "wait" /\ GivesUp(Current, Done)
    /\ PodReturned(Current, FALSE)
    /\ CleanUp(Current)
    /\ UNCHANGED <<conf, phase, cancelled, tearingDown, good, tried, skipped,
                   broken, observing>>

\* The rest of runSteps: when the context is done all the pods of the test are
\* deleted, which may fail; `run` goes on with the next phase.
ClosePhase ==
    /\ pc = "create" /\ left = {}
    /\ \/ /\ Done
          /\ failed' = failed \cup {phase}
          /\ \/ pod' = [p \in Pod |-> Deleted(p)] /\ UNCHANGED abandoned
             \/ abandoned' = abandoned \cup tried /\ UNCHANGED pod
       \/ /\ ~Done
          /\ UNCHANGED <<failed, pod, abandoned>>
    /\ NextPhase(failed')
    /\ pc' = "generate"
    /\ UNCHANGED <<conf, left, cancelled, watch, good, tried, skipped, revived, broken,
                   observing>>

\* Mutant: the step does not wait for its observers.
ReturnAtOnce ==
    /\ pc = "generate" /\ phase = "observers"
    /\ pc' = "returned"
    /\ UNCHANGED <<conf, phase, left, failed, cancelled, tearingDown, pod, watch, record,
                   observing>>

\* <-observerDone: the goroutines of runObservers have all finished.
Return ==
    /\ pc = "generate" /\ phase = "observers"
    /\ \A o \in conf.observers : observer[o] = "finished"
    /\ pc' = "returned"
    /\ UNCHANGED <<conf, phase, left, failed, cancelled, tearingDown, pod, watch, record,
                   observing>>

-----------------------------------------------------------------------------
\* runObservers: the goroutine that stops an observer.  An observer whose pod
\* does not exist yet cannot be stopped, and the request may fail.
DeleteObserver(o) ==
    /\ deleter[o] = "waiting" /\ tearingDown
    /\ deleter' = [deleter EXCEPT ![o] = "gone"]
    /\ Delete(o)
    /\ UNCHANGED <<control, watch, good, tried, skipped, revived, broken, observer>>

\* Mutant: an observer that cannot be created does not reach wg.Done.
StartObserverUncounted(o) ==
    /\ observer[o] = "new" /\ ~cancelled
    /\ pod' = [pod EXCEPT ![o] = "pending"]
    /\ observer' = [observer EXCEPT ![o] = "waiting"]
    /\ UNCHANGED <<control, watch, record, deleter>>

\* runObservers: runPod, with the context of the step.
StartObserver(o) ==
    /\ observer[o] = "new"
    /\ \/ /\ ~cancelled
          /\ pod' = [pod EXCEPT ![o] = "pending"]
          /\ \/ /\ observer' = [observer EXCEPT ![o] = "waiting"]
                /\ UNCHANGED abandoned
             \/ /\ observer' = [observer EXCEPT ![o] = "finished"]
                /\ abandoned' = abandoned \cup {o}
       \/ /\ observer' = [observer EXCEPT ![o] = "finished"]
          /\ UNCHANGED <<pod, abandoned>>
    /\ UNCHANGED <<control, watch, good, tried, skipped, revived, broken, deleter>>

\* runPod returns, or has given its pod up.
ObserverEnds(o) ==
    /\ observer[o] = "waiting"
    /\ \/ /\ SeesEnd(o)
          /\ watch' = [watch EXCEPT ![o] = "none"]
          /\ UNCHANGED <<pod, abandoned, revived>>
       \/ GivesUp(o, cancelled) /\ CleanUp(o)
    /\ observer' = [observer EXCEPT ![o] = "finished"]
    /\ UNCHANGED <<control, good, tried, skipped, broken, deleter>>

Run ==
    \/ GeneratePods \/ GenerateFails \/ CreatePod \/ PodEnds \/ GiveUp \/ ClosePhase \/ Return

Observe(o) == DeleteObserver(o) \/ StartObserver(o) \/ ObserverEnds(o)

\* A pod that was gone before the first list of its watch is waited for.
Missed(p) == Waiting(p) /\ pod[p] = "gone" /\ watch[p] = "none"

\* Nothing happens any more: the test has returned, or waits for such a pod.
Terminated == (pc = "returned" \/ \E p \in Pod : Missed(p)) /\ UNCHANGED vars

Watching(p) == SeePod(p) \/ PendingTimeout(p)

Next ==
    \/ Run \/ Cancel \/ Terminated
    \/ \E p \in Pod : PodStarts(p) \/ PodEvicted(p) \/ PodProceeds(p) \/ Watching(p)
    \/ \E o \in conf.observers : Observe(o)

\* Goroutines go on; a pod that runs ends, at the latest at its deadline, and one
\* that is deleted disappears; a watch sees the pod, and its timer expires.
Spec ==
    /\ Init /\ [][Next]_vars
    /\ WF_vars(Run)
    /\ \A p \in Pod : WF_vars(PodProceeds(p)) /\ WF_vars(Watching(p))
    /\ \A o \in Pod : WF_vars(o \in conf.observers /\ Observe(o))

-----------------------------------------------------------------------------
(* Properties *)

Sequential == ToSet(conf.pre) \cup ToSet(conf.test) \cup ToSet(conf.post)

\* Every variable has its type; a pod is waited for only when it was created.
TypeOK ==
    /\ conf \in Tests
    /\ phase \in Phases \cup {"observers"}
    /\ pc \in {"generate", "create", "wait", "returned"}
    /\ left \subseteq (IF phase \in Phases THEN DOMAIN StepsOf(phase) ELSE {})
    /\ pc = "wait" => left # {} /\ pod[Current] # "absent"
    /\ failed \subseteq Phases /\ cancelled \in BOOLEAN /\ tearingDown \in BOOLEAN
    /\ pod \in [Pod -> {"absent", "pending", "running", "ended", "deleting", "gone"}]
    /\ watch \in [Pod -> {"none", "pending", "running", "expired", "revived"}]
    /\ good \subseteq Pod /\ tried \subseteq Sequential /\ skipped \subseteq Sequential
    /\ abandoned \subseteq Pod /\ revived \subseteq Pod /\ broken \subseteq Phases
    /\ observer \in [conf.observers -> {"new", "waiting", "finished"}]
    /\ deleter \in [conf.observers -> {"waiting", "gone"}]

\* A step that ended well, was skipped, or may fail.
DidWell(p) == p \in good \cup skipped \cup (conf.bestEffort \cap tried)

\* Whatever fails or is cancelled, when the test returns each of its post steps
\* was started, unless it is optional and all pre and test steps did well (or not
\* one of the pods of post could be generated).
PostAlwaysRuns ==
    phase = "observers" =>
        \A p \in ToSet(conf.post) :
            \/ p \in tried
            \/ "post" \in broken
            \/ p \in conf.optional /\ \A q \in ToSet(conf.pre) \cup ToSet(conf.test) : DidWell(q)

\* The steps of "test" are started only after all those of "pre" were good.
TestNeedsPre ==
    tried \cap ToSet(conf.test) # {} =>
        \A p \in ToSet(conf.pre) : DidWell(p)

\* The pods that nobody in ci-operator takes care of any more: a request for them
\* failed, or they started just after they had been found pending for too long.
Unattended == abandoned \cup revived

\* Two pods of the phases are never at work at once: a pod that is left behind is
\* being deleted before the next one is created, unless a request to create or to
\* delete it failed, or it started while it was being given up.
OneAtATime ==
    \A p, q \in Sequential \ Unattended :
        pod[p] \in {"pending", "running"} /\ pod[q] \in {"pending", "running"} => p = q

\* When the test returns none of its pods is left at work, with the same exceptions;
\* an observer may also be, after the test was cancelled.
NothingLeftAtWork ==
    pc = "returned" =>
        \A p \in Pod \ Unattended :
            pod[p] \in {"pending", "running"} => p \in conf.observers /\ cancelled

\* The test returns, whatever fails or is cancelled, or in the end waits for a pod
\* that was deleted before its watch had seen it: such a wait has no timeout.
TestReturns == <>(pc = "returned") \/ <>[](\E p \in Pod : Missed(p))

\* What the comment at cancelObserversContext says: "signal to observers that
\* we're tearing down".  An observer that was signalled, by a request that did
\* not fail, is not at work.
SignalledObserversStop ==
    \A o \in conf.observers \ abandoned :
        deleter[o] = "gone" => pod[o] \notin {"pending", "running"}
=============================================================================
