--------------------------- MODULE MultiStageProofs ---------------------------
(***************************************************************************)
(* Theorems about multi-stage tests, for every set of tests: any number of *)
(* steps in each phase, of observers, and of optional and best-effort      *)
(* steps.                                                                  *)
(***************************************************************************)
EXTENDS MultiStage, WellFoundedInduction, TLAPS

\* A phase has pods left only while they are run, and the test returns only after
\* its last phase.
Positions ==
    /\ pc \in {"generate", "returned"} => left = {}
    /\ pc # "generate" => (pc = "returned" <=> phase = "observers")

\* The types, with the positions.
TypeInv == TypeOK /\ Positions

\* All the steps of a phase did well.
WentWell(f) == \A i \in DOMAIN StepsOf(f) : DidWell(StepsOf(f)[i])

\* The phases before the tear-down: a step that is not left and has not done well
\* is an error of its phase, and an error of "pre" leaves out "test".
BeforePost ==
    /\ phase \in {"pre", "test"} /\ pc \in {"create", "wait"} /\ phase \notin failed =>
          \A i \in DOMAIN StepsOf(phase) : i \in left \/ DidWell(StepsOf(phase)[i])
    /\ phase = "test" => "pre" \notin failed /\ WentWell("pre")
    /\ phase \in {"post", "observers"} /\ failed \cap {"pre", "test"} = {} =>
          WentWell("pre") /\ WentWell("test")

\* Step i of "post" was started, or need not be.
Settled(i) ==
    \/ StepsOf("post")[i] \in tried
    \/ StepsOf("post")[i] \in conf.optional /\ WentWell("pre") /\ WentWell("test")

\* The tear-down: a step that is waited for was started, and each one that is not
\* left was, or could be skipped.
PostSoFar ==
    /\ pc = "wait" => Current \in tried
    /\ phase = "observers" \/ (phase = "post" /\ pc # "generate") =>
          \/ "post" \in broken
          \/ \A i \in DOMAIN StepsOf("post") : i \in left \/ Settled(i)

\* The observers have names of their own, as the steps have.
OwnNames == conf.observers \cap Sequential = {}

\* The states of a pod, and of a watch.
PodState == {"absent", "pending", "running", "ended", "deleting", "gone"}

WatchState == {"none", "pending", "running", "expired", "revived"}

\* A step of the cluster, or of a watch.
Outside(p) == PodStarts(p) \/ PodEvicted(p) \/ PodProceeds(p) \/ Watching(p)

\* The pods that are at work, and that ci-operator takes care of.
AtWork == {p \in Pod \ Unattended : pod[p] \in {"pending", "running"}}

\* A pod of a phase is at work only while it is waited for, or while the phase of a
\* test that was cancelled is about to be cleaned up; and it was started.
Working ==
    /\ \A p \in AtWork \cap Sequential :
          /\ p \in tried
          /\ \/ pc = "wait" /\ p = Current
             \/ pc = "create" /\ Done
    /\ \A p, q \in AtWork \cap Sequential : p = q

\* Nothing but steps and observers is created; an observer is created once, and left
\* at work only when the test was cancelled.
Observing ==
    /\ \A p \in Pod \ (Sequential \cup conf.observers) : pod[p] = "absent"
    /\ \A o \in conf.observers :
          /\ observer[o] = "new" => pod[o] = "absent"
          /\ observer[o] = "finished" /\ o \in AtWork => cancelled
    /\ pc = "returned" => \A o \in conf.observers : observer[o] = "finished"

-----------------------------------------------------------------------------
(* The steps of a test *)

\* A set of positions has a first one.
LEMMA FirstPosition == ASSUME NEW S \in SUBSET Nat, S # {} PROVE Min(S) \in S
  <1> DEFINE R == OpToRel(<, Nat)
  <1>1. IsWellFoundedOn(R, Nat)
    BY NatLessThanWellFounded
  <1>2. PICK x \in S : \A y \in S : ~(<<y, x>> \in R)
    BY <1>1, WFMin
  <1>3. \A y \in S : ~(y < x)
    BY <1>2 DEF OpToRel
  <1>4. \A y \in S : x =< y
    BY <1>3
  <1>5. QED BY <1>4 DEF Min

\* The steps of every phase are pods.
LEMMA StepsArePods ==
    ASSUME conf \in Tests, NEW f \in Phases
    PROVE  /\ StepsOf(f) \in Seq(Pod) /\ ToSet(StepsOf(f)) \subseteq Sequential
           /\ DOMAIN StepsOf(f) = 1..Len(StepsOf(f)) /\ DOMAIN StepsOf(f) \subseteq Nat
           /\ \A i \in DOMAIN StepsOf(f) : StepsOf(f)[i] \in Pod \cap Sequential
  <1>1. conf.pre \in Seq(Pod) /\ conf.test \in Seq(Pod) /\ conf.post \in Seq(Pod)
    BY TestsAssumption
  <1>2. StepsOf(f) = conf.pre \/ StepsOf(f) = conf.test \/ StepsOf(f) = conf.post
    BY DEF StepsOf, Phases
  <1>3. StepsOf(f) \in Seq(Pod) /\ ToSet(StepsOf(f)) \subseteq Sequential
    BY <1>1, <1>2 DEF Sequential
  <1>4. DOMAIN StepsOf(f) = 1..Len(StepsOf(f)) /\ DOMAIN StepsOf(f) \subseteq Nat
    BY <1>3
  <1>5. \A i \in DOMAIN StepsOf(f) : StepsOf(f)[i] \in Pod /\ StepsOf(f)[i] \in ToSet(StepsOf(f))
    BY <1>3 DEF ToSet
  <1>6. QED BY <1>3, <1>4, <1>5

\* All the steps are pods.
LEMMA SequentialArePods == ASSUME conf \in Tests PROVE Sequential \subseteq Pod /\ conf.observers \subseteq Pod
  <1>1. conf.pre \in Seq(Pod) /\ conf.test \in Seq(Pod) /\ conf.post \in Seq(Pod) /\ conf.observers \subseteq Pod
    BY TestsAssumption
  <1>2. QED BY <1>1 DEF Sequential, ToSet

\* The pod that is next is a step of the phase.
LEMMA CurrentIsStep ==
    ASSUME TypeOK, left # {}
    PROVE  /\ phase \in Phases /\ Min(left) \in left /\ Min(left) \in DOMAIN StepsOf(phase)
           /\ Current = StepsOf(phase)[Min(left)] /\ Current \in Pod \cap Sequential
  <1>1. phase \in Phases /\ left \subseteq DOMAIN StepsOf(phase) /\ conf \in Tests
    BY DEF TypeOK
  <1>2. left \in SUBSET Nat
    BY <1>1, StepsArePods
  <1>3. Min(left) \in left
    BY <1>2, FirstPosition
  <1>4. QED BY <1>1, <1>3, StepsArePods DEF Current

\* The test stays the same.
LEMMA SameTest == ASSUME [Next]_vars PROVE conf' = conf /\ Sequential' = Sequential
  <1>1. conf' = conf
    BY DEF Next, Run, Cancel, Terminated, PodStarts, PodEvicted, PodProceeds, Watching, SeePod,
       PendingTimeout, Observe, GeneratePods, GenerateFails, CreatePod,
       PodEnds, GiveUp, ClosePhase, Return, DeleteObserver, StartObserver, ObserverEnds, control, vars
  <1>2. QED BY <1>1 DEF Sequential

-----------------------------------------------------------------------------
(* The types *)

\* What a step of the cluster or of a watch may change.
LEMMA OutsideSteps ==
    ASSUME TypeOK, NEW p \in Pod, Outside(p)
    PROVE  /\ pod' \in [Pod -> PodState] /\ watch' \in [Pod -> WatchState]
           /\ good \subseteq good' /\ good' \subseteq Pod
           /\ \A q \in Pod : /\ pod'[q] = "absent" <=> pod[q] = "absent"
                             /\ pod'[q] \in {"pending", "running"} => pod[q] \in {"pending", "running"}
           /\ UNCHANGED <<control, tried, skipped, abandoned, revived, broken, observing>>
  <1>t. pod \in [Pod -> PodState] /\ watch \in [Pod -> WatchState] /\ good \subseteq Pod
    BY DEF TypeOK, PodState, WatchState
  <1>1. CASE PodStarts(p)
    BY <1>1, <1>t DEF PodStarts, PodState, record
  <1>2. CASE PodEvicted(p)
    BY <1>2, <1>t DEF PodEvicted, PodState, record
  <1>3. CASE PodProceeds(p)
    <2>1. good \subseteq good' /\ good' \subseteq Pod
      BY <1>3, <1>t DEF PodProceeds
    <2>2. pod[p] \in {"running", "deleting"} /\ \E to \in {"ended", "gone"} : pod' = [pod EXCEPT ![p] = to]
      BY <1>3 DEF PodProceeds
    <2>3. UNCHANGED <<control, watch, tried, skipped, abandoned, revived, broken, observing>>
      BY <1>3 DEF PodProceeds
    <2>4. QED BY <2>1, <2>2, <2>3, <1>t DEF PodState
  <1>4. CASE Watching(p)
    <2>1. UNCHANGED <<control, pod, record, observing>>
      BY <1>4 DEF Watching, SeePod, PendingTimeout
    <2>2. watch' \in [Pod -> WatchState]
      BY <1>4, <1>t DEF Watching, SeePod, PendingTimeout, WatchState
    <2>3. QED BY <2>1, <2>2, <1>t DEF record
  <1>5. QED BY <1>1, <1>2, <1>3, <1>4 DEF Outside

\* What becomes of a pod that is to be deleted.
LEMMA DeleteSteps ==
    ASSUME TypeOK, NEW p \in Pod, Delete(p)
    PROVE  /\ pod' \in [Pod -> PodState]
           /\ abandoned' \subseteq Pod /\ abandoned \subseteq abandoned'
           /\ \A q \in Pod : \/ pod'[q] = pod[q]
                             \/ pod[q] # "absent" /\ pod'[q] = "deleting"
           /\ pod'[p] \notin {"pending", "running"} \/ p \in abandoned'
  <1>t. pod \in [Pod -> PodState] /\ abandoned \subseteq Pod
    BY DEF TypeOK, PodState
  <1>1. CASE pod' = [pod EXCEPT ![p] = Deleted(p)] /\ UNCHANGED abandoned
    <2>1. Deleted(p) = pod[p] \/ (pod[p] # "absent" /\ Deleted(p) = "deleting")
      BY DEF Deleted
    <2>2. Deleted(p) \notin {"pending", "running"}
      BY DEF Deleted
    <2>3. Deleted(p) \in PodState
      BY <2>1, <1>t DEF PodState
    <2>4. QED BY <1>1, <1>t, <2>1, <2>2, <2>3
  <1>2. CASE abandoned' = abandoned \cup {p} /\ UNCHANGED pod
    BY <1>2, <1>t
  <1>3. QED BY <1>1, <1>2 DEF Delete

\* What becomes of a pod that was given up: it is deleted, or known to be left.
LEMMA LeftBehindSteps ==
    ASSUME TypeOK, NEW p \in Pod, NEW done, GivesUp(p, done), CleanUp(p)
    PROVE  /\ pod' \in [Pod -> PodState] /\ watch' \in [Pod -> WatchState]
           /\ abandoned' \subseteq Pod /\ abandoned \subseteq abandoned'
           /\ revived' \subseteq Pod /\ revived \subseteq revived'
           /\ \A q \in Pod : \/ pod'[q] = pod[q]
                             \/ pod[q] # "absent" /\ pod'[q] = "deleting"
           /\ \/ pod'[p] \notin {"pending", "running"}
              \/ done \/ p \in Unattended'
  <1>t. /\ pod \in [Pod -> PodState] /\ watch \in [Pod -> WatchState]
        /\ abandoned \subseteq Pod /\ revived \subseteq Pod
    BY DEF TypeOK, PodState, WatchState
  <1>1. watch' \in [Pod -> WatchState]
    BY <1>t DEF CleanUp, WatchState
  <1>2. /\ revived' \subseteq Pod /\ revived \subseteq revived'
        /\ watch[p] = "revived" => p \in revived'
    BY <1>t DEF CleanUp
  <1>3. CASE Delete(p)
    BY <1>1, <1>2, <1>3, DeleteSteps DEF Unattended
  <1>4. CASE watch[p] \in {"running", "revived"} /\ UNCHANGED <<pod, abandoned>>
    <2>1. done \/ watch[p] = "revived" \/ pod[p] = "gone"
      BY <1>4 DEF GivesUp
    <2>2. QED BY <1>1, <1>2, <1>4, <1>t, <2>1 DEF Unattended
  <1>5. QED BY <1>3, <1>4 DEF CleanUp

\* Where the test is after a phase.
LEMMA NextPhaseSteps ==
    ASSUME TypeOK, NEW errors, NextPhase(errors)
    PROVE  phase' \in Phases \cup {"observers"} /\ tearingDown' \in BOOLEAN
  BY DEF TypeOK, NextPhase, Phases

\* What runPods makes of the positions and errors when a pod has returned.
LEMMA PodReturnedSteps ==
    ASSUME TypeOK, NEW p, NEW ok, left # {}, PodReturned(p, ok)
    PROVE  /\ left' \subseteq left /\ failed \subseteq failed' /\ failed' \subseteq failed \cup {phase}
           /\ failed' \subseteq Phases /\ pc' = "create"
           /\ phase = "post" => left' = left \ {Min(left)}
           /\ phase \notin failed' =>
                 /\ ok \/ p \in conf.bestEffort \/ phase \in failed
                 /\ left' = left \ {Min(left)}
  <1>1. phase \in Phases /\ failed \subseteq Phases
    BY CurrentIsStep DEF TypeOK
  <1>2. CASE ok \/ p \in conf.bestEffort
    BY <1>1, <1>2 DEF PodReturned
  <1>3. CASE ~(ok \/ p \in conf.bestEffort)
    BY <1>1, <1>3 DEF PodReturned
  <1>4. QED BY <1>2, <1>3

\* The types are kept.
LEMMA TypeInductive == TypeInv /\ [Next]_vars => TypeInv'
  <1> SUFFICES ASSUME TypeInv, [Next]_vars PROVE TypeInv'
    OBVIOUS
  <1> USE DEF TypeInv
  <1>c. conf' = conf /\ Sequential' = Sequential
    BY SameTest
  <1>t. /\ conf \in Tests /\ phase \in Phases \cup {"observers"} /\ failed \subseteq Phases
        /\ pod \in [Pod -> PodState] /\ watch \in [Pod -> WatchState]
        /\ good \subseteq Pod /\ tried \subseteq Sequential /\ skipped \subseteq Sequential
        /\ abandoned \subseteq Pod /\ revived \subseteq Pod /\ broken \subseteq Phases
    BY DEF TypeOK, PodState, WatchState
  \* What the rest of the test rests on, when it stays as it is.
  <1>r. ASSUME UNCHANGED <<phase, pc, left>>, \A p \in Pod : pod'[p] = "absent" => pod[p] = "absent"
        PROVE  /\ pc' = "wait" => left' # {} /\ pod'[Current'] # "absent"
               /\ left' \subseteq (IF phase' \in Phases THEN DOMAIN StepsOf(phase') ELSE {})
               /\ Positions'
    <2>1. Current' = Current
      BY <1>r, <1>c DEF Current, StepsOf
    <2>2. pc = "wait" => left # {} /\ pod[Current] # "absent" /\ Current \in Pod
      BY CurrentIsStep DEF TypeOK
    <2>3. QED BY <1>r, <2>1, <2>2 DEF TypeOK, Positions
  <1>s. StepsOf(phase)' = conf[phase']
    BY <1>c DEF StepsOf
  <1>1. ASSUME Cancel PROVE TypeInv'
    <2>1. \A p \in Pod : pod'[p] = "absent" => pod[p] = "absent"
      BY <1>1 DEF Cancel
    <2>2. UNCHANGED <<phase, pc, left>>
      BY <1>1 DEF Cancel
    <2>3. QED BY <1>1, <2>1, <2>2, <1>r, <1>c, <1>s DEF Cancel, TypeOK, record, observing, StepsOf
  <1>2. ASSUME NEW p \in Pod, Outside(p) PROVE TypeInv'
    <2>1. /\ pod' \in [Pod -> PodState] /\ watch' \in [Pod -> WatchState] /\ good' \subseteq Pod
          /\ \A q \in Pod : pod'[q] = "absent" => pod[q] = "absent"
          /\ UNCHANGED <<control, tried, skipped, abandoned, revived, broken, observing>>
      BY <1>2, OutsideSteps
    <2>2. UNCHANGED <<phase, pc, left, failed, cancelled, tearingDown>>
      BY <2>1 DEF control
    <2>3. QED BY <2>1, <2>2, <1>r, <1>c, <1>s DEF TypeOK, observing, StepsOf, PodState, WatchState
  <1>3. ASSUME GenerateFails PROVE TypeInv'
    <2>1. phase \in Phases /\ pc = "generate" /\ pc' = pc /\ left' = left /\ left = {}
      BY <1>3 DEF GenerateFails, Positions
    <2>2. phase' \in Phases \cup {"observers"} /\ tearingDown' \in BOOLEAN
      BY <1>3, NextPhaseSteps DEF GenerateFails
    <2>3. failed' \subseteq Phases /\ broken' \subseteq Phases
      BY <1>3, <1>t, <2>1 DEF GenerateFails
    <2>4. QED BY <1>3, <2>1, <2>2, <2>3, <1>c DEF GenerateFails, TypeOK, Positions, observing
  <1>4. ASSUME GeneratePods PROVE TypeInv'
    <2>1. phase \in Phases /\ pc' = "create" /\ phase' = phase
      BY <1>4 DEF GeneratePods
    <2>2. left' \subseteq DOMAIN StepsOf(phase)
      BY <1>4 DEF GeneratePods
    <2>3. skipped' \subseteq Sequential
      BY <1>4, <1>t, <2>1, StepsArePods DEF GeneratePods
    <2>4. QED BY <1>4, <2>1, <2>2, <2>3, <1>c, <1>s DEF GeneratePods, TypeOK, Positions, observing, StepsOf, Phases
  <1>5. ASSUME CreatePod PROVE TypeInv'
    <2>1. pc = "create" /\ left # {} /\ phase' = phase /\ tried' = tried \cup {Current}
      BY <1>5 DEF CreatePod
    <2>2. phase \in Phases /\ Current \in Pod \cap Sequential
      BY <2>1, CurrentIsStep
    <2>3. CASE /\ pod' = [pod EXCEPT ![Current] = "pending"] /\ pc' = "wait"
               /\ UNCHANGED <<left, failed, abandoned>>
      <3>1. Current' = Current
        BY <1>c, <2>1, <2>3 DEF Current, StepsOf
      <3>2. pod' \in [Pod -> PodState]
            /\ pod'[Current'] = "pending"
        BY <2>2, <2>3, <3>1, <1>t DEF PodState
      <3>3. QED BY <1>5, <2>1, <2>2, <2>3, <3>2, <1>c, <1>s
                DEF CreatePod, TypeOK, Positions, observing, StepsOf, Phases, PodState
    <2>4. CASE /\ PodReturned(Current, FALSE)
               /\ pod' \in {pod, [pod EXCEPT ![Current] = "pending"]}
               /\ abandoned' \in {abandoned, abandoned \cup {Current}}
      <3>1. left' \subseteq left /\ failed' \subseteq Phases /\ pc' = "create"
        BY <2>1, <2>4, PodReturnedSteps
      <3>2. pod' \in [Pod -> PodState] /\ abandoned' \subseteq Pod
        BY <2>2, <2>4, <1>t DEF PodState
      <3>3. QED BY <1>5, <2>1, <2>2, <3>1, <3>2, <1>c, <1>s
                DEF CreatePod, TypeOK, Positions, observing, StepsOf, Phases, PodState
    <2>5. QED BY <1>5, <2>3, <2>4 DEF CreatePod
  <1>6. ASSUME PodEnds PROVE TypeInv'
    <2>1. pc = "wait" /\ left # {} /\ phase' = phase
      BY <1>6 DEF PodEnds, TypeOK
    <2>2. phase \in Phases
      BY <2>1, CurrentIsStep
    <2>3. left' \subseteq left /\ failed' \subseteq Phases /\ pc' = "create"
      BY <1>6, <2>1, PodReturnedSteps DEF PodEnds
    <2>w. watch' \in [Pod -> WatchState]
      BY <1>6, <1>t DEF PodEnds, WatchState
    <2>4. QED BY <1>6, <2>1, <2>2, <2>3, <2>w, <1>c, <1>s
              DEF PodEnds, TypeOK, Positions, observing, record, StepsOf, Phases, WatchState
  <1>7. ASSUME GiveUp PROVE TypeInv'
    <2>1. pc = "wait" /\ left # {} /\ phase' = phase
      BY <1>7 DEF GiveUp, TypeOK
    <2>2. phase \in Phases /\ Current \in Pod
      BY <2>1, CurrentIsStep
    <2>3. left' \subseteq left /\ failed' \subseteq Phases /\ pc' = "create"
      BY <1>7, <2>1, PodReturnedSteps DEF GiveUp
    <2>4. /\ pod' \in [Pod -> PodState] /\ watch' \in [Pod -> WatchState]
          /\ abandoned' \subseteq Pod /\ revived' \subseteq Pod
      BY <1>7, <2>2, LeftBehindSteps DEF GiveUp
    <2>5. QED BY <1>7, <2>1, <2>2, <2>3, <2>4, <1>c, <1>s
              DEF GiveUp, TypeOK, Positions, observing, StepsOf, Phases, PodState, WatchState
  <1>8. ASSUME ClosePhase PROVE TypeInv'
    <2>1. pc = "create" /\ left = {} /\ left' = left /\ pc' = "generate"
      BY <1>8 DEF ClosePhase
    <2>2. phase' \in Phases \cup {"observers"} /\ tearingDown' \in BOOLEAN
      BY <1>8, NextPhaseSteps DEF ClosePhase
    <2>3. phase \in Phases
      BY <2>1, <1>t DEF Positions
    <2>4. \A p \in Pod : Deleted(p) \in PodState
      BY <1>t DEF Deleted, PodState
    <2>5. failed' \subseteq Phases /\ abandoned' \subseteq Pod
      BY <1>8, <1>t, <2>3, SequentialArePods DEF ClosePhase
    <2>6. pod' \in [Pod -> PodState]
      BY <1>8, <1>t, <2>4 DEF ClosePhase
    <2>7. QED BY <1>8, <2>1, <2>2, <2>5, <2>6, <1>c DEF ClosePhase, TypeOK, Positions, observing, PodState
  <1>9. ASSUME Return PROVE TypeInv'
    <2>1. left = {}
      BY <1>9 DEF Return, Positions
    <2>2. QED BY <1>9, <2>1, <1>c DEF Return, TypeOK, Positions, record, observing
  <1>10. ASSUME NEW o \in conf.observers, DeleteObserver(o) \/ StartObserver(o) \/ ObserverEnds(o)
         PROVE  TypeInv'
    <2>1. o \in Pod
      BY <1>t, SequentialArePods
    <2>2. UNCHANGED <<phase, pc, left, failed, cancelled, tearingDown, good, tried, skipped, broken>>
      BY <1>10 DEF DeleteObserver, StartObserver, ObserverEnds, control
    <2>3. /\ pod' \in [Pod -> PodState] /\ watch' \in [Pod -> WatchState]
          /\ \A p \in Pod : pod'[p] = "absent" => pod[p] = "absent"
          /\ abandoned' \subseteq Pod /\ revived' \subseteq Pod
      <3>1. CASE DeleteObserver(o)
        BY <3>1, <2>1, <1>t, DeleteSteps DEF DeleteObserver
      <3>2. CASE StartObserver(o)
        <4>1. /\ pod' \in {pod, [pod EXCEPT ![o] = "pending"]} /\ UNCHANGED <<watch, revived>>
              /\ abandoned' \in {abandoned, abandoned \cup {o}}
          BY <3>2 DEF StartObserver
        <4>2. QED BY <4>1, <2>1, <1>t DEF PodState
      <3>3. CASE ObserverEnds(o)
        <4>1. CASE UNCHANGED <<pod, abandoned, revived>> /\ watch' = [watch EXCEPT ![o] = "none"]
          BY <4>1, <1>t DEF WatchState
        <4>2. CASE GivesUp(o, cancelled) /\ CleanUp(o)
          BY <4>2, <2>1, LeftBehindSteps
        <4>3. QED BY <3>3, <4>1, <4>2 DEF ObserverEnds
      <3>4. QED BY <1>10, <3>1, <3>2, <3>3
    <2>4. /\ observer' \in [conf.observers -> {"new", "waiting", "finished"}]
          /\ deleter' \in [conf.observers -> {"waiting", "gone"}]
      BY <1>10 DEF DeleteObserver, StartObserver, ObserverEnds, TypeOK
    <2>5. QED BY <2>2, <2>3, <2>4, <1>r, <1>c, <1>s DEF TypeOK, StepsOf, PodState, WatchState
  <1>11. ASSUME UNCHANGED vars PROVE TypeInv'
    <2>1. UNCHANGED <<phase, pc, left>> /\ \A p \in Pod : pod'[p] = "absent" => pod[p] = "absent"
      BY <1>11 DEF vars
    <2>2. QED BY <1>11, <2>1, <1>r, <1>c, <1>s DEF vars, TypeOK, StepsOf
  <1>12. QED BY <1>1, <1>2, <1>3, <1>4, <1>5, <1>6, <1>7, <1>8, <1>9, <1>10, <1>11
             DEF Next, Run, Terminated, Observe, Outside

\* The types at the start.
LEMMA InitTypes == Init => TypeInv
  <1> SUFFICES ASSUME Init PROVE TypeInv
    OBVIOUS
  <1>1. pod \in [Pod -> PodState] /\ watch \in [Pod -> WatchState]
    BY DEF Init, PodState, WatchState
  <1>2. /\ observer \in [conf.observers -> {"new", "waiting", "finished"}]
        /\ deleter \in [conf.observers -> {"waiting", "gone"}]
    BY DEF Init
  <1>3. QED BY <1>1, <1>2 DEF Init, TypeInv, TypeOK, Positions, Phases, StepsOf, PodState, WatchState

\* The model's state has its types, and a pod is waited for only when it was created.
THEOREM TypeCorrect == Spec => []TypeInv
  BY InitTypes, TypeInductive, PTL DEF Spec

-----------------------------------------------------------------------------
(* The phases *)

\* What was started, skipped, has ended well or failed stays so.
LEMMA RecordsGrow ==
    ASSUME TypeInv, [Next]_vars
    PROVE  /\ good \subseteq good' /\ tried \subseteq tried' /\ skipped \subseteq skipped'
           /\ failed \subseteq failed' /\ broken \subseteq broken'
  <1>1. ASSUME NEW p \in Pod, Outside(p)
        PROVE  good \subseteq good' /\ UNCHANGED <<tried, skipped, failed, broken>>
    BY <1>1, OutsideSteps DEF TypeInv, control
  <1>2. ASSUME Cancel \/ Return \/ UNCHANGED vars
        PROVE  UNCHANGED <<good, tried, skipped, failed, broken>>
    BY <1>2 DEF Cancel, Return, record, vars
  <1>3. ASSUME GenerateFails \/ GeneratePods \/ ClosePhase
        PROVE  /\ UNCHANGED <<good, tried>> /\ skipped \subseteq skipped'
               /\ failed \subseteq failed' /\ broken \subseteq broken'
    BY <1>3 DEF GenerateFails, GeneratePods, ClosePhase
  <1>4. ASSUME NEW p, NEW ok, PodReturned(p, ok) PROVE failed \subseteq failed'
    BY <1>4 DEF PodReturned
  <1>5. ASSUME CreatePod \/ PodEnds \/ GiveUp
        PROVE  /\ UNCHANGED <<good, skipped, broken>> /\ tried \subseteq tried'
               /\ failed \subseteq failed'
    BY <1>4, <1>5 DEF CreatePod, PodEnds, GiveUp, record
  <1>6. ASSUME NEW o \in conf.observers, Observe(o)
        PROVE  UNCHANGED <<good, tried, skipped, failed, broken>>
    BY <1>6 DEF Observe, DeleteObserver, StartObserver, ObserverEnds, control, record
  <1>7. QED BY <1>1, <1>2, <1>3, <1>5, <1>6 DEF Next, Run, Terminated, Outside

\* A step that did well did well for good.
LEMMA WellForGood ==
    ASSUME TypeInv, [Next]_vars
    PROVE  /\ \A p : DidWell(p) => DidWell(p)'
           /\ \A f \in Phases : StepsOf(f)' = StepsOf(f) /\ (WentWell(f) => WentWell(f)')
           /\ \A i : Settled(i) => Settled(i)'
  <1>1. conf' = conf
    BY SameTest
  <1>2. \A p : DidWell(p) => DidWell(p)'
    BY <1>1, RecordsGrow DEF DidWell
  <1>3. \A f \in Phases : StepsOf(f)' = StepsOf(f)
    BY <1>1 DEF StepsOf
  <1>4. ASSUME NEW f \in Phases, WentWell(f) PROVE WentWell(f)'
    BY <1>2, <1>3, <1>4 DEF WentWell
  <1>5. ASSUME NEW i, Settled(i) PROVE Settled(i)'
    <2>1. "pre" \in Phases /\ "test" \in Phases /\ "post" \in Phases
      BY DEF Phases
    <2>2. QED BY <1>1, <1>3, <1>4, <1>5, <2>1, RecordsGrow DEF Settled
  <1>6. QED BY <1>2, <1>3, <1>4, <1>5

\* A step that leaves the place of the test as it is keeps what is known of the
\* phases.
LEMMA PhasesStay ==
    ASSUME TypeInv, BeforePost, PostSoFar, [Next]_vars, UNCHANGED <<phase, pc, left, failed>>
    PROVE  BeforePost' /\ PostSoFar'
  <1>0. /\ "pre" \in Phases /\ "test" \in Phases /\ "post" \in Phases
    BY DEF Phases
  <1>1. Current' = Current
    BY SameTest DEF Current, StepsOf
  <1>2. BeforePost'
    <2>1. ASSUME phase \in {"pre", "test"}, pc \in {"create", "wait"}, phase \notin failed,
                 NEW i \in DOMAIN StepsOf(phase)
          PROVE  i \in left \/ DidWell(StepsOf(phase)[i])'
      <3>1. phase \in Phases /\ phase' = phase
        BY <2>1, <1>0
      <3>2. StepsOf(phase)' = StepsOf(phase)
        BY SameTest, <3>1 DEF StepsOf
      <3>3. i \in left \/ DidWell(StepsOf(phase)[i])
        BY <2>1 DEF BeforePost
      <3>4. QED BY <3>2, <3>3, SameTest, RecordsGrow DEF DidWell
    <2>2. StepsOf(phase)' = StepsOf(phase)
      BY SameTest DEF StepsOf
    <2>3. phase = "test" => "pre" \notin failed /\ WentWell("pre")'
      BY <1>0, WellForGood DEF BeforePost
    <2>4. phase \in {"post", "observers"} /\ failed \cap {"pre", "test"} = {} =>
              WentWell("pre")' /\ WentWell("test")'
      BY <1>0, WellForGood DEF BeforePost
    <2>5. QED BY <2>1, <2>2, <2>3, <2>4 DEF BeforePost
  <1>3. PostSoFar'
    <2>1. pc = "wait" => Current' \in tried'
      BY <1>1, RecordsGrow DEF PostSoFar
    <2>2. phase = "observers" \/ (phase = "post" /\ pc # "generate") =>
             \/ "post" \in broken'
             \/ \A i \in DOMAIN StepsOf("post") : i \in left \/ Settled(i)'
      BY RecordsGrow, WellForGood DEF PostSoFar
    <2>3. QED BY <1>0, <2>1, <2>2, WellForGood DEF PostSoFar
  <1>4. QED BY <1>2, <1>3

\* When a pod has returned, it was started, and it did well or its phase has an
\* error.
LEMMA PodReturnedPhases ==
    ASSUME TypeInv, BeforePost, PostSoFar, [Next]_vars, left # {}, pc \in {"create", "wait"},
           phase' = phase, NEW ok, PodReturned(Current, ok), ok => Current \in good, Current \in tried'
    PROVE  BeforePost' /\ PostSoFar'
  <1>0. "pre" \in Phases /\ "test" \in Phases /\ "post" \in Phases
    BY DEF Phases
  <1>1. /\ phase \in Phases /\ Min(left) \in DOMAIN StepsOf(phase)
        /\ Current = StepsOf(phase)[Min(left)]
    BY CurrentIsStep DEF TypeInv
  <1>2. /\ failed \subseteq failed' /\ failed' \subseteq failed \cup {phase} /\ pc' = "create"
        /\ phase = "post" => left' = left \ {Min(left)}
        /\ phase \notin failed' =>
              /\ ok \/ Current \in conf.bestEffort \/ phase \in failed
              /\ left' = left \ {Min(left)}
    BY PodReturnedSteps DEF TypeInv
  <1>3. StepsOf(phase)' = StepsOf(phase) /\ conf' = conf
    BY SameTest DEF StepsOf
  <1>4. ASSUME phase \in {"pre", "test"}, phase \notin failed', NEW i \in DOMAIN StepsOf(phase)
        PROVE  i \in left' \/ DidWell(StepsOf(phase)[i])'
    <2>1. phase \notin failed
      BY <1>2, <1>4
    <2>2. CASE i = Min(left)
      <3>1. ok \/ Current \in conf.bestEffort
        BY <1>2, <1>4, <2>1
      <3>2. StepsOf(phase)[i]' = Current
        BY <1>1, <1>3, <2>2
      <3>3. Current \in good' \/ Current \in conf'.bestEffort \cap tried'
        BY <1>3, <3>1, RecordsGrow
      <3>4. QED BY <3>2, <3>3 DEF DidWell
    <2>3. CASE i # Min(left)
      <3>1. i \in left \/ DidWell(StepsOf(phase)[i])
        BY <1>4, <2>1 DEF BeforePost
      <3>2. i \in left => i \in left'
        BY <1>2, <1>4, <2>3
      <3>3. DidWell(StepsOf(phase)[i]) => DidWell(StepsOf(phase)[i])'
        BY <1>3, RecordsGrow DEF DidWell
      <3>4. QED BY <3>1, <3>2, <3>3
    <2>4. QED BY <2>2, <2>3
  <1>5. phase = "test" => "pre" \notin failed' /\ WentWell("pre")'
    BY <1>0, <1>2, WellForGood DEF BeforePost
  <1>6. phase \in {"post", "observers"} /\ failed' \cap {"pre", "test"} = {} =>
            WentWell("pre")' /\ WentWell("test")'
    <2>1. failed' \cap {"pre", "test"} = {} => failed \cap {"pre", "test"} = {}
      BY <1>2
    <2>2. QED BY <1>0, <2>1, WellForGood DEF BeforePost
  <1>7. BeforePost'
    BY <1>3, <1>4, <1>5, <1>6 DEF BeforePost
  <1>8. ASSUME phase = "post", "post" \notin broken', NEW i \in DOMAIN StepsOf("post")
        PROVE  i \in left' \/ Settled(i)'
    <2>1. CASE i = Min(left)
      <3>1. StepsOf("post")[i]' = Current
        BY <1>0, <1>1, <1>8, <2>1, WellForGood
      <3>2. QED BY <3>1 DEF Settled
    <2>2. CASE i # Min(left)
      <3>1. i \in left \/ Settled(i)
        BY <1>8, RecordsGrow DEF PostSoFar
      <3>2. QED BY <1>2, <1>8, <2>2, <3>1, WellForGood
    <2>3. QED BY <2>1, <2>2
  <1>9. PostSoFar'
    BY <1>0, <1>1, <1>2, <1>8, WellForGood DEF PostSoFar, Phases
  <1>10. QED BY <1>7, <1>9

\* What is known of the phases is kept.
LEMMA PhasesInductive ==
    TypeInv /\ BeforePost /\ PostSoFar /\ [Next]_vars => BeforePost' /\ PostSoFar'
  <1> SUFFICES ASSUME TypeInv, BeforePost, PostSoFar, [Next]_vars PROVE BeforePost' /\ PostSoFar'
    OBVIOUS
  <1>0. "pre" \in Phases /\ "test" \in Phases /\ "post" \in Phases
    BY DEF Phases
  <1>c. conf' = conf
    BY SameTest
  <1>1. ASSUME GenerateFails PROVE BeforePost' /\ PostSoFar'
    <2>1. /\ phase \in Phases /\ pc' = "generate" /\ failed' = failed \cup {phase}
          /\ broken' = broken \cup {phase} /\ NextPhase(failed')
      BY <1>1 DEF GenerateFails
    <2>2. phase' = "post" \/ (phase = "post" /\ phase' = "observers")
      BY <2>1 DEF NextPhase
    <2>3. phase' = "post" => failed' \cap {"pre", "test"} # {}
      BY <2>1 DEF NextPhase, Phases
    <2>4. phase = "post" /\ failed' \cap {"pre", "test"} = {} => WentWell("pre")' /\ WentWell("test")'
      <3>1. failed' \cap {"pre", "test"} = {} => failed \cap {"pre", "test"} = {}
        BY <2>1
      <3>2. QED BY <1>0, <3>1, WellForGood DEF BeforePost
    <2>5. BeforePost'
      BY <2>1, <2>2, <2>3, <2>4 DEF BeforePost
    <2>6. PostSoFar'
      BY <2>1, <2>2 DEF PostSoFar
    <2>7. QED BY <2>5, <2>6
  <1>2. ASSUME GeneratePods PROVE BeforePost' /\ PostSoFar'
    <2>1. /\ phase \in Phases /\ phase' = phase /\ pc' = "create" /\ failed' = failed /\ pc = "generate"
      BY <1>2 DEF GeneratePods
    <2>2. StepsOf(phase)' = StepsOf(phase)
      BY <1>c, <2>1 DEF StepsOf
    <2>3. ASSUME NEW i \in DOMAIN StepsOf(phase), i \notin left'
          PROVE  /\ DidWell(StepsOf(phase)[i])' /\ failed = {}
                 /\ StepsOf(phase)[i] \in conf.optional
      <3>1. Skipped(StepsOf(phase)[i])
        BY <1>2, <2>3 DEF GeneratePods
      <3>2. StepsOf(phase)[i] \in ToSet(StepsOf(phase))
        BY <2>3 DEF ToSet
      <3>3. StepsOf(phase)[i] \in skipped'
        BY <1>2, <3>1, <3>2 DEF GeneratePods
      <3>4. QED BY <2>2, <3>1, <3>3 DEF Skipped, DidWell
    <2>4. phase = "test" => "pre" \notin failed' /\ WentWell("pre")'
      BY <1>0, <2>1, WellForGood DEF BeforePost
    <2>5. phase = "post" /\ failed' \cap {"pre", "test"} = {} => WentWell("pre")' /\ WentWell("test")'
      BY <1>0, <2>1, WellForGood DEF BeforePost
    <2>6. BeforePost'
      BY <2>1, <2>2, <2>3, <2>4, <2>5 DEF BeforePost, Phases
    <2>7. ASSUME phase = "post", NEW i \in DOMAIN StepsOf("post"), i \notin left' PROVE Settled(i)'
      <3>1. failed = {} /\ StepsOf("post")[i] \in conf.optional
        BY <2>3, <2>7
      <3>2. WentWell("pre")' /\ WentWell("test")'
        BY <2>1, <2>5, <2>7, <3>1
      <3>3. QED BY <1>c, <3>1, <3>2 DEF Settled, StepsOf
    <2>8. PostSoFar'
      BY <1>0, <2>1, <2>7, WellForGood DEF PostSoFar, Phases
    <2>9. QED BY <2>6, <2>8
  <1>3. ASSUME CreatePod PROVE BeforePost' /\ PostSoFar'
    <2>1. pc = "create" /\ left # {} /\ phase' = phase /\ tried' = tried \cup {Current}
      BY <1>3 DEF CreatePod
    <2>2. CASE PodReturned(Current, FALSE)
      BY <2>1, <2>2, PodReturnedPhases
    <2>3. CASE pc' = "wait" /\ UNCHANGED <<left, failed>>
      <3>1. Current' = Current
        BY <1>c, <2>1, <2>3 DEF Current, StepsOf
      <3>2. StepsOf(phase)' = StepsOf(phase)
        BY <1>c, <2>1 DEF StepsOf
      <3>3. phase \in {"pre", "test"} /\ phase \notin failed =>
               \A i \in DOMAIN StepsOf(phase) : i \in left \/ DidWell(StepsOf(phase)[i])'
        <4>1. \A i : DidWell(StepsOf(phase)[i]) => DidWell(StepsOf(phase)[i])'
          BY <1>c, <3>2, RecordsGrow DEF DidWell
        <4>2. QED BY <2>1, <4>1 DEF BeforePost
      <3>4. phase = "test" => "pre" \notin failed' /\ WentWell("pre")'
        BY <1>0, <2>3, WellForGood DEF BeforePost
      <3>5. phase \in {"post", "observers"} /\ failed' \cap {"pre", "test"} = {} =>
                WentWell("pre")' /\ WentWell("test")'
        BY <1>0, <2>3, WellForGood DEF BeforePost
      <3>6. BeforePost'
        BY <2>1, <2>3, <3>2, <3>3, <3>4, <3>5 DEF BeforePost
      <3>7. phase = "post" => \/ "post" \in broken'
                              \/ \A i \in DOMAIN StepsOf("post") : i \in left \/ Settled(i)'
        BY <2>1, WellForGood, RecordsGrow DEF PostSoFar
      <3>8. phase # "observers"
        BY <2>1, CurrentIsStep DEF TypeInv, Phases
      <3>9. PostSoFar'
        BY <1>0, <2>1, <2>3, <3>1, <3>7, <3>8, WellForGood DEF PostSoFar
      <3>10. QED BY <3>6, <3>9
    <2>4. QED BY <1>3, <2>2, <2>3 DEF CreatePod
  <1>4. ASSUME PodEnds \/ GiveUp PROVE BeforePost' /\ PostSoFar'
    <2>1. pc = "wait" /\ left # {} /\ phase' = phase /\ Current \in tried
      BY <1>4 DEF PodEnds, GiveUp, TypeInv, TypeOK, PostSoFar
    <2>2. PodReturned(Current, Current \in good) \/ PodReturned(Current, FALSE)
      BY <1>4 DEF PodEnds, GiveUp
    <2>3. Current \in tried'
      BY <2>1, RecordsGrow
    <2>4. QED BY <2>1, <2>2, <2>3, PodReturnedPhases
  <1>5. ASSUME ClosePhase PROVE BeforePost' /\ PostSoFar'
    <2>1. /\ pc = "create" /\ left = {} /\ left' = {} /\ pc' = "generate" /\ NextPhase(failed')
      BY <1>5 DEF ClosePhase
    <2>2. failed \subseteq failed'
      BY RecordsGrow
    <2>3. phase \in {"pre", "test"} /\ phase \notin failed => WentWell(phase)
      BY <2>1 DEF BeforePost, WentWell
    <2>4. phase' = "test" => "pre" \notin failed' /\ WentWell("pre")'
      BY <1>0, <2>1, <2>2, <2>3, WellForGood DEF NextPhase
    <2>5. phase' = "post" /\ failed' \cap {"pre", "test"} = {} => WentWell("pre")' /\ WentWell("test")'
      <3>1. ASSUME phase' = "post", failed' \cap {"pre", "test"} = {}
            PROVE  phase = "test" /\ phase \notin failed
        BY <2>1, <2>2, <3>1 DEF NextPhase
      <3>2. QED BY <1>0, <2>3, <3>1, WellForGood DEF BeforePost
    <2>6. phase' = "observers" => phase = "post"
      BY <2>1 DEF NextPhase
    <2>7. phase' = "observers" /\ failed' \cap {"pre", "test"} = {} => WentWell("pre")' /\ WentWell("test")'
      <3>1. failed' \cap {"pre", "test"} = {} => failed \cap {"pre", "test"} = {}
        BY <2>2
      <3>2. QED BY <1>0, <2>6, <3>1, WellForGood DEF BeforePost
    <2>8. BeforePost'
      BY <2>1, <2>4, <2>5, <2>7 DEF BeforePost
    <2>9. PostSoFar'
      BY <1>0, <2>1, <2>6, WellForGood, RecordsGrow DEF PostSoFar
    <2>10. QED BY <2>8, <2>9
  <1>6. ASSUME Return PROVE BeforePost' /\ PostSoFar'
    <2>1. phase = "observers" /\ pc' = "returned" /\ UNCHANGED <<phase, left, failed>>
      BY <1>6 DEF Return
    <2>2. BeforePost'
      BY <1>0, <2>1, WellForGood DEF BeforePost
    <2>3. PostSoFar'
      BY <1>0, <2>1, WellForGood, RecordsGrow DEF PostSoFar
    <2>4. QED BY <2>2, <2>3
  <1>7. ASSUME Cancel \/ (\E p \in Pod : Outside(p)) \/ (\E o \in conf.observers : Observe(o))
               \/ UNCHANGED vars
        PROVE  BeforePost' /\ PostSoFar'
    <2>1. UNCHANGED <<phase, pc, left, failed>>
      BY <1>7, OutsideSteps DEF TypeInv, Cancel, Observe, DeleteObserver, StartObserver, ObserverEnds, control, vars
    <2>2. QED BY <2>1, PhasesStay
  <1>8. QED BY <1>1, <1>2, <1>3, <1>4, <1>5, <1>6, <1>7 DEF Next, Run, Terminated, Outside

\* Whatever fails or is cancelled in a test with any number of steps, all its post
\* steps have been started when it returns, unless they are optional and everything
\* before them did well, or not one pod of "post" could be generated.
THEOREM PostRuns == Spec => []PostAlwaysRuns
  <1>1. Init => TypeInv /\ BeforePost /\ PostSoFar
    BY InitTypes DEF Init, BeforePost, PostSoFar
  <1>2. TypeInv /\ BeforePost /\ PostSoFar => PostAlwaysRuns
    <2> SUFFICES ASSUME TypeInv, PostSoFar, phase = "observers", NEW p \in ToSet(conf.post),
                        "post" \notin broken, p \notin tried
                 PROVE  /\ p \in conf.optional
                        /\ \A q \in ToSet(conf.pre) \cup ToSet(conf.test) : DidWell(q)
      BY DEF PostAlwaysRuns
    <2>0. /\ StepsOf("pre") = conf.pre /\ StepsOf("test") = conf.test /\ StepsOf("post") = conf.post
      BY DEF StepsOf
    <2>1. PICK i \in DOMAIN StepsOf("post") : p = StepsOf("post")[i]
      BY <2>0 DEF ToSet
    <2>2. left = {}
      BY DEF TypeInv, Positions
    <2>3. Settled(i)
      BY <2>1, <2>2 DEF PostSoFar
    <2>4. p \in conf.optional /\ WentWell("pre") /\ WentWell("test")
      BY <2>1, <2>3 DEF Settled
    <2>5. QED BY <2>0, <2>4 DEF WentWell, ToSet
  <1>3. QED BY <1>1, <1>2, TypeInductive, PhasesInductive, PTL DEF Spec

-----------------------------------------------------------------------------
(* The pods at work *)

\* A pod starts to be at work only when it is created, as the next step or as an
\* observer, or by a request that was answered by an error.
LEMMA PodSteps ==
    ASSUME TypeInv, [Next]_vars, NEW p \in Pod
    PROVE  /\ Unattended \subseteq Unattended'
           /\ \/ /\ pod'[p] = "absent" <=> pod[p] = "absent"
                 /\ pod'[p] \in {"pending", "running"} => pod[p] \in {"pending", "running"}
              \/ CreatePod /\ p = Current /\ ~Done /\ (p \in Unattended' \/ (pc' = "wait" /\ UNCHANGED left))
              \/ p \in conf.observers /\ StartObserver(p) /\ (p \in Unattended' \/ observer'[p] = "waiting")
  <1> DEFINE Same == /\ pod'[p] = "absent" <=> pod[p] = "absent"
                     /\ pod'[p] \in {"pending", "running"} => pod[p] \in {"pending", "running"}
             Grows == Unattended \subseteq Unattended'
  <1> USE DEF TypeInv
  <1>0. pod \in [Pod -> PodState] /\ conf \in Tests
    BY DEF TypeOK, PodState
  <1>g. ASSUME abandoned \subseteq abandoned', revived \subseteq revived' PROVE Grows
    BY <1>g DEF Unattended
  <1>d. ASSUME \A q \in Pod : \/ pod'[q] = pod[q]
                              \/ pod[q] # "absent" /\ pod'[q] = "deleting"
        PROVE  Same
    BY <1>d
  <1>1. ASSUME Cancel \/ GenerateFails \/ GeneratePods \/ PodEnds \/ Return \/ UNCHANGED vars
        PROVE  Grows /\ Same
    <2>1. UNCHANGED <<pod, abandoned, revived>>
      BY <1>1 DEF Cancel, GenerateFails, GeneratePods, PodEnds, Return, record, vars
    <2>2. QED BY <2>1, <1>g
  <1>2. ASSUME NEW q \in Pod, Outside(q) PROVE Grows /\ Same
    <2>1. UNCHANGED <<abandoned, revived>> /\ Same
      BY <1>2, OutsideSteps
    <2>2. QED BY <2>1, <1>g
  <1>3. ASSUME NEW q \in Pod, NEW done, GivesUp(q, done), CleanUp(q) PROVE Grows /\ Same
    <2>1. /\ abandoned \subseteq abandoned' /\ revived \subseteq revived'
          /\ \A x \in Pod : \/ pod'[x] = pod[x]
                            \/ pod[x] # "absent" /\ pod'[x] = "deleting"
      BY <1>3, LeftBehindSteps
    <2>2. QED BY <2>1, <1>g, <1>d
  <1>4. ASSUME GiveUp PROVE Grows /\ Same
    <2>1. Current \in Pod
      BY <1>4, CurrentIsStep DEF GiveUp, TypeOK
    <2>2. QED BY <1>3, <1>4, <2>1 DEF GiveUp
  <1>5. ASSUME ClosePhase PROVE Grows /\ Same
    <2>0. abandoned \subseteq abandoned' /\ UNCHANGED revived
      BY <1>5 DEF ClosePhase
    <2>1. CASE UNCHANGED pod
      BY <2>0, <2>1, <1>g
    <2>2. CASE pod' = [q \in Pod |-> Deleted(q)]
      BY <2>0, <2>2, <1>0, <1>g DEF Deleted
    <2>3. QED BY <1>5, <2>1, <2>2 DEF ClosePhase
  <1>6. ASSUME CreatePod
        PROVE  /\ Grows
               /\ Same \/ (p = Current /\ ~Done /\ (p \in Unattended' \/ (pc' = "wait" /\ UNCHANGED left)))
    <2>1. abandoned \subseteq abandoned' /\ UNCHANGED revived
      BY <1>6 DEF CreatePod
    <2>2. CASE UNCHANGED pod
      BY <2>1, <2>2, <1>g
    <2>3. CASE /\ ~Done /\ pod' = [pod EXCEPT ![Current] = "pending"]
               /\ Current \in abandoned' \/ (pc' = "wait" /\ UNCHANGED left)
      <3>1. p # Current => pod'[p] = pod[p]
        BY <2>3, <1>0
      <3>2. QED BY <2>1, <2>3, <3>1, <1>g DEF Unattended
    <2>4. QED BY <1>6, <2>2, <2>3 DEF CreatePod
  <1>7. ASSUME NEW o \in conf.observers, Observe(o)
        PROVE  /\ Grows
               /\ Same \/ (p = o /\ StartObserver(p) /\ (p \in Unattended' \/ observer'[p] = "waiting"))
    <2>1. o \in Pod
      BY <1>0, SequentialArePods
    <2>2. CASE DeleteObserver(o)
      <3>1. /\ abandoned \subseteq abandoned' /\ UNCHANGED revived
            /\ \A x \in Pod : \/ pod'[x] = pod[x]
                              \/ pod[x] # "absent" /\ pod'[x] = "deleting"
        BY <2>1, <2>2, DeleteSteps DEF DeleteObserver
      <3>2. QED BY <3>1, <1>g, <1>d
    <2>3. CASE ObserverEnds(o)
      <3>1. CASE UNCHANGED <<pod, abandoned, revived>>
        BY <3>1, <1>g
      <3>2. CASE GivesUp(o, cancelled) /\ CleanUp(o)
        BY <1>3, <2>1, <3>2
      <3>3. QED BY <2>3, <3>1, <3>2 DEF ObserverEnds
    <2>4. CASE StartObserver(o)
      <3>1. abandoned \subseteq abandoned' /\ UNCHANGED revived
        BY <2>4 DEF StartObserver
      <3>2. CASE UNCHANGED pod
        BY <3>1, <3>2, <1>g
      <3>3. CASE /\ pod' = [pod EXCEPT ![o] = "pending"]
                 /\ o \in abandoned' \/ observer' = [observer EXCEPT ![o] = "waiting"]
        <4>1. p # o => pod'[p] = pod[p]
          BY <3>3, <1>0
        <4>2. o \in Unattended' \/ observer'[o] = "waiting"
          BY <3>3 DEF TypeOK, Unattended
        <4>3. QED BY <2>4, <3>1, <4>1, <4>2, <1>g
      <3>4. QED BY <2>4, <3>2, <3>3 DEF StartObserver
    <2>5. QED BY <1>7, <2>2, <2>3, <2>4 DEF Observe
  <1>8. QED BY <1>1, <1>2, <1>4, <1>5, <1>6, <1>7 DEF Next, Run, Terminated, Outside

\* A pod of a phase starts to be at work only as the next step.
LEMMA WorkSteps ==
    ASSUME TypeInv, OwnNames, [Next]_vars, NEW p \in (AtWork \cap Sequential)'
    PROVE  /\ p \in Sequential
           /\ \/ p \in AtWork
              \/ CreatePod /\ p = Current /\ ~Done /\ pc' = "wait" /\ UNCHANGED left
  <1>1. p \in Pod /\ p \in Sequential /\ p \notin Unattended' /\ pod'[p] \in {"pending", "running"}
    BY SameTest DEF AtWork
  <1>2. p \notin conf.observers
    BY <1>1 DEF OwnNames
  <1>3. QED BY <1>1, <1>2, PodSteps DEF AtWork

\* Only the pod that is waited for is at work.
LEMMA WorkingInductive == TypeInv /\ PostSoFar /\ OwnNames /\ Working /\ [Next]_vars => Working'
  <1> SUFFICES ASSUME TypeInv, PostSoFar, OwnNames, Working, [Next]_vars PROVE Working'
    OBVIOUS
  <1> DEFINE W == AtWork \cap Sequential
  <1>e. ASSUME W' = {} PROVE Working'
    BY <1>e DEF Working
  <1>n. ASSUME W = {}, ~CreatePod PROVE W' = {}
    BY <1>n, WorkSteps
  <1>c. conf' = conf
    BY SameTest
  <1>1. ASSUME GenerateFails \/ GeneratePods \/ Return PROVE Working'
    <2>1. pc = "generate"
      BY <1>1 DEF GenerateFails, GeneratePods, Return
    <2>2. W = {}
      BY <2>1 DEF Working
    <2>3. ~CreatePod
      BY <2>1 DEF CreatePod
    <2>4. QED BY <1>e, <1>n, <2>2, <2>3
  <1>2. ASSUME CreatePod PROVE Working'
    <2>1. pc = "create" /\ UNCHANGED <<phase, cancelled>> /\ tried' = tried \cup {Current}
      BY <1>2 DEF CreatePod
    <2>2. CASE ~Done /\ pc' = "wait" /\ UNCHANGED left
      <3>1. W = {}
        BY <2>1, <2>2 DEF Working
      <3>2. W' \subseteq {Current}
        BY <3>1, WorkSteps
      <3>3. Current' = Current
        BY <1>c, <2>1, <2>2 DEF Current, StepsOf
      <3>4. QED BY <2>1, <2>2, <3>2, <3>3 DEF Working
    <2>3. CASE PodReturned(Current, FALSE)
      <3>1. pc' = "create" /\ Done' = Done
        BY <2>1, <2>3 DEF PodReturned, Done
      <3>2. W' \subseteq W
        BY <3>1, WorkSteps
      <3>3. \A p \in W : p \in tried /\ Done
        BY <2>1 DEF Working
      <3>4. \A p, q \in W : p = q
        BY DEF Working
      <3>5. QED BY <2>1, <3>1, <3>2, <3>3, <3>4 DEF Working
    <2>4. QED BY <1>2, <2>2, <2>3 DEF CreatePod
  <1>3. ASSUME PodEnds PROVE Working'
    <2>1. pc = "wait" /\ pod[Current] = "ended" /\ ~CreatePod
      BY <1>3 DEF PodEnds, SeesEnd, CreatePod
    <2>2. W = {}
      BY <2>1 DEF Working, AtWork
    <2>3. QED BY <1>e, <1>n, <2>1, <2>2
  <1>4. ASSUME GiveUp PROVE Working'
    <2>1. pc = "wait" /\ UNCHANGED <<phase, cancelled, tried>> /\ ~CreatePod
          /\ GivesUp(Current, Done) /\ CleanUp(Current)
      BY <1>4 DEF GiveUp, CreatePod
    <2>2. W' \subseteq W
      BY <2>1, WorkSteps
    <2>3. \A p \in W : p = Current /\ p \in tried
      BY <2>1 DEF Working
    <2>4. Current \in Pod
      BY <2>1, CurrentIsStep DEF TypeInv, TypeOK
    <2>5. Current \in W' => Done
      BY <2>1, <2>4, LeftBehindSteps DEF TypeInv, AtWork
    <2>6. pc' = "create" /\ Done' = Done
      BY <1>4, <2>1 DEF GiveUp, PodReturned, Done
    <2>7. QED BY <2>1, <2>2, <2>3, <2>5, <2>6 DEF Working
  <1>5. ASSUME ClosePhase PROVE Working'
    <2>1. pc = "create" /\ ~CreatePod
      BY <1>5 DEF ClosePhase, CreatePod
    <2>2. W' \subseteq W
      BY <2>1, WorkSteps
    <2>3. CASE ~Done
      <3>1. W = {}
        BY <2>1, <2>3 DEF Working
      <3>2. QED BY <1>e, <2>2, <3>1
    <2>4. CASE Done /\ pod' = [p \in Pod |-> Deleted(p)]
      <3>1. \A p \in Pod : pod'[p] \notin {"pending", "running"}
        BY <2>4 DEF Deleted
      <3>2. W' = {}
        BY <3>1 DEF AtWork
      <3>3. QED BY <1>e, <3>2
    <2>5. CASE Done /\ abandoned' = abandoned \cup tried
      <3>1. W \subseteq tried
        BY DEF Working
      <3>2. W' = {}
        BY <2>2, <2>5, <3>1 DEF AtWork, Unattended
      <3>3. QED BY <1>e, <3>2
    <2>6. QED BY <1>5, <2>3, <2>4, <2>5 DEF ClosePhase
  <1>6. ASSUME Cancel \/ (\E p \in Pod : Outside(p)) \/ (\E o \in conf.observers : Observe(o))
               \/ UNCHANGED vars
        PROVE  Working'
    <2>1. UNCHANGED <<phase, pc, left, tried>> /\ (cancelled' = cancelled \/ cancelled')
      <3>1. CASE Cancel
        BY <3>1 DEF Cancel, record
      <3>2. CASE ~Cancel
        BY <1>6, <3>2, OutsideSteps DEF TypeInv, Observe, DeleteObserver, StartObserver, ObserverEnds, control,
           record, vars
      <3>3. QED BY <3>1, <3>2
    <2>2. Current' = Current
      BY <1>c, <2>1 DEF Current, StepsOf
    <2>3. Done => Done'
      BY <2>1 DEF Done
    <2>4. W' \subseteq W
      <3>1. CASE CreatePod
        BY <2>1, <3>1, WorkSteps DEF CreatePod
      <3>2. CASE ~CreatePod
        BY <3>2, WorkSteps
      <3>3. QED BY <3>1, <3>2
    <2>5. QED BY <2>1, <2>2, <2>3, <2>4 DEF Working
  <1>7. QED BY <1>1, <1>2, <1>3, <1>4, <1>5, <1>6 DEF Next, Run, Terminated, Outside

\* A test that was cancelled stays so.
LEMMA CancelledStays == ASSUME [Next]_vars, cancelled PROVE cancelled'
  <1>1. CASE Cancel
    BY <1>1 DEF Cancel
  <1>2. CASE ~Cancel
    BY <1>2 DEF Next, Run, Terminated, PodStarts, PodEvicted, PodProceeds, Watching, SeePod,
       PendingTimeout, Observe, GeneratePods, GenerateFails, CreatePod,
       PodEnds, GiveUp, ClosePhase, Return, DeleteObserver, StartObserver, ObserverEnds, control, vars
  <1>3. QED BY <1>1, <1>2

\* Only Return ends the test.
LEMMA ReturnReturns == ASSUME [Next]_vars, pc' = "returned", pc # "returned" PROVE Return
  BY DEF Next, Run, Cancel, Terminated, GeneratePods, GenerateFails, CreatePod, PodReturned, PodEnds,
     GiveUp, ClosePhase, PodStarts, PodEvicted, PodProceeds, Watching, SeePod, PendingTimeout,
     Observe, DeleteObserver, StartObserver, ObserverEnds, control, vars

\* An observer is created once, and stopped or left to a test that was cancelled.
LEMMA ObservingInductive == TypeInv /\ OwnNames /\ Observing /\ [Next]_vars => Observing'
  <1> SUFFICES ASSUME TypeInv, OwnNames, Observing, [Next]_vars PROVE Observing'
    OBVIOUS
  <1> USE DEF TypeInv
  <1>c. conf' = conf /\ Sequential' = Sequential
    BY SameTest
  <1>0. /\ conf.observers \subseteq Pod /\ conf \in Tests
        /\ observer \in [conf.observers -> {"new", "waiting", "finished"}]
    BY SequentialArePods DEF TypeOK
  <1>k. CreatePod => Current \in Sequential
    BY CurrentIsStep DEF CreatePod
  <1>1. ASSUME NEW p \in Pod, p \notin Sequential, p \notin conf.observers PROVE pod'[p] = "absent"
    BY <1>1, <1>k, PodSteps DEF Observing
  \* What becomes of an observer's goroutine.
  <1>2. ASSUME NEW o \in conf.observers
        PROVE  \/ observer'[o] = observer[o] /\ ~StartObserver(o)
               \/ /\ observer[o] = "new" /\ observer'[o] = "waiting"
               \/ /\ observer[o] = "new" /\ observer'[o] = "finished" /\ (pod' = pod \/ o \in abandoned')
               \/ /\ observer[o] = "waiting" /\ observer'[o] = "finished" /\ ObserverEnds(o)
    <2> DEFINE Quiet == observer'[o] = observer[o] /\ ~StartObserver(o)
    <2>1. ASSUME Run \/ Cancel \/ UNCHANGED vars \/ (\E p \in Pod : Outside(p)) PROVE UNCHANGED observer
      BY <2>1, OutsideSteps DEF Run, Cancel, GeneratePods, GenerateFails, CreatePod, PodEnds, GiveUp, ClosePhase, Return,
         observing, vars
    <2>2. UNCHANGED observer => ~StartObserver(o)
      BY <1>0 DEF StartObserver
    <2>4. ASSUME NEW q \in conf.observers, DeleteObserver(q) PROVE UNCHANGED observer
      BY <2>4 DEF DeleteObserver
    <2>5. ASSUME NEW q \in conf.observers, StartObserver(q)
          PROVE  \/ Quiet
                 \/ /\ observer[o] = "new" /\ observer'[o] = "waiting"
                 \/ /\ observer[o] = "new" /\ observer'[o] = "finished" /\ (pod' = pod \/ o \in abandoned')
      <3>1. CASE q = o
        BY <2>5, <3>1, <1>0 DEF StartObserver
      <3>2. CASE q # o
        <4>1. observer'[o] = observer[o] /\ observer'[q] # "new"
          BY <2>5, <3>2, <1>0 DEF StartObserver
        <4>2. ~StartObserver(o)
          BY <4>1, <1>0 DEF StartObserver
        <4>3. QED BY <4>1, <4>2
      <3>3. QED BY <3>1, <3>2
    <2>6. ASSUME NEW q \in conf.observers, ObserverEnds(q)
          PROVE  Quiet \/ (observer[o] = "waiting" /\ observer'[o] = "finished" /\ ObserverEnds(o))
      <3>1. CASE q = o
        BY <2>6, <3>1, <1>0 DEF ObserverEnds
      <3>2. CASE q # o
        <4>1. observer'[o] = observer[o]
          BY <2>6, <3>2, <1>0 DEF ObserverEnds
        <4>2. ~StartObserver(o)
          BY <4>1, <1>0 DEF StartObserver
        <4>3. QED BY <4>1, <4>2
      <3>3. QED BY <3>1, <3>2
    <2>7. QED BY <2>1, <2>2, <2>4, <2>5, <2>6 DEF Next, Terminated, Observe, Outside
  <1>3. ASSUME NEW o \in conf.observers, observer'[o] = "new" PROVE pod'[o] = "absent"
    <2>1. observer[o] = "new" /\ ~StartObserver(o) /\ o \in Pod /\ o \notin Sequential
      BY <1>0, <1>2, <1>3 DEF OwnNames
    <2>2. QED BY <1>k, <2>1, PodSteps DEF Observing
  <1>4. ASSUME NEW o \in conf.observers, observer'[o] = "finished", o \in AtWork' PROVE cancelled'
    <2>0. o \in Pod /\ o \notin Sequential /\ o \notin Unattended' /\ pod'[o] \in {"pending", "running"}
      BY <1>0, <1>4 DEF OwnNames, AtWork
    <2>1. o \in AtWork
      BY <1>k, <1>4, <2>0, PodSteps DEF AtWork
    <2>2. CASE observer[o] = "finished"
      <3>1. cancelled
        BY <2>1, <2>2 DEF Observing
      <3>2. QED BY <3>1, CancelledStays
    <2>3. CASE observer[o] = "new" /\ (pod' = pod \/ o \in abandoned')
      BY <2>0, <2>3 DEF Observing, Unattended
    <2>4. CASE ObserverEnds(o)
      <3>1. GivesUp(o, cancelled) /\ CleanUp(o) /\ cancelled' = cancelled
        BY <2>0, <2>4 DEF ObserverEnds, SeesEnd, control
      <3>2. QED BY <2>0, <3>1, LeftBehindSteps
    <2>5. QED BY <1>2, <1>4, <2>2, <2>3, <2>4
  <1>5. ASSUME NEW o \in conf.observers, pc' = "returned" PROVE observer'[o] = "finished"
    <2>1. CASE pc = "returned"
      <3>1. observer[o] = "finished"
        BY <2>1 DEF Observing
      <3>2. QED BY <1>2, <3>1
    <2>2. CASE Return
      BY <2>2 DEF Return, observing
    <2>3. CASE pc # "returned" /\ ~Return
      BY <1>5, <2>3, ReturnReturns
    <2>4. QED BY <2>1, <2>2, <2>3
  <1>6. QED BY <1>c, <1>1, <1>3, <1>4, <1>5 DEF Observing

\* The steps of the phases never run two at a time, unless a request to create or to
\* delete one failed or one started while it was being given up: for every test whose
\* observers have names of their own.
THEOREM NeverTwoAtOnce == Spec => [](OwnNames => OneAtATime)
  <1>1. Init => TypeInv /\ BeforePost /\ PostSoFar /\ (OwnNames => Working)
    BY InitTypes DEF Init, BeforePost, PostSoFar, Working, AtWork
  <1>2. TypeInv /\ PostSoFar /\ (OwnNames => Working) /\ [Next]_vars => (OwnNames => Working)'
    <2> SUFFICES ASSUME TypeInv, PostSoFar, OwnNames => Working, [Next]_vars, OwnNames'
                 PROVE  Working'
      OBVIOUS
    <2>1. OwnNames
      BY SameTest DEF OwnNames
    <2>2. QED BY <2>1, WorkingInductive
  <1>3. TypeInv /\ (OwnNames => Working) => (OwnNames => OneAtATime)
    BY SequentialArePods DEF TypeInv, TypeOK, Working, AtWork, OneAtATime
  <1>4. QED BY <1>1, <1>2, <1>3, TypeInductive, PhasesInductive, PTL DEF Spec

\* When a test returns, none of its steps is left at work, and an observer only if
\* the test was cancelled, unless a request for it failed or it started while it was
\* being given up: for every test whose observers have names of their own.
THEOREM NothingIsLeft == Spec => [](OwnNames => NothingLeftAtWork)
  <1>1. Init => TypeInv /\ BeforePost /\ PostSoFar /\ (OwnNames => Working /\ Observing)
    <2> SUFFICES ASSUME Init PROVE TypeInv /\ BeforePost /\ PostSoFar /\ Working /\ Observing
      OBVIOUS
    <2>1. TypeInv /\ BeforePost /\ PostSoFar
      BY InitTypes DEF Init, BeforePost, PostSoFar
    <2>2. \A p \in Pod : pod[p] = "absent"
      BY DEF Init
    <2>3. AtWork = {}
      BY <2>2 DEF AtWork
    <2>4. conf.observers \subseteq Pod
      BY SequentialArePods DEF Init
    <2>5. QED BY <2>1, <2>2, <2>3, <2>4 DEF Init, Working, Observing
  <1>2. TypeInv /\ PostSoFar /\ (OwnNames => Working /\ Observing) /\ [Next]_vars =>
            (OwnNames => Working /\ Observing)'
    <2> SUFFICES ASSUME TypeInv, PostSoFar, OwnNames => Working /\ Observing, [Next]_vars, OwnNames'
                 PROVE  Working' /\ Observing'
      OBVIOUS
    <2>1. OwnNames
      BY SameTest DEF OwnNames
    <2>2. QED BY <2>1, WorkingInductive, ObservingInductive
  <1>3. TypeInv /\ (OwnNames => Working /\ Observing) => (OwnNames => NothingLeftAtWork)
    <2> SUFFICES ASSUME Working, Observing, pc = "returned", NEW p \in Pod \ Unattended,
                        pod[p] \in {"pending", "running"}
                 PROVE  p \in conf.observers /\ cancelled
      BY DEF NothingLeftAtWork
    <2>1. p \in AtWork
      BY DEF AtWork
    <2>2. p \notin Sequential
      BY <2>1 DEF Working
    <2>3. p \in conf.observers
      BY <2>2 DEF Observing
    <2>4. QED BY <2>1, <2>3 DEF Observing
  <1>4. QED BY <1>1, <1>2, <1>3, TypeInductive, PhasesInductive, PTL DEF Spec
=============================================================================
