--------------------------- MODULE NodeWatchProofs ---------------------------
(***************************************************************************)
(* Theorems about the nodes plugin, for every set of workloads, attempts,  *)
(* goroutines and nodes, and every capacity of the channel.                *)
(***************************************************************************)
EXTENDS NodeWatch, SequenceTheorems, TLAPS

\* The goroutine was started by an attempt of some workload.
Spawned(g) == \E w \in Workload : \E i \in 1 .. Attempts(w) : g \in Spawns[w][i]

\* The entries are those of the nodes that have workloads; the send and Run have
\* one node at a time; only goroutines that a step started look for nodes.
EntriesExact ==
    /\ known = {n \in Node : nodeWorkloads[n] # {}}
    /\ Len(mu) <= 1 /\ Len(inHand) <= 1
    /\ \A g \in Goroutine : extract[g] # "idle" => Spawned(g)

TypeInv == TypeOK /\ EntriesExact

Watcher == [node : Node, stopped : BOOLEAN, reported : BOOLEAN]

\* A goroutine that an attempt started looks for the pod of that workload, and
\* is one of those of its attempt (the two CHOOSE of the model have a value).
LEMMA Chosen ==
    ASSUME NEW g, Spawned(g)
    PROVE  /\ WorkloadOf(g) \in Workload
           /\ AttemptOf(g) \in 1 .. Attempts(WorkloadOf(g))
           /\ g \in Spawns[WorkloadOf(g)][AttemptOf(g)]
<1>1. \E w \in Workload : \E i \in 1 .. Attempts(w) : g \in Spawns[w][i]
  BY DEF Spawned
<1>2. /\ WorkloadOf(g) \in Workload
      /\ \E i \in 1 .. Attempts(WorkloadOf(g)) : g \in Spawns[WorkloadOf(g)][i]
  BY <1>1, Zenon DEF WorkloadOf
<1> QED  BY <1>2, Zenon DEF AttemptOf

\* Stopping a watcher leaves the list of watchers one, and changes nothing but
\* the mark of that watcher.
LEMMA StopOne ==
    ASSUME NEW W \in Seq(Watcher), NEW k \in Nat
    PROVE  LET W2 == [W EXCEPT ![k].stopped = TRUE]
           IN  /\ W2 \in Seq(Watcher) /\ Len(W2) = Len(W) /\ DOMAIN W2 = DOMAIN W
               /\ \A i \in DOMAIN W : /\ W2[i].node = W[i].node
                                      /\ W2[i].stopped = (i = k \/ W[i].stopped)
<1> DEFINE W2 == [W EXCEPT ![k].stopped = TRUE]
<1>1. DOMAIN W2 = 1 .. Len(W) /\ DOMAIN W = 1 .. Len(W) /\ Len(W) \in Nat
  BY LenProperties
<1>2. ASSUME NEW i \in 1 .. Len(W)
      PROVE  /\ W2[i] \in Watcher
             /\ W2[i].node = W[i].node /\ W2[i].stopped = (i = k \/ W[i].stopped)
  <2>1. W[i] \in Watcher
    BY <1>2, ElementOfSeq
  <2>2. CASE i = k
    <3>1. W2[i] = [W[i] EXCEPT !.stopped = TRUE]
      BY <1>1, <1>2, <2>2
    <3> QED  BY <2>1, <2>2, <3>1 DEF Watcher
  <2>3. CASE i # k
    <3>1. W2[i] = W[i]
      BY <1>1, <1>2, <2>3
    <3> QED  BY <2>1, <2>3, <3>1 DEF Watcher
  <2> QED  BY <2>2, <2>3
<1>3. W2 = [i \in 1 .. Len(W) |-> W2[i]]
  BY <1>1
<1>4. W2 \in Seq(Watcher)
  <2>1. \A i \in 1 .. Len(W) : W2[i] \in Watcher
    BY <1>2
  <2>2. W2 \in [1 .. Len(W) -> Watcher]
    <3> HIDE DEF W2
    <3> QED  BY <1>3, <2>1, Zenon
  <2> QED  BY <1>1, <2>2, SeqDef, Zenon
<1>5. Len(W2) = Len(W)
  BY <1>1, <1>4, LenProperties
<1> QED  BY <1>1, <1>2, <1>4, <1>5

\* The event of a watcher changes neither its node nor its mark.
LEMMA ReportOne ==
    ASSUME NEW W \in Seq(Watcher), NEW k \in Nat
    PROVE  LET W2 == [W EXCEPT ![k].reported = TRUE]
           IN  /\ W2 \in Seq(Watcher) /\ Len(W2) = Len(W) /\ DOMAIN W2 = DOMAIN W
               /\ \A i \in DOMAIN W : /\ W2[i].node = W[i].node
                                      /\ W2[i].stopped = W[i].stopped
<1> DEFINE W2 == [W EXCEPT ![k].reported = TRUE]
<1>1. DOMAIN W2 = 1 .. Len(W) /\ DOMAIN W = 1 .. Len(W) /\ Len(W) \in Nat
  BY LenProperties
<1>2. ASSUME NEW i \in 1 .. Len(W)
      PROVE  W2[i] \in Watcher /\ W2[i].node = W[i].node /\ W2[i].stopped = W[i].stopped
  <2>1. W[i] \in Watcher
    BY <1>2, ElementOfSeq
  <2>2. W2[i] = [W[i] EXCEPT !.reported = TRUE] \/ W2[i] = W[i]
    BY <1>1, <1>2
  <2> QED  BY <2>1, <2>2 DEF Watcher
<1>3. W2 = [i \in 1 .. Len(W) |-> W2[i]]
  BY <1>1
<1>4. W2 \in Seq(Watcher)
  <2>1. \A i \in 1 .. Len(W) : W2[i] \in Watcher
    BY <1>2
  <2>2. W2 \in [1 .. Len(W) -> Watcher]
    <3> HIDE DEF W2
    <3> QED  BY <1>3, <2>1, Zenon
  <2> QED  BY <1>1, <2>2, SeqDef, Zenon
<1>5. Len(W2) = Len(W)
  BY <1>1, <1>4, LenProperties
<1> QED  BY <1>1, <1>2, <1>4, <1>5

-----------------------------------------------------------------------------
(* Types and entries *)

\* Every action keeps the types and the entries.
LEMMA TypeInvInductive == TypeInv /\ [Next]_vars => TypeInv'
<1> USE NodeWatchAssumption
<1> SUFFICES ASSUME TypeInv, [Next]_vars PROVE TypeInv'
  OBVIOUS
<1> USE DEF TypeInv
<1>1. CASE Send
  <2>1. nodesCh \o mu \in Seq(Node) /\ Len(nodesCh \o mu) = Len(nodesCh) + Len(mu)
    BY ConcatProperties, Zenon DEF TypeOK
  <2>2. nodesCh' \in Seq(Node) /\ Len(nodesCh') <= Capacity
    BY <1>1, <2>1 DEF Send, TypeOK, EntriesExact
  <2>3. mu' \in Seq(Node) /\ Len(mu') <= 1
    BY <1>1 DEF Send
  <2> QED  BY <1>1, <2>2, <2>3 DEF Send, TypeOK, EntriesExact, steps
<1>2. CASE Receive
  <2>1. Head(nodesCh) \in Node /\ Tail(nodesCh) \in Seq(Node) /\ Len(Tail(nodesCh)) = Len(nodesCh) - 1
    BY <1>2, HeadTailProperties DEF Receive, TypeOK
  <2>2. inHand' \in Seq(Node) /\ Len(inHand') = 1
    BY <1>2, <2>1 DEF Receive
  <2>3. nodesCh' \in Seq(Node) /\ Len(nodesCh') <= Capacity
    BY <1>2, <2>1, LenProperties DEF Receive, TypeOK
  <2> QED  BY <1>2, <2>2, <2>3 DEF Receive, TypeOK, EntriesExact, steps
<1>3. CASE Handle
  <2>1. Head(inHand) \in Node
    BY <1>3, HeadTailProperties DEF Handle, TypeOK
  <2>2. /\ watchers' \in Seq(Watcher) /\ stopCh' \in [Node -> 0 .. Len(watchers')]
        /\ nodesToPoll' \subseteq Node
    <3>1. CASE Head(inHand) \in nodesToPoll
      BY <1>3, <3>1 DEF Handle, TypeOK, Watcher
    <3>2. CASE StartWatcher(Head(inHand))
      <4>1. [node |-> Head(inHand), stopped |-> FALSE, reported |-> FALSE] \in Watcher
        BY <2>1 DEF Watcher
      <4>2. watchers \in Seq(Watcher)
        BY DEF TypeOK, Watcher
      <4>3. watchers' \in Seq(Watcher) /\ Len(watchers') = Len(watchers) + 1
        BY <3>2, <4>1, <4>2, AppendProperties, Zenon DEF StartWatcher
      <4> QED  BY <2>1, <3>2, <4>2, <4>3, LenProperties DEF StartWatcher, TypeOK
    <3> QED  BY <1>3, <3>1, <3>2 DEF Handle
  <2>3. inHand' = <<>>
    BY <1>3 DEF Handle
  <2> QED  BY <1>3, <2>2, <2>3 DEF Handle, TypeOK, EntriesExact, Watcher, steps
<1>4. ASSUME NEW i \in DOMAIN watchers, WatchEnds(i) PROVE TypeInv'
  <2>1. watchers \in Seq(Watcher) /\ i \in Nat
    BY LenProperties DEF TypeOK, Watcher
  <2>2. watchers' \in Seq(Watcher) /\ Len(watchers') = Len(watchers)
    BY <1>4, <2>1, ReportOne, Zenon DEF WatchEnds
  <2> QED  BY <1>4, <2>2 DEF WatchEnds, TypeOK, EntriesExact, Watcher, steps
<1>5. ASSUME NEW g \in Goroutine, Find(g) PROVE TypeInv'
  <2>1. WorkloadOf(g) \in Workload
    BY <1>5, Chosen DEF Find, EntriesExact
  <2> QED  BY <1>5, <2>1 DEF Find, TypeOK, EntriesExact, shared
<1>6. ASSUME NEW g \in Goroutine, GiveUp(g) PROVE TypeInv'
  BY <1>6 DEF GiveUp, TypeOK, EntriesExact, shared
<1>7. ASSUME NEW g \in Goroutine, AddNodeForWorkload(g) PROVE TypeInv'
  <2>1. WorkloadOf(g) \in Workload
    BY <1>7, Chosen DEF AddNodeForWorkload, EntriesExact
  <2>2. PICK n \in found[g] :
            /\ nodeWorkloads' = [nodeWorkloads EXCEPT ![n] = @ \cup {WorkloadOf(g)}]
            /\ known' = known \cup {n}
            /\ mu' = IF n \in known THEN <<>> ELSE <<n>>
    BY <1>7 DEF AddNodeForWorkload
  <2>3. n \in Node
    BY DEF TypeOK
  <2>4. mu' \in Seq(Node) /\ Len(mu') <= 1
    BY <2>2, <2>3
  <2>5. /\ nodeWorkloads' \in [Node -> SUBSET Workload] /\ known' \subseteq Node
        /\ known' = {m \in Node : nodeWorkloads'[m] # {}}
    BY <2>1, <2>2, <2>3 DEF TypeOK, EntriesExact
  <2>6. late' \subseteq Workload
    BY <1>7, <2>1 DEF AddNodeForWorkload, TypeOK
  <2>7. /\ extract' \in [Goroutine -> {"idle", "polling", "found", "done"}]
        /\ \A h \in Goroutine : extract'[h] # "idle" => Spawned(h)
    BY <1>7 DEF AddNodeForWorkload, TypeOK, EntriesExact
  <2> QED  BY <1>7, <2>4, <2>5, <2>6, <2>7 DEF AddNodeForWorkload, TypeOK, EntriesExact
<1>8. ASSUME NEW w \in Workload, BeginAttempt(w) PROVE TypeInv'
  <2>1. attempt[w] \in Nat /\ Attempts(w) \in Nat /\ attempt[w] + 1 \in 1 .. Attempts(w)
    BY <1>8, LenProperties DEF BeginAttempt, TypeOK, Attempts
  <2>2. \A g \in Spawns[w][attempt[w] + 1] : Spawned(g)
    BY <2>1 DEF Spawned
  <2> QED  BY <1>8, <2>1, <2>2 DEF BeginAttempt, TypeOK, EntriesExact, shared
<1>9. ASSUME NEW w \in Workload, RemoveWorkload(w) PROVE TypeInv'
  <2>1. CASE UNCHANGED <<nodeWorkloads, known, nodesToPoll, stopCh, watchers, raced>>
    BY <1>9, <2>1 DEF RemoveWorkload, TypeOK, EntriesExact
  <2>2. ASSUME NEW n \in known, w \in nodeWorkloads[n], RemoveFrom(w, n) PROVE TypeInv'
    <3>1. n \in Node
      BY DEF TypeOK
    <3>2. nodeWorkloads' \in [Node -> SUBSET Workload]
      BY <2>2, <3>1 DEF RemoveFrom, TypeOK
    <3>3. known' \subseteq Node /\ known' = {m \in Node : nodeWorkloads'[m] # {}}
      BY <2>2, <3>1 DEF RemoveFrom, CleanUp, TypeOK, EntriesExact
    <3>4. /\ watchers' \in Seq(Watcher) /\ Len(watchers') = Len(watchers)
          /\ nodesToPoll' \subseteq Node /\ raced' \subseteq Node
      <4>1. watchers \in Seq(Watcher) /\ stopCh[n] \in Nat
        BY <3>1, LenProperties DEF TypeOK, Watcher
      <4>2. /\ watchers' = [watchers EXCEPT ![stopCh[n]].stopped = TRUE] \/ watchers' = watchers
            /\ nodesToPoll' \subseteq Node /\ raced' \subseteq Node
        BY <2>2, <3>1, Zenon DEF RemoveFrom, CleanUp, TypeOK
      <4>3. /\ [watchers EXCEPT ![stopCh[n]].stopped = TRUE] \in Seq(Watcher)
            /\ Len([watchers EXCEPT ![stopCh[n]].stopped = TRUE]) = Len(watchers)
        BY <4>1, StopOne, Zenon
      <4>4. watchers' \in Seq(Watcher) /\ Len(watchers') = Len(watchers)
        BY <4>1, <4>2, <4>3, Zenon
      <4> QED  BY <4>2, <4>4
    <3>5. stopCh' \in [Node -> 0 .. Len(watchers')]
      <4>1. stopCh' = [stopCh EXCEPT ![n] = 0] \/ stopCh' = stopCh
        BY <2>2, Zenon DEF RemoveFrom, CleanUp
      <4>2. Len(watchers) \in Nat /\ stopCh \in [Node -> 0 .. Len(watchers)]
        BY LenProperties DEF TypeOK
      <4> QED  BY <3>1, <3>4, <4>1, <4>2
    <3> QED  BY <1>9, <3>2, <3>3, <3>4, <3>5 DEF RemoveWorkload, TypeOK, EntriesExact, Watcher
  <2> QED  BY <1>9, <2>1, <2>2 DEF RemoveWorkload
<1>10. ASSUME NEW w \in Workload, DeletePod(w) PROVE TypeInv'
  BY <1>10 DEF DeletePod, TypeOK, EntriesExact, shared
<1>11. ASSUME NEW w \in Workload, NEW n \in Node, Schedule(w, n) PROVE TypeInv'
  BY <1>11 DEF Schedule, TypeOK, EntriesExact, shared
<1>12. CASE UNCHANGED vars
  BY <1>12 DEF vars, shared, steps, TypeOK, EntriesExact
<1> QED
  BY <1>1, <1>2, <1>3, <1>4, <1>5, <1>6, <1>7, <1>8, <1>9, <1>10, <1>11, <1>12
     DEF Next, Run, Extract

\* The types hold, and the entries of the plugin are always exactly those of the
\* nodes that have workloads (AddNodeForWorkload and RemoveWorkload).
THEOREM TypeCorrect == Spec => []TypeInv
<1>1. Init => TypeInv
  BY NodeWatchAssumption DEF Init, TypeInv, TypeOK, EntriesExact
<1> QED  BY <1>1, TypeInvInductive, PTL DEF Spec, SafetySpec

-----------------------------------------------------------------------------
(* Watchers *)

\* Every action keeps one watcher at most per node.
LEMMA OneWatcherInductive == TypeInv /\ OneWatcherPerNode /\ [Next]_vars => OneWatcherPerNode'
<1> SUFFICES ASSUME TypeInv, OneWatcherPerNode, [Next]_vars PROVE OneWatcherPerNode'
  OBVIOUS
<1>0. /\ watchers \in Seq(Watcher) /\ Len(watchers) \in Nat /\ DOMAIN watchers = 1 .. Len(watchers)
      /\ stopCh \in [Node -> 0 .. Len(watchers)]
  BY LenProperties DEF TypeInv, TypeOK, Watcher
<1>1. CASE UNCHANGED <<watchers, nodesToPoll, stopCh>>
  BY <1>1 DEF OneWatcherPerNode
<1>2. CASE Handle
  <2> DEFINE n == Head(inHand)
  <2>1. SUFFICES ASSUME StartWatcher(n), n \notin nodesToPoll PROVE OneWatcherPerNode'
    BY <1>1, <1>2 DEF Handle
  <2>2. n \in Node
    BY <1>2, HeadTailProperties DEF Handle, TypeInv, TypeOK
  <2>3. [node |-> n, stopped |-> FALSE, reported |-> FALSE] \in Watcher
    BY <2>2 DEF Watcher
  <2> DEFINE new == [node |-> n, stopped |-> FALSE, reported |-> FALSE]
             k == Len(watchers) + 1
  <2>4. /\ watchers' \in Seq(Watcher) /\ Len(watchers') = k
        /\ \A i \in 1 .. Len(watchers) : watchers'[i] = watchers[i]
        /\ watchers'[k] = new
    BY <1>0, <2>1, <2>3, AppendProperties DEF StartWatcher
  <2>5. DOMAIN watchers' = 1 .. k
    BY <2>4, LenProperties
  <2>6. nodesToPoll' = nodesToPoll \cup {n} /\ stopCh' = [stopCh EXCEPT ![n] = k]
    BY <2>1 DEF StartWatcher
  <2>7. new.node = n /\ ~new.stopped
    OBVIOUS
  <2> HIDE DEF n, new
  <2> SUFFICES ASSUME NEW m \in Node
               PROVE  {i \in DOMAIN watchers' : watchers'[i].node = m /\ ~watchers'[i].stopped} =
                         IF m \in nodesToPoll' THEN {stopCh'[m]} ELSE {}
    BY DEF OneWatcherPerNode
  <2>8. {i \in DOMAIN watchers : watchers[i].node = m /\ ~watchers[i].stopped} =
            IF m \in nodesToPoll THEN {stopCh[m]} ELSE {}
    BY DEF OneWatcherPerNode
  <2>9. CASE m = n
    BY <1>0, <2>1, <2>2, <2>4, <2>5, <2>6, <2>7, <2>8, <2>9
  <2>10. CASE m # n
    BY <1>0, <2>2, <2>4, <2>5, <2>6, <2>7, <2>8, <2>10
  <2> QED  BY <2>9, <2>10
<1>3. ASSUME NEW i \in DOMAIN watchers, WatchEnds(i) PROVE OneWatcherPerNode'
  <2>1. /\ DOMAIN watchers' = DOMAIN watchers
        /\ \A j \in DOMAIN watchers : /\ watchers'[j].node = watchers[j].node
                                      /\ watchers'[j].stopped = watchers[j].stopped
    <3>1. i \in Nat /\ watchers' = [watchers EXCEPT ![i].reported = TRUE]
      BY <1>0, <1>3 DEF WatchEnds
    <3> QED  BY <1>0, <3>1, ReportOne, Zenon
  <2> QED  BY <1>3, <2>1 DEF WatchEnds, OneWatcherPerNode
<1>4. ASSUME NEW w \in Workload, RemoveWorkload(w) PROVE OneWatcherPerNode'
  <2>1. SUFFICES ASSUME NEW n \in known, n \in nodesToPoll, CleanUp(n) PROVE OneWatcherPerNode'
    BY <1>1, <1>4 DEF RemoveWorkload, RemoveFrom, CleanUp
  <2>2. n \in Node
    BY DEF TypeInv, TypeOK
  <2>3. /\ nodesToPoll' = nodesToPoll \ {n}
        /\ watchers' = [watchers EXCEPT ![stopCh[n]].stopped = TRUE]
        /\ stopCh' = [stopCh EXCEPT ![n] = 0]
    BY <2>1 DEF CleanUp
  <2>4. /\ DOMAIN watchers' = DOMAIN watchers
        /\ \A j \in DOMAIN watchers :
              /\ watchers'[j].node = watchers[j].node
              /\ watchers'[j].stopped = (j = stopCh[n] \/ watchers[j].stopped)
    <3>1. stopCh[n] \in Nat
      BY <1>0, <2>2
    <3> QED  BY <1>0, <2>3, <3>1, StopOne, Zenon
  <2> SUFFICES ASSUME NEW m \in Node
               PROVE  {i \in DOMAIN watchers' : watchers'[i].node = m /\ ~watchers'[i].stopped} =
                         IF m \in nodesToPoll' THEN {stopCh'[m]} ELSE {}
    BY DEF OneWatcherPerNode
  <2>5. \A l \in Node : {i \in DOMAIN watchers : watchers[i].node = l /\ ~watchers[i].stopped} =
            IF l \in nodesToPoll THEN {stopCh[l]} ELSE {}
    BY DEF OneWatcherPerNode
  <2>6. CASE m = n
    BY <1>0, <2>1, <2>2, <2>3, <2>4, <2>5, <2>6
  <2>7. CASE m # n
    BY <1>0, <2>1, <2>2, <2>3, <2>4, <2>5, <2>7
  <2> QED  BY <2>6, <2>7
<1>5. ASSUME NEW g \in Goroutine, Extract(g) PROVE OneWatcherPerNode'
  BY <1>1, <1>5 DEF Extract, Find, GiveUp, AddNodeForWorkload, shared
<1>6. ASSUME NEW w \in Workload, BeginAttempt(w) \/ DeletePod(w) \/ \E n \in Node : Schedule(w, n)
      PROVE  OneWatcherPerNode'
  BY <1>1, <1>6 DEF BeginAttempt, DeletePod, Schedule, shared
<1>7. CASE Send \/ Receive
  BY <1>1, <1>7 DEF Send, Receive
<1>8. CASE UNCHANGED vars
  BY <1>1, <1>8 DEF vars, shared
<1> QED  BY <1>2, <1>3, <1>4, <1>5, <1>6, <1>7, <1>8 DEF Next, Run

\* A node has at most one watcher that was not stopped, the one its stop channel
\* reaches, and has one exactly while it is polled.
THEOREM OneWatcher == Spec => []OneWatcherPerNode
<1>1. Init => OneWatcherPerNode
  BY DEF Init, OneWatcherPerNode
<1> QED  BY <1>1, TypeCorrect, OneWatcherInductive, PTL DEF Spec, SafetySpec

-----------------------------------------------------------------------------
(* The way of a node to its watcher *)

\* The channel, the send and Run together hold what each of them holds.
LEMMA RangeOfThree ==
    ASSUME NEW S, NEW a \in Seq(S), NEW b \in Seq(S), NEW c \in Seq(S)
    PROVE  Range(a \o b \o c) = Range(a) \cup Range(b) \cup Range(c)
<1> DEFINE d == a \o b
<1>1. d \in Seq(S) /\ Range(d) = Range(a) \cup Range(b)
  BY ConcatProperties, RangeConcatenation
<1> HIDE DEF d
<1>2. Range(d \o c) = Range(d) \cup Range(c)
  BY <1>1, RangeConcatenation
<1> QED  BY <1>1, <1>2 DEF d

\* A sequence holds its head and what is in its tail.
LEMMA RangeOfHeadTail ==
    ASSUME NEW S, NEW a \in Seq(S), a # <<>>
    PROVE  Range(a) = {Head(a)} \cup Range(Tail(a))
<1>1. /\ Head(a) = a[1] /\ Tail(a) \in Seq(S) /\ Len(Tail(a)) = Len(a) - 1
      /\ Len(a) \in Nat \ {0} /\ \A i \in 1 .. Len(a) - 1 : Tail(a)[i] = a[i + 1]
  BY HeadTailProperties, LenProperties
<1>2. DOMAIN a = 1 .. Len(a) /\ DOMAIN Tail(a) = 1 .. Len(a) - 1
  BY <1>1, LenProperties
<1>3. ASSUME NEW i \in 1 .. Len(a) PROVE a[i] \in {Head(a)} \cup Range(Tail(a))
  <2>1. CASE i = 1
    BY <1>1, <2>1
  <2>2. CASE i # 1
    <3>1. i - 1 \in 1 .. Len(a) - 1 /\ Tail(a)[i - 1] = a[i]
      BY <1>1, <2>2
    <3> QED  BY <1>2, <3>1 DEF Range
  <2> QED  BY <2>1, <2>2
<1>4. ASSUME NEW i \in 1 .. Len(a) - 1 PROVE Tail(a)[i] \in Range(a)
  BY <1>1, <1>2, <1>4 DEF Range
<1>5. Head(a) \in Range(a)
  BY <1>1, <1>2 DEF Range
<1>6. Range(a) \subseteq {Head(a)} \cup Range(Tail(a))
  BY <1>2, <1>3 DEF Range
<1>7. Range(Tail(a)) \subseteq Range(a)
  BY <1>2, <1>4 DEF Range
<1> QED  BY <1>5, <1>6, <1>7

\* Every action keeps the nodes with workloads watched or on their way.
LEMMA WatchedInductive ==
    TypeInv /\ EveryWorkloadIsWatched /\ [Next]_vars => EveryWorkloadIsWatched'
<1> SUFFICES ASSUME TypeInv, EveryWorkloadIsWatched, [Next]_vars PROVE EveryWorkloadIsWatched'
  OBVIOUS
<1>0. mu \in Seq(Node) /\ nodesCh \in Seq(Node) /\ inHand \in Seq(Node)
  BY DEF TypeInv, TypeOK
<1>a. TypeInv'
  BY TypeInvInductive
<1> DEFINE OnWay == Range(mu) \cup Range(nodesCh) \cup Range(inHand)
<1>b. Range(mu \o nodesCh \o inHand) = OnWay
  BY <1>0, RangeOfThree
<1>c. Range(mu \o nodesCh \o inHand)' = OnWay'
  <2>1. mu' \in Seq(Node) /\ nodesCh' \in Seq(Node) /\ inHand' \in Seq(Node)
    BY <1>a DEF TypeInv, TypeOK
  <2> QED  BY <2>1, RangeOfThree
<1>d. \A n \in Node : nodeWorkloads[n] # {} => n \in nodesToPoll \cup OnWay
  BY <1>b DEF EveryWorkloadIsWatched
<1>e. SUFFICES \A n \in Node : nodeWorkloads'[n] # {} => n \in nodesToPoll' \cup OnWay'
  BY <1>c DEF EveryWorkloadIsWatched
<1> HIDE DEF OnWay
<1>f. Range(<<>>) = {}
  BY DEF Range
<1>1. CASE UNCHANGED <<mu, nodesCh, inHand>> /\ UNCHANGED <<nodeWorkloads, nodesToPoll>>
  BY <1>1, <1>d DEF OnWay
<1>2. CASE Send
  <2>1. Range(nodesCh') = Range(nodesCh) \cup Range(mu)
    BY <1>0, <1>2, RangeConcatenation DEF Send
  <2> QED  BY <1>2, <1>d, <2>1 DEF Send, OnWay
<1>3. CASE Receive
  <2>1. Range(inHand') = {Head(nodesCh)}
    BY <1>3 DEF Receive, Range
  <2>2. Range(nodesCh) = Range(inHand') \cup Range(nodesCh')
    BY <1>0, <1>3, <2>1, RangeOfHeadTail DEF Receive
  <2> QED  BY <1>3, <1>d, <1>f, <2>2 DEF Receive, OnWay
<1>4. CASE Handle
  <2>1. Range(inHand) = {Head(inHand)}
    BY <1>0, <1>4, HeadTailProperties, LenProperties DEF Handle, Range, TypeInv, EntriesExact
  <2>2. nodesToPoll \cup {Head(inHand)} = nodesToPoll'
    BY <1>4 DEF Handle, StartWatcher
  <2> QED  BY <1>4, <1>d, <2>1, <2>2 DEF Handle, OnWay
<1>5. ASSUME NEW i \in DOMAIN watchers, WatchEnds(i) PROVE EveryWorkloadIsWatched'
  BY <1>1, <1>5, <1>c, <1>e DEF WatchEnds, EveryWorkloadIsWatched
<1>6. ASSUME NEW g \in Goroutine, AddNodeForWorkload(g)
      PROVE  \A n \in Node : nodeWorkloads'[n] # {} => n \in nodesToPoll' \cup OnWay'
  <2>1. PICK n \in found[g] :
            /\ nodeWorkloads' = [nodeWorkloads EXCEPT ![n] = @ \cup {WorkloadOf(g)}]
            /\ mu' = IF n \in known THEN <<>> ELSE <<n>>
    BY <1>6 DEF AddNodeForWorkload
  <2>2. Range(<<n>>) = {n}
    BY DEF Range
  <2>3. n \in known => nodeWorkloads[n] # {}
    BY DEF TypeInv, EntriesExact
  <2> QED  BY <1>6, <1>d, <1>f, <2>1, <2>2, <2>3 DEF AddNodeForWorkload, OnWay, TypeInv, TypeOK
<1>7. ASSUME NEW w \in Workload, RemoveWorkload(w)
      PROVE  \A n \in Node : nodeWorkloads'[n] # {} => n \in nodesToPoll' \cup OnWay'
  <2>1. CASE UNCHANGED <<nodeWorkloads, known, nodesToPoll, stopCh, watchers, raced>>
    BY <1>1, <1>7, <2>1 DEF RemoveWorkload
  <2>2. ASSUME NEW n \in known, w \in nodeWorkloads[n], RemoveFrom(w, n)
        PROVE  \A m \in Node : nodeWorkloads'[m] # {} => m \in nodesToPoll' \cup OnWay'
    <3>1. n \in Node /\ nodeWorkloads' = [nodeWorkloads EXCEPT ![n] = @ \ {w}]
      BY <2>2 DEF RemoveFrom, TypeInv, TypeOK
    <3>2. IF nodeWorkloads[n] = {w} THEN nodesToPoll \ {n} \subseteq nodesToPoll'
                                    ELSE nodesToPoll' = nodesToPoll
      BY <2>2 DEF RemoveFrom, CleanUp
    <3> QED  BY <1>7, <1>d, <3>1, <3>2 DEF RemoveWorkload, OnWay, TypeInv, TypeOK
  <2> QED  BY <1>7, <2>1, <2>2 DEF RemoveWorkload
<1>8. ASSUME NEW g \in Goroutine, Find(g) \/ GiveUp(g)
      PROVE  \A n \in Node : nodeWorkloads'[n] # {} => n \in nodesToPoll' \cup OnWay'
  BY <1>1, <1>8 DEF Find, GiveUp, shared
<1>9. ASSUME NEW w \in Workload, BeginAttempt(w) \/ DeletePod(w) \/ \E n \in Node : Schedule(w, n)
      PROVE  \A n \in Node : nodeWorkloads'[n] # {} => n \in nodesToPoll' \cup OnWay'
  BY <1>1, <1>9 DEF BeginAttempt, DeletePod, Schedule, shared
<1>10. CASE UNCHANGED vars
  BY <1>1, <1>10 DEF vars, shared
<1> QED
  BY <1>2, <1>3, <1>4, <1>5, <1>6, <1>7, <1>8, <1>9, <1>10, <1>c
     DEF Next, Run, Extract, EveryWorkloadIsWatched

\* A node that has workloads is watched or on its way to Run: a workload that is
\* added while the node of an earlier one is given up is not forgotten.
THEOREM WorkloadsAreWatched == Spec => []EveryWorkloadIsWatched
<1>1. Init => EveryWorkloadIsWatched
  BY DEF Init, EveryWorkloadIsWatched
<1> QED  BY <1>1, TypeCorrect, WatchedInductive, PTL DEF Spec, SafetySpec

-----------------------------------------------------------------------------
(* Leaks *)

\* The nodes on their way to Run, the one it will handle next first.
Way == inHand \o nodesCh \o mu

\* A goroutine that belongs to the attempt under way.
Current(g) == WorkloadOf(g) \in running /\ attempt[WorkloadOf(g)] = AttemptOf(g)

\* What a goroutine has found is where the pod of its attempt is, as long as the
\* attempt lasts: a pod has one node, and the goroutines of an attempt find
\* nothing before it begins.
FoundIsCurrent ==
    /\ \A w \in Workload : pod[w] = {} \/ \E n \in Node : pod[w] = {n}
    /\ \A g \in Goroutine :
          extract[g] = "found" =>
              /\ found[g] # {}
              /\ Current(g) => found[g] = pod[WorkloadOf(g)]

\* A workload that is not late is stored for the node of its pod, and only while
\* its attempt lasts.
StoredWhileRunning ==
    \A w \in Workload \ late : \A n \in Node :
        w \in nodeWorkloads[n] => w \in running /\ pod[w] = {n}

\* A node without workloads is watched or on its way, or is twice so, only after
\* a removal that was faster than Run.
RacesRecorded ==
    /\ \A n \in nodesToPoll \cup Range(Way) : n \in raced \/ nodeWorkloads[n] # {}
    /\ \A n \in nodesToPoll \cap Range(Way) : n \in raced
    /\ \A i, j \in DOMAIN Way : i # j /\ Way[i] = Way[j] => Way[i] \in raced

\* Every action keeps what the goroutines have found current.
LEMMA FoundInductive == TypeInv /\ FoundIsCurrent /\ [Next]_vars => FoundIsCurrent'
<1> SUFFICES ASSUME TypeInv, FoundIsCurrent, [Next]_vars PROVE FoundIsCurrent'
  OBVIOUS
<1>0. /\ extract \in [Goroutine -> {"idle", "polling", "found", "done"}]
      /\ found \in [Goroutine -> SUBSET Node] /\ pod \in [Workload -> SUBSET Node]
      /\ attempt \in [Workload -> Nat] /\ running \subseteq Workload
      /\ \A g \in Goroutine : extract[g] # "idle" => Spawned(g)
  BY DEF TypeInv, TypeOK, EntriesExact
<1>1. CASE UNCHANGED <<pod, found, extract, attempt, running>>
  BY <1>1 DEF FoundIsCurrent, Current
<1>2. ASSUME NEW g \in Goroutine, Find(g) PROVE FoundIsCurrent'
  <2>1. WorkloadOf(g) \in Workload
    BY <1>0, <1>2, Chosen DEF Find
  <2> QED  BY <1>0, <1>2, <2>1 DEF Find, FoundIsCurrent, Current
<1>3. ASSUME NEW g \in Goroutine, GiveUp(g) \/ AddNodeForWorkload(g) PROVE FoundIsCurrent'
  BY <1>0, <1>3 DEF GiveUp, AddNodeForWorkload, FoundIsCurrent, Current
<1>4. ASSUME NEW w \in Workload, BeginAttempt(w) PROVE FoundIsCurrent'
  <2> SUFFICES ASSUME NEW g \in Goroutine, extract'[g] = "found"
               PROVE  found[g] # {} /\ (Current(g)' => found[g] = pod[WorkloadOf(g)])
    BY <1>4 DEF BeginAttempt, FoundIsCurrent
  <2>1. extract[g] = "found" /\ g \notin Spawns[w][attempt[w] + 1]
    BY <1>0, <1>4 DEF BeginAttempt
  <2>2. WorkloadOf(g) \in Workload /\ g \in Spawns[WorkloadOf(g)][AttemptOf(g)]
    BY <1>0, <2>1, Chosen
  <2>3. CASE WorkloadOf(g) = w
    <3>1. attempt'[w] = attempt[w] + 1
      BY <1>0, <1>4 DEF BeginAttempt
    <3>2. ~Current(g)'
      BY <2>1, <2>2, <2>3, <3>1 DEF Current
    <3> QED  BY <2>1, <3>2 DEF FoundIsCurrent
  <2>4. CASE WorkloadOf(g) # w
    BY <1>0, <1>4, <2>1, <2>2, <2>4 DEF BeginAttempt, FoundIsCurrent, Current
  <2> QED  BY <2>3, <2>4
<1>5. ASSUME NEW w \in Workload, RemoveWorkload(w) PROVE FoundIsCurrent'
  BY <1>0, <1>5 DEF RemoveWorkload, FoundIsCurrent, Current
<1>6. ASSUME NEW w \in Workload, DeletePod(w) PROVE FoundIsCurrent'
  BY <1>0, <1>6 DEF DeletePod, FoundIsCurrent, Current
<1>7. ASSUME NEW w \in Workload, NEW n \in Node, Schedule(w, n) PROVE FoundIsCurrent'
  BY <1>0, <1>7 DEF Schedule, FoundIsCurrent, Current
<1>8. CASE Send \/ Run \/ \E i \in DOMAIN watchers : WatchEnds(i)
  BY <1>1, <1>8 DEF Send, Run, Receive, Handle, WatchEnds, steps
<1>9. CASE UNCHANGED vars
  BY <1>1, <1>9 DEF vars, steps
<1> QED  BY <1>2, <1>3, <1>4, <1>5, <1>6, <1>7, <1>8, <1>9 DEF Next, Extract

\* Every action stores a workload for the node of its pod and while its attempt
\* lasts, or makes it late.
LEMMA StoredInductive ==
    TypeInv /\ FoundIsCurrent /\ StoredWhileRunning /\ [Next]_vars => StoredWhileRunning'
<1> SUFFICES ASSUME TypeInv, FoundIsCurrent, StoredWhileRunning, [Next]_vars
             PROVE  StoredWhileRunning'
  OBVIOUS
<1>0. /\ nodeWorkloads \in [Node -> SUBSET Workload] /\ pod \in [Workload -> SUBSET Node]
      /\ found \in [Goroutine -> SUBSET Node]
      /\ known = {n \in Node : nodeWorkloads[n] # {}}
  BY DEF TypeInv, TypeOK, EntriesExact
<1>1. CASE UNCHANGED <<nodeWorkloads, pod, running, late>>
  BY <1>1 DEF StoredWhileRunning
<1>2. ASSUME NEW g \in Goroutine, AddNodeForWorkload(g) PROVE StoredWhileRunning'
  <2> DEFINE w == WorkloadOf(g)
  <2>1. w \in Workload
    BY <1>2, Chosen DEF AddNodeForWorkload, TypeInv, EntriesExact
  <2>2. PICK n \in found[g] : nodeWorkloads' = [nodeWorkloads EXCEPT ![n] = @ \cup {w}]
    BY <1>2 DEF AddNodeForWorkload
  <2>3. n \in Node
    BY <1>0
  <2>4. UNCHANGED <<pod, running>> /\ late' = IF Current(g) THEN late ELSE late \cup {w}
    BY <1>2 DEF AddNodeForWorkload, Current
  <2>5. Current(g) => w \in running /\ pod[w] = {n}
    BY <1>2, <2>1 DEF AddNodeForWorkload, FoundIsCurrent, Current
  <2> QED  BY <1>0, <2>1, <2>2, <2>3, <2>4, <2>5 DEF StoredWhileRunning
<1>3. ASSUME NEW w \in Workload, RemoveWorkload(w) PROVE StoredWhileRunning'
  <2>1. running' = running \ {w} /\ UNCHANGED <<pod, late>>
    BY <1>3 DEF RemoveWorkload
  <2>2. CASE /\ \A n \in known : w \notin nodeWorkloads[n]
             /\ UNCHANGED nodeWorkloads
    BY <1>0, <2>1, <2>2 DEF StoredWhileRunning
  <2>3. ASSUME NEW n \in known, w \in nodeWorkloads[n], RemoveFrom(w, n)
        PROVE  StoredWhileRunning'
    <3>1. n \in Node /\ nodeWorkloads' = [nodeWorkloads EXCEPT ![n] = @ \ {w}]
      BY <1>0, <2>3 DEF RemoveFrom
    <3>2. w \notin late => pod[w] = {n}
      BY <2>3, <3>1 DEF StoredWhileRunning
    <3> QED  BY <1>0, <2>1, <3>1, <3>2 DEF StoredWhileRunning
  <2> QED  BY <1>3, <2>2, <2>3 DEF RemoveWorkload
<1>4. ASSUME NEW w \in Workload, BeginAttempt(w) \/ DeletePod(w) \/ \E n \in Node : Schedule(w, n)
      PROVE  StoredWhileRunning'
  BY <1>0, <1>4 DEF BeginAttempt, DeletePod, Schedule, shared, StoredWhileRunning
<1>5. ASSUME NEW g \in Goroutine, Find(g) \/ GiveUp(g) PROVE StoredWhileRunning'
  BY <1>1, <1>5 DEF Find, GiveUp, shared
<1>6. CASE Send \/ Run \/ \E i \in DOMAIN watchers : WatchEnds(i)
  BY <1>1, <1>6 DEF Send, Run, Receive, Handle, WatchEnds, steps
<1>7. CASE UNCHANGED vars
  BY <1>1, <1>7 DEF vars, shared, steps
<1> QED  BY <1>2, <1>3, <1>4, <1>5, <1>6, <1>7 DEF Next, Extract

\* Behind a sequence of one element begins the rest.
LEMMA OneAndRest ==
    ASSUME NEW S, NEW a \in Seq(S), NEW b \in Seq(S), a # <<>>, Len(a) <= 1
    PROVE  a \o b # <<>> /\ Head(a \o b) = Head(a) /\ Tail(a \o b) = b
<1> DEFINE c == a \o b
<1>1. Len(a) = 1 /\ Len(b) \in Nat
  <2>1. Len(a) \in Nat \ {0} /\ Len(b) \in Nat
    BY EmptySeq, LenProperties, Zenon
  <2>2. \A n \in Nat \ {0} : n <= 1 => n = 1
    OBVIOUS
  <2> QED  BY <2>1, <2>2, Zenon
<1>2. /\ c \in Seq(S) /\ Len(c) = Len(a) + Len(b)
      /\ \A i \in 1 .. Len(a) + Len(b) : c[i] = IF i <= Len(a) THEN a[i] ELSE b[i - Len(a)]
  BY ConcatProperties
<1> HIDE DEF c
<1>3. Len(c) = 1 + Len(b) /\ c[1] = a[1] /\ \A i \in 1 .. Len(b) : c[i + 1] = b[i]
  BY <1>1, <1>2
<1>4. c # <<>>
  BY <1>1, <1>3
<1>5. Head(c) = c[1] /\ Head(a) = a[1]
  BY <1>1, <1>2, <1>3, <1>4
<1>6. /\ Tail(c) \in Seq(S) /\ Len(Tail(c)) = Len(b)
      /\ \A i \in 1 .. Len(Tail(c)) : Tail(c)[i] = c[i + 1]
  BY <1>1, <1>2, <1>3, <1>4, HeadTailProperties
<1>7. Tail(c) = b
  BY <1>3, <1>6, SeqEqual
<1> QED  BY <1>3, <1>4, <1>5, <1>7 DEF c

\* Only AddNodeForWorkload lengthens the way, and only Handle shortens it.
LEMMA WayOfActions ==
    ASSUME TypeInv
    PROVE  /\ Way \in Seq(Node)
           /\ Send \/ Receive => Way' = Way
           /\ Handle => Way # <<>> /\ Head(Way) = Head(inHand) /\ Way' = Tail(Way)
           /\ \A n \in Node : mu = <<>> /\ mu' = <<n>> /\ UNCHANGED <<nodesCh, inHand>> =>
                                Way' = Append(Way, n)
<1>0. /\ mu \in Seq(Node) /\ nodesCh \in Seq(Node) /\ inHand \in Seq(Node)
      /\ Len(inHand) <= 1
  BY DEF TypeInv, TypeOK, EntriesExact
<1>1. Way \in Seq(Node) /\ inHand \o nodesCh \in Seq(Node)
  BY <1>0, ConcatProperties DEF Way
<1>2. ASSUME Send PROVE Way' = Way
  <2>1. Way' = (inHand \o (nodesCh \o mu)) \o <<>>
    BY <1>2 DEF Send, Way
  <2>2. inHand \o (nodesCh \o mu) = Way
    BY <1>0, ConcatAssociative DEF Way
  <2> QED  BY <1>1, <2>1, <2>2, ConcatEmptySeq
<1>3. ASSUME Receive PROVE Way' = Way
  <2>1. Way' = (<<Head(nodesCh)>> \o Tail(nodesCh)) \o mu
    BY <1>3 DEF Receive, Way
  <2>2. nodesCh = <<Head(nodesCh)>> \o Tail(nodesCh)
    BY <1>0, <1>3, HeadTailProperties DEF Receive
  <2>3. Way = (<<>> \o nodesCh) \o mu /\ <<>> \o nodesCh = nodesCh
    BY <1>0, <1>3, ConcatEmptySeq DEF Receive, Way
  <2> QED  BY <2>1, <2>2, <2>3
<1>4. ASSUME Handle PROVE Way # <<>> /\ Head(Way) = Head(inHand) /\ Way' = Tail(Way)
  <2>1. mu = <<>> /\ mu' = <<>> /\ inHand' = <<>> /\ nodesCh' = nodesCh /\ inHand # <<>>
    BY <1>4 DEF Handle
  <2>2. Way' = nodesCh
    BY <1>0, <2>1, ConcatEmptySeq DEF Way
  <2>3. Way = inHand \o nodesCh
    BY <1>0, <1>1, <2>1, ConcatEmptySeq DEF Way
  <2> QED  BY <1>0, <2>1, <2>2, <2>3, OneAndRest
<1>5. ASSUME NEW n \in Node, mu = <<>>, mu' = <<n>>, UNCHANGED <<nodesCh, inHand>>
      PROVE  Way' = Append(Way, n)
  <2>1. Way = inHand \o nodesCh
    BY <1>1, <1>5, ConcatEmptySeq DEF Way
  <2>2. Way' = (inHand \o nodesCh) \o <<n>>
    BY <1>5 DEF Way
  <2> QED  BY <1>1, <2>1, <2>2, AppendIsConcat
<1> QED  BY <1>1, <1>2, <1>3, <1>4, <1>5

\* Every action records a removal that was faster than Run.
LEMMA RacesInductive == TypeInv /\ RacesRecorded /\ [Next]_vars => RacesRecorded'
<1> SUFFICES ASSUME TypeInv, RacesRecorded, [Next]_vars PROVE RacesRecorded'
  OBVIOUS
<1>0. /\ Way \in Seq(Node) /\ nodeWorkloads \in [Node -> SUBSET Workload]
      /\ nodesToPoll \subseteq Node /\ known = {n \in Node : nodeWorkloads[n] # {}}
      /\ DOMAIN Way = 1 .. Len(Way) /\ Len(Way) \in Nat /\ Range(Way) \subseteq Node
  BY WayOfActions, LenProperties, RangeOfSeq DEF TypeInv, TypeOK, EntriesExact
<1>1. CASE UNCHANGED <<nodeWorkloads, nodesToPoll, raced, Way>>
  BY <1>1 DEF RacesRecorded
<1>2. CASE Send \/ Receive
  BY <1>1, <1>2, WayOfActions DEF Send, Receive
<1>3. CASE Handle
  <2>1. Way # <<>> /\ Way' = Tail(Way) /\ UNCHANGED <<nodeWorkloads, raced>>
    BY <1>3, WayOfActions DEF Handle
  <2>2. nodesToPoll' = nodesToPoll \cup {Head(Way)}
    BY <1>3, WayOfActions DEF Handle, StartWatcher
  <2>3. Range(Way) = {Head(Way)} \cup Range(Way')
    BY <1>0, <2>1, RangeOfHeadTail
  <2>4. /\ Head(Way) = Way[1] /\ DOMAIN Way' = 1 .. Len(Way) - 1
        /\ \A i \in 1 .. Len(Way) - 1 : Way'[i] = Way[i + 1]
    BY <1>0, <2>1, HeadTailProperties, LenProperties
  <2>5. Head(Way) \in Range(Way') => Head(Way) \in raced
    BY <1>0, <2>4 DEF RacesRecorded, Range
  <2>6. \A n \in nodesToPoll' \cup Range(Way') : n \in raced \/ nodeWorkloads[n] # {}
    BY <2>2, <2>3 DEF RacesRecorded
  <2>7. \A n \in nodesToPoll' \cap Range(Way') : n \in raced
    BY <2>2, <2>3, <2>5 DEF RacesRecorded
  <2>8. ASSUME NEW i \in DOMAIN Way', NEW j \in DOMAIN Way', i # j, Way'[i] = Way'[j]
        PROVE  Way'[i] \in raced
    <3>1. i + 1 \in DOMAIN Way /\ j + 1 \in DOMAIN Way /\ i + 1 # j + 1
      BY <1>0, <2>4, <2>8
    <3>2. Way'[i] = Way[i + 1] /\ Way'[j] = Way[j + 1]
      BY <2>4, <2>8
    <3> QED  BY <2>8, <3>1, <3>2 DEF RacesRecorded
  <2> QED  BY <2>1, <2>6, <2>7, <2>8 DEF RacesRecorded
<1>4. ASSUME NEW g \in Goroutine, AddNodeForWorkload(g) PROVE RacesRecorded'
  <2>1. PICK n \in found[g] :
            /\ nodeWorkloads' = [nodeWorkloads EXCEPT ![n] = @ \cup {WorkloadOf(g)}]
            /\ mu' = IF n \in known THEN <<>> ELSE <<n>>
    BY <1>4 DEF AddNodeForWorkload
  <2>2. n \in Node
    BY DEF TypeInv, TypeOK
  <2>3. UNCHANGED <<nodesToPoll, raced>> /\ mu = <<>> /\ UNCHANGED <<nodesCh, inHand>>
    BY <1>4 DEF AddNodeForWorkload
  <2>4. nodeWorkloads'[n] # {} /\ \A m \in Node \ {n} : nodeWorkloads'[m] = nodeWorkloads[m]
    BY <1>0, <2>1, <2>2
  <2>5. CASE n \in known
    <3>1. Way' = Way
      BY <2>1, <2>3, <2>5 DEF Way
    <3> QED  BY <1>0, <2>2, <2>3, <2>4, <3>1 DEF RacesRecorded
  <2>6. CASE n \notin known
    <3>1. Way' = Append(Way, n)
      BY <2>1, <2>2, <2>3, <2>6, WayOfActions
    <3>2. /\ DOMAIN Way' = 1 .. Len(Way) + 1 /\ Way'[Len(Way) + 1] = n
          /\ \A i \in 1 .. Len(Way) : Way'[i] = Way[i]
      BY <1>0, <2>2, <3>1, AppendProperties, LenProperties
    <3>3. Range(Way') = Range(Way) \cup {n}
      BY <1>0, <3>2 DEF Range
    <3>4. nodeWorkloads[n] = {}
      BY <1>0, <2>2, <2>6
    <3>5. n \in nodesToPoll \cup Range(Way) => n \in raced
      BY <3>4 DEF RacesRecorded
    <3>6. \A m \in nodesToPoll \cup Range(Way') : m \in raced \/ nodeWorkloads'[m] # {}
      BY <1>0, <2>4, <3>3 DEF RacesRecorded
    <3>7. \A m \in nodesToPoll \cap Range(Way') : m \in raced
      BY <3>3, <3>5 DEF RacesRecorded
    <3>8. \A i, j \in DOMAIN Way' : i # j /\ Way'[i] = Way'[j] => Way'[i] \in raced
      <4> SUFFICES ASSUME NEW i \in DOMAIN Way', NEW j \in DOMAIN Way', i # j, Way'[i] = Way'[j]
                   PROVE  Way'[i] \in raced
        OBVIOUS
      <4>1. CASE i \in 1 .. Len(Way) /\ j \in 1 .. Len(Way)
        BY <1>0, <3>2, <4>1 DEF RacesRecorded
      <4>2. CASE i = Len(Way) + 1 \/ j = Len(Way) + 1
        <5>1. Way'[i] = n /\ n \in Range(Way)
          BY <1>0, <3>2, <4>2 DEF Range
        <5> QED  BY <3>5, <5>1
      <4> QED  BY <1>0, <3>2, <4>1, <4>2
    <3> QED  BY <2>3, <3>6, <3>7, <3>8 DEF RacesRecorded
  <2> QED  BY <2>5, <2>6
<1>5. ASSUME NEW w \in Workload, RemoveWorkload(w) PROVE RacesRecorded'
  <2>1. Way' = Way
    BY <1>5 DEF RemoveWorkload, Way
  <2>2. CASE UNCHANGED <<nodeWorkloads, nodesToPoll, raced>>
    BY <1>1, <2>1, <2>2
  <2>3. ASSUME NEW n \in known, RemoveFrom(w, n) PROVE RacesRecorded'
    <3>1. n \in Node /\ nodeWorkloads' = [nodeWorkloads EXCEPT ![n] = @ \ {w}]
      BY <1>0, <2>3 DEF RemoveFrom
    <3>2. CASE nodeWorkloads[n] # {w}
      BY <1>0, <2>1, <2>3, <3>1, <3>2 DEF RemoveFrom, RacesRecorded
    <3>3. CASE nodeWorkloads[n] = {w} /\ n \in nodesToPoll
      BY <1>0, <2>1, <2>3, <3>1, <3>3 DEF RemoveFrom, CleanUp, RacesRecorded
    <3>4. CASE nodeWorkloads[n] = {w} /\ n \notin nodesToPoll
      BY <1>0, <2>1, <2>3, <3>1, <3>4 DEF RemoveFrom, CleanUp, RacesRecorded
    <3> QED  BY <3>2, <3>3, <3>4
  <2> QED  BY <1>5, <2>2, <2>3 DEF RemoveWorkload
<1>6. ASSUME NEW g \in Goroutine, Find(g) \/ GiveUp(g) PROVE RacesRecorded'
  BY <1>1, <1>6 DEF Find, GiveUp, shared, Way
<1>7. ASSUME NEW w \in Workload, BeginAttempt(w) \/ DeletePod(w) \/ \E n \in Node : Schedule(w, n)
      PROVE  RacesRecorded'
  BY <1>1, <1>7 DEF BeginAttempt, DeletePod, Schedule, shared, Way
<1>8. ASSUME NEW i \in DOMAIN watchers, WatchEnds(i) PROVE RacesRecorded'
  BY <1>1, <1>8 DEF WatchEnds, Way
<1>9. CASE UNCHANGED vars
  BY <1>1, <1>9 DEF vars, shared, Way
<1> QED  BY <1>2, <1>3, <1>4, <1>5, <1>6, <1>7, <1>8, <1>9 DEF Next, Run, Extract

\* A node that is still watched when all is over was added by a goroutine whose
\* workload had been removed, or its entry was removed before Run had it watched.
THEOREM LeaksExplained == Spec => []LeaksAreExplained
<1>1. Init => FoundIsCurrent /\ StoredWhileRunning
  BY DEF Init, FoundIsCurrent, StoredWhileRunning
<1>2. Init => RacesRecorded
  BY DEF Init, RacesRecorded, Way, Range
<1>3. StoredWhileRunning /\ RacesRecorded /\ TypeInv => LeaksAreExplained
  BY DEF StoredWhileRunning, RacesRecorded, LeaksAreExplained, Quiet, TypeInv, TypeOK
<1> QED
  BY <1>1, <1>2, <1>3, TypeCorrect, FoundInductive, StoredInductive, RacesInductive, PTL
     DEF Spec, SafetySpec
=============================================================================
