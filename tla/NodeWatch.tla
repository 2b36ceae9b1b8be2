------------------------------ MODULE NodeWatch ------------------------------
(***************************************************************************)
(* The nodes plugin of the metrics agent (pkg/metrics/nodes.go).  For every *)
(* attempt of a workload (a pod, or a build that may be tried again) its   *)
(* step starts goroutines that execute ExtractPodNode: they poll until the *)
(* pod has a node and add the node.  The first workload of a node makes    *)
(* Run start a watcher for it, and RemoveWorkload, which the step calls at *)
(* the end of every attempt, stops the watcher with the last one.  They    *)
(* share a mutex, which AddNodeForWorkload keeps while it sends on nodesCh *)
(* and Run needs for what it received.                                     *)
(*                                                                         *)
(* The context of Run is context.TODO(), so its Done never fires.          *)
(***************************************************************************)
EXTENDS Naturals, Sequences, FiniteSets, Functions

CONSTANTS
    Workload,   \* names of pods and builds
    Node,
    Goroutine,  \* that execute ExtractPodNode
    Spawns,     \* workload -> attempt -> the goroutines that it starts
    Capacity    \* of nodesCh

ASSUME NodeWatchAssumption ==
    /\ Spawns \in [Workload -> Seq(SUBSET Goroutine)]
    /\ Capacity \in Nat \ {0}

VARIABLES
    mu,             \* the node whose send keeps the mutex, as a sequence
    nodesCh,        \* the content of the channel
    inHand,         \* what Run has received and not yet handled, as a sequence
    nodeWorkloads,  \* node -> the workloads stored for it
    known,          \* the nodes that have an entry in nodeWorkloads
    nodesToPoll,
    stopCh,         \* node -> the watcher that its stop channel stops, or 0
    watchers,       \* the watchers ever started
    attempt,        \* workload -> the number of its attempt, 0 before the first
    running,        \* the workloads whose attempt has not ended
    pod,            \* workload -> the node of its pod, as a set
    extract,        \* goroutine -> "idle", "polling", "found", "done"
    found,          \* goroutine -> the node it has read, as a set
    late,           \* history: workloads added when they had been removed
    raced           \* history: nodes whose entry went before they were watched

shared == <<mu, nodesCh, inHand, nodeWorkloads, known, nodesToPoll, stopCh, watchers>>

steps == <<attempt, running, pod, extract, found>>

vars == <<shared, steps, late, raced>>

Attempts(w) == Len(Spawns[w])

\* The workload that a goroutine looks for.
WorkloadOf(g) == CHOOSE w \in Workload : \E i \in 1..Attempts(w) : g \in Spawns[w][i]

AttemptOf(g) == CHOOSE i \in 1..Attempts(WorkloadOf(g)) : g \in Spawns[WorkloadOf(g)][i]

-----------------------------------------------------------------------------
Init ==
    /\ mu = <<>> /\ nodesCh = <<>> /\ inHand = <<>>
    /\ nodeWorkloads = [n \in Node |-> {}] /\ known = {}
    /\ nodesToPoll = {} /\ stopCh = [n \in Node |-> 0] /\ watchers = <<>>
    /\ attempt = [w \in Workload |-> 0] /\ running = {}
    /\ pod = [w \in Workload |-> {}]
    /\ extract = [g \in Goroutine |-> "idle"]
    /\ found = [g \in Goroutine |-> {}]
    /\ late = {} /\ raced = {}

\* The step begins an attempt: AddNodeWorkload starts the goroutines.
BeginAttempt(w) ==
    /\ w \notin running /\ attempt[w] < Attempts(w)
    /\ attempt[w] > 0 => pod[w] = {}
    /\ attempt' = [attempt EXCEPT ![w] = @ + 1]
    /\ running' = running \cup {w}
    /\ extract' = [g \in Goroutine |->
                     IF g \in Spawns[w][attempt[w] + 1] THEN "polling" ELSE extract[g]]
    /\ UNCHANGED <<shared, pod, found, late, raced>>

\* The scheduler gives the pod a node (external).
Schedule(w, n) ==
    /\ w \in running /\ pod[w] = {}
    /\ pod' = [pod EXCEPT ![w] = {n}]
    /\ UNCHANGED <<shared, attempt, running, extract, found, late, raced>>

\* The pod of an attempt that ended is deleted (external).
DeletePod(w) ==
    /\ w \notin running /\ pod[w] # {}
    /\ pod' = [pod EXCEPT ![w] = {}]
    /\ UNCHANGED <<shared, attempt, running, extract, found, late, raced>>

\* ExtractPodNode: the pod has a node.
Find(g) ==
    /\ extract[g] = "polling" /\ pod[WorkloadOf(g)] # {}
    /\ extract' = [extract EXCEPT ![g] = "found"]
    /\ found' = [found EXCEPT ![g] = pod[WorkloadOf(g)]]
    /\ UNCHANGED <<shared, attempt, running, pod, late, raced>>

\* ExtractPodNode: the request fails, an hour passes, or the context of the
\* step is cancelled.
GiveUp(g) ==
    /\ extract[g] = "polling"
    /\ extract' = [extract EXCEPT ![g] = "done"]
    /\ UNCHANGED <<shared, attempt, running, pod, found, late, raced>>

\* AddNodeForWorkload, up to the send: a node without an entry is to be sent,
\* and the mutex is kept until it is.
AddNodeForWorkload(g) ==
    LET w == WorkloadOf(g)
    IN  /\ extract[g] = "found" /\ mu = <<>>
        /\ \E n \in found[g] :
              /\ nodeWorkloads' = [nodeWorkloads EXCEPT ![n] = @ \cup {w}]
              /\ known' = known \cup {n}
              /\ mu' = IF n \in known THEN <<>> ELSE <<n>>
        /\ extract' = [extract EXCEPT ![g] = "done"]
        /\ late' = IF w \in running /\ attempt[w] = AttemptOf(g) THEN late ELSE late \cup {w}
        /\ UNCHANGED <<nodesCh, inHand, nodesToPoll, stopCh, watchers, attempt, running,
                       pod, found, raced>>

\* Mutant: the channel has no buffer.
SendUnbuffered ==
    /\ mu # <<>> /\ inHand = <<>>
    /\ inHand' = mu
    /\ mu' = <<>>
    /\ UNCHANGED <<nodesCh, nodeWorkloads, known, nodesToPoll, stopCh, watchers, steps,
                   late, raced>>

\* AddNodeForWorkload: p.nodesCh <- nodeName, and the deferred Unlock.
Send ==
    /\ mu # <<>> /\ Len(nodesCh) < Capacity
    /\ nodesCh' = nodesCh \o mu
    /\ mu' = <<>>
    /\ UNCHANGED <<inHand, nodeWorkloads, known, nodesToPoll, stopCh, watchers, steps,
                   late, raced>>

-----------------------------------------------------------------------------
\* Run: case nodeName := <-p.nodesCh
Receive ==
    /\ inHand = <<>> /\ nodesCh # <<>>
    /\ inHand' = <<Head(nodesCh)>> /\ nodesCh' = Tail(nodesCh)
    /\ UNCHANGED <<mu, nodeWorkloads, known, nodesToPoll, stopCh, watchers, steps, late, raced>>

StartWatcher(n) ==
    /\ nodesToPoll' = nodesToPoll \cup {n}
    /\ watchers' = Append(watchers, [node |-> n, stopped |-> FALSE, reported |-> FALSE])
    /\ stopCh' = [stopCh EXCEPT ![n] = Len(watchers) + 1]

\* Mutant: a node that is polled already is watched once more.
HandleAgain ==
    /\ inHand # <<>> /\ mu = <<>>
    /\ StartWatcher(Head(inHand))
    /\ inHand' = <<>>
    /\ UNCHANGED <<mu, nodesCh, nodeWorkloads, known, steps, late, raced>>

\* Run: under the mutex, a node that is not polled yet gets a watcher.
Handle ==
    /\ inHand # <<>> /\ mu = <<>>
    /\ \/ Head(inHand) \notin nodesToPoll /\ StartWatcher(Head(inHand))
       \/ Head(inHand) \in nodesToPoll /\ UNCHANGED <<nodesToPoll, watchers, stopCh>>
    /\ inHand' = <<>>
    /\ UNCHANGED <<mu, nodesCh, nodeWorkloads, known, steps, late, raced>>

\* watchNode: case <-stopCh; createAndStoreNodeEventWithWorkloads, under the
\* mutex.  (What it did before, reading the workloads of the node and polling
\* it, is only seen in the content of the event.)
WatchEnds(i) ==
    /\ watchers[i].stopped /\ ~watchers[i].reported /\ mu = <<>>
    /\ watchers' = [watchers EXCEPT ![i].reported = TRUE]
    /\ UNCHANGED <<mu, nodesCh, inHand, nodeWorkloads, known, nodesToPoll, stopCh, steps,
                   late, raced>>

-----------------------------------------------------------------------------
\* The last workload of n is gone: the entry, and if n is polled its watcher.
CleanUp(n) ==
    /\ known' = known \ {n}
    /\ IF n \in nodesToPoll
         THEN /\ nodesToPoll' = nodesToPoll \ {n}
              /\ watchers' = [watchers EXCEPT ![stopCh[n]].stopped = TRUE]
              /\ stopCh' = [stopCh EXCEPT ![n] = 0]
              /\ UNCHANGED raced
         ELSE /\ raced' = raced \cup {n}
              /\ UNCHANGED <<nodesToPoll, watchers, stopCh>>

\* Mutant: the watcher is stopped, and the entry is kept.
RemoveAndKeepEntry(w, n) ==
    /\ nodeWorkloads' = [nodeWorkloads EXCEPT ![n] = @ \ {w}]
    /\ IF nodeWorkloads[n] = {w} /\ n \in nodesToPoll
         THEN /\ nodesToPoll' = nodesToPoll \ {n}
              /\ stopCh' = [stopCh EXCEPT ![n] = 0]
              /\ watchers' = [watchers EXCEPT ![stopCh[n]].stopped = TRUE]
         ELSE UNCHANGED <<nodesToPoll, stopCh, watchers>>
    /\ UNCHANGED <<known, raced>>

\* Mutant: the entry is deleted, and the watcher goes on.
RemoveEntry(w, n) ==
    /\ nodeWorkloads' = [nodeWorkloads EXCEPT ![n] = @ \ {w}]
    /\ known' = IF nodeWorkloads[n] = {w} THEN known \ {n} ELSE known
    /\ UNCHANGED <<nodesToPoll, stopCh, watchers, raced>>

\* What the function that RemoveWorkload gives to Range does with an entry that
\* has w.
RemoveFrom(w, n) ==
    /\ nodeWorkloads' = [nodeWorkloads EXCEPT ![n] = @ \ {w}]
    /\ IF nodeWorkloads[n] = {w}
         THEN CleanUp(n)
         ELSE UNCHANGED <<known, nodesToPoll, stopCh, watchers, raced>>

\* RemoveWorkload, at the end of an attempt: Range, whose order is arbitrary,
\* ends with the first node that has w.
RemoveWorkload(w) ==
    /\ w \in running /\ mu = <<>>
    /\ running' = running \ {w}
    /\ \/ \E n \in known : w \in nodeWorkloads[n] /\ RemoveFrom(w, n)
       \/ /\ \A n \in known : w \notin nodeWorkloads[n]
          /\ UNCHANGED <<nodeWorkloads, known, nodesToPoll, stopCh, watchers, raced>>
    /\ UNCHANGED <<mu, nodesCh, inHand, attempt, pod, extract, found, late>>

Run == Receive \/ Handle

Extract(g) == Find(g) \/ GiveUp(g) \/ AddNodeForWorkload(g)

Next ==
    \/ Send
    \/ Run
    \/ \E i \in DOMAIN watchers : WatchEnds(i)
    \/ \E g \in Goroutine : Extract(g)
    \/ \E w \in Workload :
          \/ BeginAttempt(w) \/ RemoveWorkload(w) \/ DeletePod(w)
          \/ \E n \in Node : Schedule(w, n)

\* Goroutines that can go on do, and a mutex that is free again and again is
\* not denied for ever to any that waits for it; attempts end.
Fairness ==
    /\ WF_vars(Send) /\ WF_vars(Receive) /\ SF_vars(Handle)
    /\ \A w \in Workload :
          WF_vars(BeginAttempt(w)) /\ SF_vars(RemoveWorkload(w)) /\ WF_vars(DeletePod(w))
    /\ \A g \in Goroutine : WF_vars(Find(g) \/ GiveUp(g)) /\ SF_vars(AddNodeForWorkload(g))

SafetySpec == Init /\ [][Next]_vars

Spec == SafetySpec /\ Fairness

-----------------------------------------------------------------------------
(* Properties *)

\* Every variable has its type.
TypeOK ==
    /\ mu \in Seq(Node) /\ inHand \in Seq(Node)
    /\ nodesCh \in Seq(Node) /\ Len(nodesCh) <= Capacity
    /\ nodeWorkloads \in [Node -> SUBSET Workload] /\ known \subseteq Node
    /\ nodesToPoll \subseteq Node
    /\ watchers \in Seq([node : Node, stopped : BOOLEAN, reported : BOOLEAN])
    /\ stopCh \in [Node -> 0..Len(watchers)]
    /\ attempt \in [Workload -> Nat] /\ running \subseteq Workload
    /\ pod \in [Workload -> SUBSET Node]
    /\ extract \in [Goroutine -> {"idle", "polling", "found", "done"}]
    /\ found \in [Goroutine -> SUBSET Node]
    /\ late \subseteq Workload /\ raced \subseteq Node

\* A node has at most one watcher that was not stopped, the one its stop
\* channel reaches, and it has one exactly while it is in nodesToPoll: no watcher
\* is lost by a second one, and none is stopped twice.
OneWatcherPerNode ==
    \A n \in Node :
        {i \in DOMAIN watchers : watchers[i].node = n /\ ~watchers[i].stopped} =
            IF n \in nodesToPoll THEN {stopCh[n]} ELSE {}

\* A node that has workloads is watched, or on its way to Run: a workload added
\* while the node of an earlier one is being given up is not forgotten.
EveryWorkloadIsWatched ==
    \A n \in Node :
        nodeWorkloads[n] # {} => n \in nodesToPoll \cup Range(mu \o nodesCh \o inHand)

\* All workloads are over and nothing is on its way.
Quiet ==
    /\ running = {} /\ \A w \in Workload : attempt[w] = Attempts(w)
    /\ \A g \in Goroutine : extract[g] = "done"
    /\ mu \o nodesCh \o inHand = <<>>

\* A node still watched when all is over, whose watcher will never report, is
\* there because a goroutine added it for a workload that was removed, or because
\* the removal was faster than Run; no ordinary end of a workload leaves one.
LeaksAreExplained ==
    Quiet => \A n \in nodesToPoll : n \in raced \/ nodeWorkloads[n] \cap late # {}

\* Steps are not held up by the plugin: with room in the channel RemoveWorkload
\* always gets the mutex, and every attempt of every workload ends.
WorkloadsEnd == \A w \in Workload : <>[](attempt[w] = Attempts(w) /\ w \notin running)

\* What the comment of RemoveNodeWorkload says: it "removes a workload from any
\* node it's running on".
RemovedFromAnyNode ==
    [][\A w \in running \ running' : \A n \in Node : w \notin nodeWorkloads'[n]]_vars
=============================================================================
