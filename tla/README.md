# ci-tools: a TLA+ model of ci-operator and of two of its controllers

`ci-operator` reads a configuration, turns it into a graph of *steps* (builds of
images, imports, tests, promotions), runs the steps its targets need in the order
their dependencies allow, and cleans up after them. Around it the repository has
controllers and services of the CI clusters. This project models the parts in which
concurrency, failure and ordering matter: the core of `ci-operator`, the controller
that turns `EphemeralCluster` objects into jobs, and the scale-down of the scheduling
webhook. TLC checks them on small instances; TLAPS proves the safety properties
for every instance.

## Inventory

| component | code | state it keeps | operations | module |
|---|---|---|---|---|
| step graph planner | `pkg/api/graph.go` | selected steps, nodes with children, sorted list | `BuildPartialGraph`, `BuildGraph`, `TopologicalSort`, the `SatisfiedBy` of each link | `StepLinks`, `StepPlan` |
| step graph executor | `pkg/steps/run.go` | seen links, results channel, done channel, WaitGroup, `interrupted` | `Run`, `runStep` | `StepRun`, `StepSchedule` |
| metrics agent | `pkg/metrics/metrics.go` | bounded channel, mutex, WaitGroup, plugins | `Run`, `Record`, `Stop`, `flush` | `MetricsAgent` |
| nodes plugin of the metrics agent | `pkg/metrics/nodes.go`, `metrics.go` | workloads per node, nodes that are polled, stop channels, a bounded channel, a mutex | `ExtractPodNode`, `AddNodeForWorkload`, `Run`, `watchNode`, `RemoveWorkload` | `NodeWatch` |
| lease client and lease step | `pkg/lease/client.go`, `pkg/steps/lease.go` | map of leases with their failures and cancels, the Boskos client's storage | `Acquire`, `Heartbeat`, `Release`, `ReleaseAll`; `acquireLeases`, `releaseLeases` | `LeaseClient`, `Lease` |
| IP pool step | `pkg/steps/ip_pool.go` | leased chunks, one goroutine per test that returns unused ones | `run`, `checkAndReleaseUnusedLeases`, `AcquireIfAvailableImmediately` | `IPPool` |
| multi-stage test | `pkg/steps/multi_stage/{multi_stage,run,gen}.go` | flags, pods of the phase, observers | `run`, `runSteps`, `runPods`, `runObservers`, `runPod`, `generatePods` | `MultiStage` |
| pod helpers | `pkg/util/pods.go` | - | `CreateOrRestartPod`, `WaitForPodCompletion` | in `MultiStage`, by what they may return |
| build step | `pkg/steps/source.go`, `pkg/kubernetes/client.go` | the build in the API server, a watch, the pending check | `handleBuild`, `waitForBuild`, `handleFailedBuild`, `waitForBuildDeletion`, `WaitForConditionOnObject` | `Build` |
| ci-operator main | `cmd/ci-operator/main.go` | context, HTTP server, graph, promotion goroutines | `options.Run`, `runPromotionStep` | `Operator` |
| interrupt handler | `pkg/interrupt/interrupt.go` | a `sync.Once`, the channel of signals | `Run`, `Close`, `Signal` | `Operator` |
| lease proxy | `pkg/lease/proxy/proxy.go`, `pkg/steps/lease_proxy.go` | HTTP handlers, the shared lease client | `acquire`, `release` | `Operator` |
| ephemeral cluster controller | `pkg/controller/ephemeralcluster` | the EC and its ProwJobs, the informers' copies, two queues | `Reconcile` of the EC reconciler and of the ProwJob reconciler | `EphemeralCluster` |
| scheduling webhook, scale-down | `cmd/ci-scheduling-webhook/prioritization.go` | nodes, machines and machinesets, the informers' copies, a lock per class | `evaluateNodeClassScaleDown`, `evaluateNodeScaleDown`, `scaleDown`, `setNodeAvoidanceState` | `ScaleDown` |

How they interact. `options.Run` plans (`BuildPartialGraph`, `TopologicalSort`)
and hands the roots to `steps.Run`. Its goroutines call the steps; a lease step or
an IP pool step wraps a multi-stage test and shares one lease client with the
other tests and with the heartbeat; a multi-stage test runs pods on a cluster.
Every goroutine records events with the one metrics agent, whose nodes plugin is
told of every pod and build and watches the nodes they are on. Several `ci-operator`
processes with the same inputs share a namespace, and with it the builds. At the end the
deferred functions release what is still leased and stop the agent. Cancellation
comes from a signal, from a lost lease (the lease client calls the `cancel` of the
step) or from the namespace being deleted.

The two controllers talk to the rest only through the API server: the ephemeral
cluster controller creates a ProwJob that executes `ci-operator`, and ends it with a
secret in its namespace; the webhook keeps pods of the CI jobs away from nodes
that it is about to remove.

What is hard, and what makes each part correct:

- *Planner*: requirements grow while the closure is computed, links match by a
  relation that is neither symmetric nor an equality, cycles have to be found.
  Correct: the selection is exactly what the targets need; exactly the executable
  graphs are accepted; the loops end.
- *Executor*: steps finish in any order, are counted down by a WaitGroup whose
  waiter closes the channels, and there is no record of what was started. Correct:
  dependencies first, each step once, nothing forgotten, no send on a closed
  channel, nothing new after a cancellation, an end in every case.
- *Metrics agent*: producers, receiver and `Stop` share a mutex around a bounded
  channel. Correct: no event is lost, doubled or reordered, the artifact is
  complete, `Stop` returns.
- *Nodes plugin*: goroutines that look for the node of a pod outlive the attempt they
  were started for, and a send on a bounded channel keeps the mutex. Correct: one
  watcher per node with workloads, none left behind but for known causes, and steps are
  not held up.
- *Builds*: two processes watch, delete and re-create one object; watches are late and
  skip versions. Correct: a process deletes only what has failed, they do not all give
  up because of each other, `handleBuild` returns.
- *Leases*: requests to the server fail before or after they take effect;
  two lists (the client's and Boskos's) record the same leases; heartbeat, release
  and acquisition race. Correct: one holder per resource, a test whose lease is
  lost is cancelled (and no other one), nothing is leaked without an error but grants whose
  answer was lost, no circular waiting.
- *IP pools*: a goroutine returns unused chunks while the test may end at any
  moment. Correct: every chunk is returned by one of the two, and the test does
  not wait for the goroutine.
- *Multi-stage tests*: short circuits, best effort, optional steps, observers, pods
  given up while pending, cancellation in any phase. Correct: clean-up steps always
  run, test steps never run on a half-prepared cluster, pods do not overlap, nothing
  is left at work, the test returns.
- *Main*: a signal races with the end of the critical section, promotion steps
  outlive the first of them that fails, deferred functions run in an order that
  matters, pods reach the lease client over HTTP until the very end. Correct: the
  artifacts are saved once, a success is a success of everything, the leases of the
  steps are released whichever return or signal ends the section (a panic inside the
  graph, `ip_pool.go:198`, is not among them), a signal ends the process.
- *Ephemeral clusters*: reconcilers decide on copies that lag, a job exists before the EC
  has its name, updates conflict, the process dies between two writes. Correct: no job
  in use is aborted, a deleted EC goes and leaves no job behind, a tear-down reaches the job.
- *Scale-down*: decisions on stale copies of nodes and pods, patches without a resource version, a
  lock held across retries, an autoscaler that changes the same number. Correct: no pod is evicted
  that the live query could have seen, a cordon or taint is never undone, machines that nobody
  chose do not disappear without a known cause, a tainted node goes.

`PROJECT.json` lists the other components of the repository (controllers, job
generation, mirroring and secret tools, plugins, services) with the reason why they
are not modelled. The same file lists the hazards, each at its line.

## Modules and the code

`StepLinks` has the links and `SatisfiedBy` for each type of them, `HasAnyLinks`,
`HasAllLinks` and what `BuildGraph` makes of a set of steps: `IsChild`, `Children`,
`Parents`, `Roots`. A link is a record of its kind and its name (for images of a
stream: stream and tag). It is shared by the planner and the executor.

`StepPlan` is sequential: one action is one turn of a loop or the end of one, the state
being the local variables. `MatchNames` takes the targets; `ClosureVisit` looks at
a step and `ClosureRound` ends a round of `BuildPartialGraph`; `IterateVisit` and
`IterateReturn` are a turn and a return of `iterateDAG`, whose calls are the stacks `path` and
`level`, and `CheckDAG` is what `TopologicalSort` does with its result; `SortVisit` looks at a
node and `SortPass` ends a pass. `iterated` has the nodes that `iterateDAG` applied `f` to.
The properties compare it with definitions by sets and without any iteration
(`Least` in `StepLinks`): the least set with the targets and the providers of its
members, the least one with the roots and the children of its members (`FromRoots`), the
least one with everybody whose links it creates (`Providable`), and a graph without
a set in which everyone has a child (`Acyclic`).

`StepRun` has the state of `steps.Run`: `seen`, the set of goroutines with their
place (running, sending, being handled), the WaitGroup as a number, the channels as
closed or open, `interrupted`. A goroutine is a step with a number, because the
code can start a step twice. The actions are the cases of the `select`, the loop
over the children of a finished step (one action per child started, so that the
counter and the goroutines can be seen in between), the goroutine that waits for
the WaitGroup, and the ends of steps. `Run` is their disjunction.

`StepSchedule` is the abstract specification: a step is waiting, started, succeeded
or failed; it starts when all its parents have succeeded; nothing else. It makes
that promise for graphs in which each requirement has one provider, which is what
the code needs (see `NotTriggeredTwice` below); for other graphs it allows anything
(`Unpromised`). `StepRun` instantiates it with the mapping `Status`.

`MetricsAgent` has one producer per goroutine that records events: `RecordLocks`, `RecordSends`
(which blocks while the channel is full, holding the mutex), the loop of the agent (`AgentLoads`
under the mutex, `AgentReceives`, `AgentRecords`), and `Stop` in its three parts: `StopCloses`,
`StopWaits` for the WaitGroup, and `StopFlushes`, which needs the mutex of the nodes plugin.
`AddWaits` and `AddSends` are an `AddNodeForWorkload` that keeps this mutex while its channel is
full; `NodeWatch` has the plugin itself. `missed` records that the WaitGroup was passed before the
agent had added itself to it. A producer's last events are *late*: nobody waits for them before
`Stop` is called, because `runStep` records its event after it has sent its result, and because
the machine snapshot of a build pod is taken by a goroutine of its own.

`NodeWatch` has a workload's attempts, each with the goroutines of `ExtractPodNode` it
starts, and for the plugin its mutex (the node whose send keeps it), the channel, what
`Run` has received, the entries of `nodeWorkloads`, and the watchers with the one each
stop channel reaches. `AddNodeForWorkload` and its `Send` are two actions. The histories
`late` and `raced` record why a watcher may be left.

`LeaseClient` declares what `Lease` and `IPPool` share: the map `leases` of the client, the
Boskos client's `storage`, and what the server thinks (`server`).

`Lease` has the map `leases` with its failure counters, the client's lock, and the steps with
their place in `run`/`acquireLeases`/`releaseLeases`. A request may fail before or after the
server has done what it asks: for an acquire the second case is `GrantLost`, which leaves a lease
that nobody in the process knows of (`unread`), followed by `AcquireFails`. `Release` that
succeeds is two actions, because another step may be granted the resource before the map forgets
it.

`IPPool` has the same client, with a call as one action, and adds the goroutine
`checkAndReleaseUnusedLeases` with its offer on the unbuffered channel. `returned` has the chunks
for which `Release` was called, whether it succeeded or not.

`MultiStage` has the phases with the positions of the pods that are left, the flags as the set of
phases that failed, the pods on the cluster, and for each observer the two
goroutines of `runObservers`. The cluster is external: a pod goes from pending to
running to ended, may be evicted, and a deleted one is gone some time later. For each pod that is
waited for, `watch` has what `WaitForPodCompletion` has seen of it: nothing yet, pending, running,
pending for too long (`expired`), or running after that (`revived`: the watch goes on while
`pendingCheck` lists the events). What happens to a pod that is given up (`CleanUp`) follows from
it, as at `run.go:157`. A request to create or delete a pod may fail, and a create that fails may
have created the pod; such pods are `abandoned`.

`Build` has the one build that the API server holds, told apart by a uid, and per
`ci-operator` its place in `handleBuild`, the undelivered events of its watch, the version
delivered last and the build `pendingCheck` sleeps for. A watch begins with a list,
delivers events late and may skip some (`Relist`). The build controller is external.

`Operator` has the place of `options.Run` (`main`), the goroutine of `Handler.Run`
with the `sync.Once` it shares with `Close`, one goroutine per promotion step with the
results in its channels, and the requests to the lease proxy. What happens before the
critical section is one choice, to go on or to return. The graph is a call that returns
some time, while its steps lease and release. Every place that records an event checks
that the metrics agent still takes one: if not, the process has `crashed`.

`EphemeralCluster` has the EC and its jobs, the informers' copies of both, the queue and
worker of each reconciler. `Reconcile` is cut at its requests to the API server: `Start`
reads the EC from the cache and chooses a branch; `ListJobs`, `CreateProwJob`,
`ReportProwJob`, `DeleteEphemeralCluster` and `AbortProwJob` are the branches;
`UpdateEphemeralCluster` is the write at the end, which conflicts if the EC has changed
since it was read. A requeue, with a delay or without, is a place in the queue: no delay makes an
informer catch up. `StartProwJob` and `AbortOrphan` are the ProwJob reconciler. Faults are
failing writes, configurations that cannot be turned into a job, and crashes at any point.

`ScaleDown` has nodes, pods and machines, the informers' copies of nodes and pods, the
machineset, and for each node the place of its goroutine `evaluateNodeScaleDown`.
`ScanSpawn` and `ScanAvoid` are the halves of the pass that is made once a minute; nothing keeps
two passes apart, since the first follows a start at once and a tick that is due follows a long
pass (`prioritization.go:367`). A pod is given a node (`SchedulePod`) some time before it is bound to it
(`BindPod`), and the node may be cordoned and asked for its pods in between: `outrun` records this.
That terminated pods have to be five minutes old is a delay like any other, and the machineset is
never deleted. The
read of `replicas` and the patch that writes them are two actions, as are the patch and its
answer. The machine controllers, the scheduler, the pods and the autoscaler are external.

Each module `M` with a run has a module `MCM` that holds its instances. `TypeOK` of each
module states what its variables hold. Definitions named in a comment "Mutant:" are
plausible mistakes in the code; each property of a run is violated when one of them
replaces the definition that follows it.

## Runs

Passing runs:

| run | instance | shows |
|---|---|---|
| `StepPlan` | every configuration of three steps that create a link of their own or none and require any, and of three steps over two shared links; no, one, two, repeated and unknown targets | `ClosureIsExact`, `VerdictIsExact`, `PlanningEnds` |
| `StepRun` | every accepted graph of four steps with links of their own, and of three steps over two links that may be shared; any step fails, a cancellation at any time | `NoSendOnClosedChannel`, `LinksFirst`, `StartedAtMostOnce`, `CompleteOnSuccess`, `NothingStartsWhenInterrupted`, `ImplementsSchedule`, `RunEnds` |
| `MetricsAgent` | two steps and a snapshot, six events, a channel for two of them | `FlushIsComplete`, `StopReturns` |
| `NodeWatch` | a build of two attempts and a pod, a goroutine for each attempt, two nodes, a channel for two | `OneWatcherPerNode`, `EveryWorkloadIsWatched`, `LeaksAreExplained`, `WorkloadsEnd` |
| `Lease` | two tests that name the same two types in opposite orders, one of them with two leases of one type; one failure of an update is tolerated | `LeaseOrCancelled`, `Exclusive`, `NoSilentLeak`, `NoCircularWait`, `ProcessEnds` |
| `IPPool` | two tests that want two chunks of a pool of two; counts from -1 to one too many | `EveryLeaseIsReturned` |
| `MultiStage` | two pre steps (one best-effort), a test and an optional post step; a pre, a test and two post steps (one optional); an observer beside a pre and a test step, or beside a post step | `PostAlwaysRuns`, `OneAtATime`, `NothingLeftAtWork`, `TestReturns` |
| `Build` | two `ci-operator` processes with two attempts each | `SomeoneRetries`, `OnlyFailuresAreDeleted`, `BuildsReturn` |
| `Operator` | two promotion steps, two requests to the lease proxy, signals at any time | `OnlyOutrunPromotionsPanic`, `SuccessMeansPromoted`, `StepsLeakNothing`, `SignalEndsRun` |
| `ScaleDown` | two nodes, one pod, one fault of any kind | `NothingEvicted`, `LostMachinesAreExplained`, `TaintsAreKept`, `TaintedNodesGo` |
| `EphemeralCluster` | one EC, up to two jobs, one fault of any kind | `OnlyDeletedClustersAreAborted`, `DeletionCompletes`, `TearDownReachesTheJob` |

Some of these properties name the exceptions that the code has, and show that there are no others:
`FlushIsComplete` (a `Stop` that passed the WaitGroup before the agent had begun), `StopReturns`
(a `Record` stalled on a full channel, an event after `Stop`, an `AddNodeForWorkload` that never
gets room), `NoSilentLeak` (a grant whose answer was lost), `OneAtATime` and `NothingLeftAtWork`
(a pod of which a request failed, or that started while it was being given up), `TestReturns` (a
pod deleted before the first list of its watch), `NothingEvicted` (a pod bound after the live
query), `LeaksAreExplained` (a goroutine later than the end of its attempt, a removal faster than
`Run`), `BuildsReturn` (a watch that found nothing at first, or lost a build unnoticed),
`LostMachinesAreExplained` (a second decrement for one machine, an increment that was
overwritten), `TaintedNodesGo` (a failed machine). An exception is a weakness of the code that the
property does not catch: hazards of which this is so say it. "Where code and comments differ"
below has the details.

One run finds what a comment of the code says violated by the code:

| run | what happens |
|---|---|
| `EphemeralClusterTwice` | a job is created and bound to the EC; the poll that follows finds the job neither in the cached EC nor in the cached list and creates a second one, "a case that should never happen" |

Its trace has nine states, without a conflict, a fault or an action of the user: `SyncEC`, `Start`,
`ListJobs`, `CreateProwJob`, `UpdateEphemeralCluster` (the binding succeeds and asks for a poll), and
`Start`, `ListJobs`, `CreateProwJob` again on copies that have seen neither write. In the code the
poll comes three seconds later (`reconciler.go:354`), so the informers have to be that late. A
conflict of the binding with an update by the user leads to the same state one step later, and there the
retry does not wait for the poll.

Bounds. Three steps are enough for every shape of closure round, diamond and cycle below a root;
four for a step with two parents that have a common one, and for siblings that end in any order.
Two steps with leases are enough for every race over one resource, two types for a circle.
`Retries` is 1, so that a counter is reset, at its limit and over it. Two post steps show that an
error in one does not skip the other. `Capacity` 2 in `MetricsAgent` is less than the events, so
that the channel is at times full (the code has 100); in `NodeWatch` it is enough for what can be
sent while `Run` waits for the mutex, so `WorkloadsEnd` says nothing of a channel that fills up
for good. Two attempts show a retry and the end of all retries; `MaxBuilds` 4 is all that two
processes can create with them. In `ScaleDown` two nodes are the least of which one is avoided,
and they compete for the lock of the class; in `EphemeralCluster` a second job is the case that
goes wrong, and a third adds nothing to what the reconciler tells apart (none, one, several). One
fault of any kind, at any point, covers each error path on its own; two faults in one behaviour
are not covered. The runs without deadlock check (`CHECK_DEADLOCK FALSE`) are of processes that
end.

Fairness. The Go scheduler runs every goroutine that can go on, hence weak fairness of each
goroutine's actions (`Spec` of each module). Beyond that: a step or a test returns; an `Acquire`
returns at the latest after its timeout; a pod ends, at the latest at its deadline. In `Operator`
the graph and the promotion steps may hang, and are fair only once the context is cancelled. No
fairness is assumed of cancellations, of the heartbeat or of the goroutine that looks for unused
addresses, and none of the choice of Go's `select`. A mutex is given in the end to every goroutine
that waits for it (Go's mutexes are not starved), hence strong fairness of the locking actions in
`NodeWatch` and of `StopFlushes`; in `ScaleDown` it is enough that a mutex that stays free is
taken. In `MultiStage` a watch sees what there is to see and the pending timer expires; that a
wait returns is not assumed. In `Operator` post steps end at their deadline, and `Stop` returns:
whether it does is the question of `MetricsAgent`. In `Build` a running build ends, a deletion is
completed and time passes, but a pending build may stay pending and a process may be cancelled. In
`ScaleDown` and `EphemeralCluster` workers, informers and the machine controllers catch up, pods
end and `ci-operator` provisions; faults, users and new pods are never promised. A queue serves
its entries in order, hence strong fairness of `StartProwJob`.

## Proofs

The theorems about module `M` are in `MProofs`. Three modules are proved about together with
the one they work with: the planner `StepPlan` in `StepRunProofs`, whose last theorem is about
both; the agent `MetricsAgent` in `OperatorProofs`, which is about who stops it; and `IPPool` in
`LeaseProofs`, because it leases with the same client. These three have a prefix in front of
`Init`, `Next`, `Spec` and `TypeOK` (`PlanInit`, `MetricsNext`, `PoolSpec`), and names of their own
for what the other module has too (`plan` for the graph; `caller`; `stage` and `kept`).

The theorems hold for every value of the constants that the named `ASSUME` of a module allows, and
those allow what the code allows: any set of steps, resources, nodes, workloads or processes, any
number of faults. Bounds that the model has for TLC (`MaxBuilds`, `MaxJobs`, `MaxFaults`,
`MaxPods`) are any natural number. Each proof has the same shape: a type invariant, then one
inductive invariant after the other, each kept by every action, then the property.

`StepRunProofs`, for every set of graphs (a graph has finitely many nodes; nothing is
assumed about cycles or about who provides what, except where it is said):

- `AccountingCorrect`: the type invariant, together with `Accounting`. The WaitGroup
  alone is not inductive: that it counts the goroutines needs that each start is a new
  goroutine, that a goroutine is in one place only, that the loop handles one message
  at a time, and that the waiter has woken up only at zero, after which nobody is left
  who could start another one.
- `WaitGroupExact`, `ChannelsClosedSafely`: from `Accounting`.
- `InterruptionIsFinal`: an action property, from `Accounting` as well.
- `LinksComeFirst`: from `LinksReady`, which adds the children that are about to be
  started, and the lemma that `HasAllLinks` is monotone in the links that were seen.
- `AtMostOnce`, `ParentsComeFirst`: for graphs in which each requirement has one
  provider, from `UniqueProgress`. The code does not remember what it started. A child is
  started when its links are complete, and with unique providers this is when the
  *last* of its parents has succeeded (lemma `UniqueProvidersComplete`); so a child that
  was started has all its parents among the steps that are over, and none of those is
  handled again. `Progress` says where every started step is.
  (`ParentsFirst` has no run of its own: `ImplementsSchedule` contains it.)
- `RunImplementsSchedule`: by step simulation under `Status`, without conditions: for
  graphs with unique providers each action of `StepRun` is an action of
  `StepSchedule` or leaves `Status` alone; for others the schedule promises nothing.
- `NothingForgotten`: for graphs that the planner accepts and in which whoever counts as
  a provider is a parent (`ProvidersAreParents`). `Remembered` says that a node whose links
  are complete was started or is about to be; `Located` that what was started is over or
  has a goroutine. At a return without error the steps that succeeded are therefore closed
  under what they can provide, and an accepted graph has no smaller closed set than all
  of its nodes. Without `ProvidersAreParents` it is false (see "Observations").

`StepRunProofs`, for the planner, for configurations of any finite number of steps with any
links and targets (`ConfigsAssumption`). `DagInv` and `SortInv` were invariants
of the run `StepPlan` before they were proved:

- `ClosureExact` from `ClosureInv`: what is chosen is in every sufficient set, one with
  the targets and all providers of its members; and in a round that has chosen nobody
  yet, the steps it has passed by provide nothing that is required. So after a round without
  an addition what is chosen is itself sufficient, and the least such set. That no name was
  left over is a count (`AllMatched`), and needs that the names map onto the steps they match.
- `PlansExact` from `DagInv` and `SortInv`. Of `iterateDAG`: the path descends from a root
  (`Descends`), and while no cycle was found each call's nodes were iterated, are to be visited
  or are the next of the path (`Accounted`); what was iterated is closed under children and
  acyclic, because a node joins it after all its children. A node that is found on the path
  closes a cycle (`ClosedPath`). Of the sort: what is in the order is executable and providable,
  and nothing that the roots and the order have opened up is lost between the two
  worklists (`Worklists`), so that the order is complete when both are empty.
- `VerdictExact`: the same with the refusal for missing dependencies. In a pass that has added
  nothing, what was opened up is in the order, still to be visited or not ready
  (`NotReady`). At the end of it nobody among those is ready; that nobody *further down*
  is needs `ProvidersAreParents`. Without it the theorem is false (see "Observations").
- `PlansAreAccepted`: a plan that was sorted with all of its steps is `Accepted`, which is what
  `NothingForgotten` asks of a graph. Planner and executor meet here.

`LeaseProofs`, for any steps, resources, needs and number of retries:

- `OwnerKept` and `LeasesExclusive`: `Exclusive` alone is not inductive, because a step
  inside `Release` has given its resource back before the map and its own list forget it.
  `Owned` therefore counts that resource (`Returned`) apart; only a grant on its way to the
  map may have it.
- `LeasedOrCancelled` from `Beating`: up to the end of its test the resources of a step are in
  the map under its own cancel, and in the Boskos client's storage.
- `NoLeakIsSilent` from `NothingForgotten`: what the server has leased is known to the client,
  in the hand of an `Acquire`, was reported, or was granted in an answer that was lost.
- `NoCircle` from `InOrder`: what a step holds while it acquires is of smaller types, or too
  little of the type it wants. In a circle, take a step that wants the greatest type:
  nobody can hold all of it. The hypothesis `Orderly` is needed: two steps that each want
  several resources of one type do wait for each other (see "Observations"). `SortsByType` is what
  a sort promises, that its result is the same leases with ascending types; what `SortSeq`
  computes is a recursion over data, so it is a hypothesis here. TLC
  evaluates `Orderly` in every run of `MCLease`; `SortsByType` is true there as well, and
  false of the mutant that does not sort, for which TLC finds a circle.

`LeaseProofs`, for the IP pool, with any tests, chunks and counts read from the shared secret:

- `LeasesReturned` from `Between`: the checker has returned the leases before its index; while
  the test runs the step has all of its leases, and from then on those it still has to
  return make up, with those returned, all of them. The index is behind the count
  when the checker offers it, so that a step that takes the offer leaves out only what was
  returned, and one that does not take it returns everything, some of it twice.

`NodeWatchProofs`, for any workloads, attempts, nodes and capacity:

- `OneWatcher`, `WorkloadsAreWatched`: both are inductive together with `TypeInv`, which has that
  the plugin's entries are exactly those of the nodes with workloads.
- `LeaksExplained`: `FoundIsCurrent` (what a goroutine has found is where the pod of its
  attempt is), `StoredWhileRunning` (so a workload that is not late is stored under
  its node only while it runs) and `RacesRecorded` (a node without workloads that is watched
  or on its way was raced).

`BuildProofs`, for any set of processes and number of attempts:

- `OnlyFailuresDeleted` (an action property) from `Doomed`: what is about to be deleted, if
  it is still there under its uid, failed because of the infrastructure.
- `SuccessKept` from `Kept`: a complete build that is announced in any queue is the one that is
  there. No run states it; it is what makes a success worth something to the next step.
- `SomeoneAlwaysRetries` from `Charge`: in every state some process is about to try again, has a
  reason of its own to give up, or knows the build that is there from a watch that is up to
  date. The witness changes hands when a build is deleted and created again, which is why the
  property cannot be kept by following one process.

`MultiStageProofs`, for any number of steps and observers:

- `PostRuns` from `BeforePost` (a step that is not left and has not done well is an error of
  its phase) and `PostSoFar` (each post step that is not left was started or may be skipped).
- `NeverTwoAtOnce` and `NothingIsLeft` from `Working` and `Observing`: a pod of a phase is at work
  only while it is waited for, or in the moment between the cancellation and the clean-up of the
  phase. Both are about pods that are neither `abandoned` nor `revived`. Both assume that
  observers do not have the name of a step (`OwnNames`): a pod's name is made of the test's and
  the step's name, and the model's pods are those names.

`OperatorProofs`, for any finite set of promotion steps and any requests:

- `OnceCorrect` (`OnceDone`): behind the critical section the function under the `sync.Once` was
  executed, by `Close` or by the signal; hence `SavedOnce`.
- `SuccessIsPromotion`, `OnlyOutrunPanic` from `ResultsCounted`: `main` has counted the results it
  has received, which is a cardinality, and goes on with the first bad one or with all good.
- `NoLeakOfSteps` from `StepsReleased`. The graph is a call that returns; a panic in it is left out.

`OperatorProofs`, for the metrics agent, with any producers, events and capacity:

- `NothingLost`: what was accepted is what the plugins hold, what is in hand and what is in the
  channel, in this order. It is inductive with the types and `AgentInv`, which says where the
  agent is against the WaitGroup.
- `FlushComplete` (an action property): `Stop` flushes when the counter is zero, so that an
  agent that had begun has ended, and it ends only with a channel that is closed and empty. An
  agent that had not begun when `Stop` passed the WaitGroup (`missed`) is left out.
- `OnlyLatePanic` from `LateInv`: `Stop` closes the channel after all events that
  `main` waits for were recorded.

`ScaleDownProofs`, for any number of nodes, pods and faults:

- `OrderKept` (`Order`), `NoEviction`, `TaintsKept`: a node that a goroutine works on is `Sealed`, that
  is cordoned and seen so by the informer; one that is past the query is `Empty`, with no pod and no
  binding under way, unless the query was `outrun`. Nothing is assumed about the time between
  cordon and query. The informer's copy may be old but never knows of a cordon or taint that the
  node has not, so that a patch computed from it takes none away.
- `LossesExplained` from `LockHeld` and `Accounted`: the machines alive exceed the replicas by at
  most the allowance: the decrements in excess and those already paid for, less those
  that are about to be sent for machines that are gone.

`EphemeralClusterProofs`, for any number of jobs and faults:

- `OnlyDeletedAborted` (an action property) from `DeletionsAreReal` (whoever has read a deletion, the
  cache or a worker, is right, because a deletion is never undone) and `AbsencesAreReal` (an EC that
  the cache does not have while a job exists is gone).

Every invariant and every action property of the passing runs is the subject of a theorem.
Only model-checked:

- liveness (all properties with `<>`, and `DeletionCompletes`, `TearDownReachesTheJob`), which needs
  fairness and `ENABLED`; that the planner's loops end is one of them;
- that the sort of the leases sorts (`SortsByType`), a recursion over data;
- the refutations under "Where code and comments differ".

## Where code and comments differ

Each of these is a definition that TLC refutes when it is checked in place of the properties
of the named run:

- `AcceptedPlanIncludesAllSteps` (`StepPlan` with `Configs <- RootlessCycle`): two images
  built from each other, with no root above them, are not in the graph that `BuildGraph`
  returns (`graph.go:414`); the plan is accepted as empty although it "include[s] all steps given".
- `NotTriggeredTwice` (`StepRun` with `Graphs <- OverriddenImage`): with an image override
  (`defaults.go:318`) a link has two providers, and the step that needs it is started once for
  each (`run.go:72`), although the comment above says "if it has not yet been triggered".
- `RunListens` (`MetricsAgent`): `Record` finds the channel full and keeps the mutex that
  `Run` needs to receive (`metrics.go:152`): `Record`, `Run` and `Stop` wait for ever.
  In `NodeWatch` a channel that is too small (`Capacity = 1`) refutes `WorkloadsEnd` likewise.
- `LeaseTiedToTest` (`IPPool`): the goroutine of a test that has ended wakes up and releases
  a chunk (`ip_pool.go:194`) that another test has leased in the meantime.
- `SignalledObserversStop` (`MultiStage` with `Tests <- Observed`): an observer is told to
  stop (`multi_stage.go:334`) before its pod exists (`run.go:111`); the pod is created
  afterwards and nobody stops it.
- `RemovedFromAnyNode` (`NodeWatch`): `RemoveWorkload` ends with the first node that has the
  workload, although it "removes a workload from any node it's running on" (`metrics.go:197`).
- `ExistsInAdvance` (`Build`): another process deletes the build between the `Create` that
  found it and the list of the watch, although objects "are always expected to exist in
  advance" (`client.go:49`); the watch then waits for the next one, if any.
- `TimeoutIsAnError` (`Build`): a build that fails because of the infrastructure after the
  pending timeout and before it is read again is retried, although a timeout "must result in an
  immediate error" (`source.go:667`).

## Observations

- An EC that finds its job by listing is bound without a finalizer and with an otherwise empty
  status; a job that the informer does not have yet costs an EC its finalizer and ends the
  polling. A tear-down then reaches the job only after the next resync of the informers, ten hours
  later at most (`TearDownReachesTheJob`); the job is aborted by the ProwJob reconciler once the
  EC is gone (`DeletionCompletes`).
- With several jobs the EC reconciler gives up and never writes the status it has set. Conditions
  get a new time in every pass, so the status is written in every pass. An EC that is deleted and
  created again under its name is bound to the job of the old one.
- The scale-down decrements `replicas` twice for one machine after an expired wait or a patch
  whose answer was lost, and overwrites an increment made between its read and its patch.
  A machine that fails after its node was tainted keeps its goroutine in the loop that
  holds the lock of the class, and with it all further scale-downs of the class.
- A pod that was given a node before the cordon and is bound after the live query
  (`prioritization.go:541`) is evicted by the taint. The minute between two passes makes this
  unlikely, but the first pass after a restart is immediate.
- A pod is waited for without a timeout until the first list of its watch has seen it
  (`pods.go:185`, `client.go:49`). An observer that is deleted at once after its creation
  (`run.go:111`), or a pod that is evicted that early, keeps the test waiting: at `<-observerDone`
  (`multi_stage.go:339`), or in its phase until it is cancelled.
- A pod that was found pending for too long and starts before its wait has returned is not deleted
  (`run.go:157` looks at the status last seen), and runs beside the pods of the next phases. So may a
  pod whose `Create` took effect and was answered by an error (`pods.go:60`).
- `flush` reads the events of the nodes plugin under the plugin's mutex (`nodes.go:117`), which an
  `AddNodeForWorkload` keeps while the channel of the plugin is full (`nodes.go:226`): `Stop`
  waits for it.
- An acquire whose answer is lost or cannot be read after Boskos has granted the resource leaves a
  lease that no heartbeat updates and no error names; Boskos's own clean-up has to find it.

- `HasAllLinks` calls `SatisfiedBy` on the created link (`graph.go:592`) while edges are
  drawn by calling it on the required one (`graph.go:404`). They differ for
  `AllStepsLink`: a graph with `--write-params` is refused for missing dependencies.
  `VerdictIsExact` uses the direction of `HasAllLinks`.
- For the same reason a step could be accepted by the planner and forgotten by `Run`: it requires
  an image of the pipeline and the whole stream `stable`, somebody provides a tag of
  `stable` only, and this provider, which is no parent, ends last. TLC finds this when
  `ProvidersAreParents` is taken out of the instance of `StepRun`. No step of today's code
  requires or creates such links (`ReleaseImageTagLink`, `graph.go:314`, is not used).
- For the same reason the planner can blame the wrong cause. A pass looks only at the children
  of what it has ordered; a step that is ready thanks to a provider which is no
  parent may be further down. Four steps: 1 requires the stream `x` and creates the image
  `p`; 2 creates a tag of the stream `y`; 3 requires `p` and creates `y`; 4 requires `y` and creates a
  tag of `x`. The order 2, 4, 1, 3 can be executed, but 4 is a child of 3 only: the
  first pass orders 2, the next one nothing, and the plan is refused for missing dependencies.
  TLC confirms it, and the proof of `VerdictExact` failed at this point until
  `ProvidersAreParents` was among its hypotheses. Such links are not used today either.
- `ReleaseAll` returns the names of leases whose release failed too
  (`client.go:201`), although it is documented to return those "that were successfully
  released"; they are only counted in a metric.
- `AcquireIfAvailableImmediately` keeps what it got before the pool was exhausted
  (`client.go:153`); the test runs without addresses and the leases stay until
  `ReleaseAll`.
- The HTTP server is closed after `ReleaseAll` (`main.go:951`), so a pod that is still alive
  can be granted a lease by the proxy (`proxy.go:107`) which nobody releases.
  `StepsLeakNothing` is therefore about the steps only.
- A promotion step that is still at work when another one has failed records its events
  after `Stop` has closed the channel (`main.go:1164`); `OnlyOutrunPromotionsPanic`
  shows that this is the only such panic here.
- A negative count in the shared secret passes the check (`ip_pool.go:187`) and panics at
  the slice expression; `IPPool` has it as the state `crashed`.
- Two tests that each want several resources of *one* type can each hold a part and
  wait for the rest until the timeout: `acquireLeases` orders types, not instances.
- `runSteps` appends to `subTests` without the lock that `runPod` takes (`run.go:78`), so
  a test case can be lost. The contents of the report are not part of the model.

## Not modelled, and why

What is formatting or data: JUnit reports, manifests, the contents of pods and
secrets, parameters, the rendering of the graph. What is one call to the executor:
imports, promotion. What only restates an API: the set-up of a multi-stage
test. In `nodes.go` and `metrics.go` the branches for a cancelled context are left
out: `main` passes a context that is never cancelled.

Of the webhook, the admission of pods is modelled only by the node it precludes, and spot.io
nodes, labels and the metrics are left out. Of the other services: the dispatcher, the retester,
the config resolver, the pod scaler and the job run aggregator compute on data from services
outside the repository and keep little state that two actors share; the generators, branching,
mirroring and secret tools are sequential programs over files. `pkg/api/types.go`,
`pkg/webreg` and the `zz_generated` files are declarations, HTML and generated code. These are
most of the lines of the repository, and modelling them would be transliteration.

## Plan

1. Done: `StepLinks`, `StepPlan`, `StepRun`, `StepSchedule`, `MetricsAgent`, `NodeWatch`,
   `LeaseClient`, `Lease`, `IPPool`, `MultiStage`, `Build`, `Operator`, `EphemeralCluster`,
   `ScaleDown`, and the proofs of the safety properties of all of them.
2. `PodWait` (`pkg/util/pods.go`): the notifier and restarts of a pod, of which `MultiStage` has what
   decides about its deletion. `ClusterClaim`, the entrypoint wrapper.
3. The retester's back-off and the dispatcher's reload of its table.
