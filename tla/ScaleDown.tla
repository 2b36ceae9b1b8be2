----------------------------- MODULE ScaleDown -----------------------------
(***************************************************************************)
(* The scale-down of one class of nodes by the scheduling webhook          *)
(* (cmd/ci-scheduling-webhook/prioritization.go).  Once a minute a thread  *)
(* steers pods away from the emptiest quarter of the nodes and cordons     *)
(* those that are empty; on its next pass it starts, for every node it     *)
(* sees cordoned and empty, a goroutine that asks the API server once      *)
(* more, taints the node, annotates its machine for deletion and, under    *)
(* the lock of the class, decrements the replicas of the machineset.       *)
(*                                                                         *)
(* Nodes and pods are read from informers, which lag; patches carry no     *)
(* resource version.  The autoscaler, the machine API controllers, the     *)
(* Kubernetes scheduler and the pods are external.  One machineset, whose  *)
(* machines are the nodes; nobody else cordons or uncordons them.  Nodes   *)
(* that getWorkloadNodes hides (kept, young or being configured) and those *)
(* of spot.io are left out.                                                *)
(***************************************************************************)
EXTENDS Integers, FiniteSets

CONSTANTS
    NodeCount,    \* the nodes are 1..NodeCount, the oldest first
    MaxPods,      \* bound on the pods that arrive
    MaxFaults     \* bound on failing API calls, expired waits, restarts, failed
                  \* machines and the autoscaler's increments, together

Node == 1 .. NodeCount

ASSUME ScaleDownAssumption ==
    /\ NodeCount \in Nat \ {0} /\ MaxPods \in Nat /\ MaxFaults \in Nat

VARIABLES
    node, seen,       \* the nodes, and the nodes informer's copy of them
    pods, podsSeen,   \* node -> its active CI pods, and the pods informer's count
    inflight,         \* nodes for which a binding decided earlier is under way
    phase,            \* node -> phase of its machine
    annotated,        \* machines annotated for deletion
    replicas,         \* spec.replicas of the machineset
    status,           \* its status: replicas and readyReplicas
    scan,             \* the part of evaluateNodeClassScaleDown that is next
    pc,               \* node -> where its evaluateNodeScaleDown is
    read,             \* node -> the replicas it has read
    lock,             \* holder of nodeClassScaleDownLock, or 0
    budget,           \* what is left of the bounds
    paid,             \* history: machines for which replicas were decremented
    excess,           \* history: second decrements for a machine, and increments
                      \* overwritten by one, less the machines deleted without
                      \* the annotation
    outrun            \* history: nodes that were asked for their pods while a
                      \* binding to them was under way, until that pod ends

cluster == <<node, pods, inflight, phase, annotated, replicas, status>>

vars == <<node, seen, pods, podsSeen, inflight, phase, annotated, replicas,
          status, scan, pc, read, lock, budget, paid, excess, outrun>>

history == <<paid, excess, outrun>>

Fresh == [up |-> TRUE, cordoned |-> FALSE, noexec |-> FALSE]

Gone == [Fresh EXCEPT !.up = FALSE]

Alive == {n \in Node : phase[n] \in {"running", "failed"}}

Init ==
    /\ node = [n \in Node |-> Fresh] /\ seen = node
    /\ pods = [n \in Node |-> 0] /\ podsSeen = pods /\ inflight = {}
    /\ phase = [n \in Node |-> "running"] /\ annotated = {}
    /\ replicas = NodeCount /\ status = [replicas |-> NodeCount, ready |-> NodeCount]
    /\ scan = "spawn" /\ pc = [n \in Node |-> "idle"]
    /\ read = [n \in Node |-> 0] /\ lock = 0
    /\ budget = [faults |-> MaxFaults, pods |-> MaxPods]
    /\ paid = {} /\ excess = 0 /\ outrun = {}

Spend(what, amount) ==
    /\ budget[what] >= amount
    /\ budget' = [budget EXCEPT ![what] = @ - amount]

-----------------------------------------------------------------------------
\* getWorkloadNodes, of the schedulable nodes only or of all of them.
WorkloadNodes(schedulableOnly) ==
    {n \in Node : seen[n].up /\ (schedulableOnly => ~seen[n].cordoned)}

\* The place of n in getWorkloadNodesInAvoidanceOrder: by pods, then by age.
AvoidanceRank(n) ==
    Cardinality({m \in WorkloadNodes(TRUE) :
        podsSeen[m] < podsSeen[n] \/ (podsSeen[m] = podsSeen[n] /\ m < n)})

\* findNodesToPreclude: the first of the order, unless it is the only one.
NodesToPreclude ==
    {n \in WorkloadNodes(TRUE) : AvoidanceRank(n) = 0 /\ WorkloadNodes(TRUE) # {n}}

\* The effect evaluateNodeClassScaleDown wants on schedulable node n: nothing
\* past the first quarter of the order, which is rounded up.
DesiredEffect(n) ==
    IF AvoidanceRank(n) >= (Cardinality(WorkloadNodes(TRUE)) + 3) \div 4 THEN "None"
    ELSE IF podsSeen[n] > 0 THEN "PreferNoSchedule"
    ELSE "NoSchedule"

\* Mutant: a node that leaves the first quarter is uncordoned.
UncordoningAvoidanceState(n, effect, cordons, taints) ==
    IF ~node[n].up THEN node[n]
    ELSE [node[n] EXCEPT
            !.cordoned = IF n \in cordons THEN effect = "NoSchedule" ELSE @,
            !.noexec = IF n \in taints THEN seen[n].noexec ELSE @]

\* setNodeAvoidanceState: what its two patches make of the node.  The cordon is
\* sent when the informer's copy differs, and its failure is ignored.  Whether
\* the taints are patched depends on the PreferNoSchedule taint, which nothing
\* else depends on; the patch replaces all of the taints by those of the
\* informer's copy.
SetNodeAvoidanceState(n, effect, cordons, taints) ==
    IF seen[n].cordoned \/ ~node[n].up THEN node[n]
    ELSE [node[n] EXCEPT
            !.cordoned = IF n \in cordons /\ effect = "NoSchedule" THEN TRUE ELSE @,
            !.noexec = IF n \in taints THEN seen[n].noexec ELSE @]

\* The first half of evaluateNodeClassScaleDown: a goroutine for every node
\* seen cordoned and without pods that has none yet.  Nothing keeps two passes
\* a minute apart: the first one follows a start at once, and a tick that is
\* due follows a long pass at once.
ScanSpawn ==
    /\ scan = "spawn"
    /\ scan' = "avoid"
    /\ pc' = [n \in Node |->
                IF /\ n \in WorkloadNodes(FALSE)
                   /\ seen[n].cordoned /\ podsSeen[n] = 0
                   /\ pc[n] = "idle"
                THEN "query" ELSE pc[n]]
    /\ UNCHANGED <<cluster, seen, podsSeen, read, lock, budget, history>>

\* Its second half: the avoidance state of every schedulable node.  cordons and
\* taints are the nodes whose patches of that kind are not skipped or failing.
ScanAvoid ==
    /\ scan = "avoid"
    /\ scan' = "spawn"
    /\ \E cordons \in SUBSET WorkloadNodes(TRUE), taints \in SUBSET WorkloadNodes(TRUE) :
        /\ Spend("faults", Cardinality(WorkloadNodes(TRUE) \ cordons))
        /\ node' = [n \in Node |->
                IF n \in WorkloadNodes(TRUE)
                THEN SetNodeAvoidanceState(n, DesiredEffect(n), cordons, taints)
                ELSE node[n]]
    /\ UNCHANGED <<seen, pods, podsSeen, inflight, phase, annotated, replicas, status,
                   pc, read, lock, history>>

-----------------------------------------------------------------------------
\* The goroutine of node n goes on at step `to`.
Goto(n, to) == pc' = [pc EXCEPT ![n] = to]

\* What the goroutine leaves alone in all of its steps.
External == <<seen, pods, podsSeen, inflight, phase, status, scan>>

\* A call fails before the point of no return: another pass will try again.
Abandon(n) ==
    /\ pc[n] \in {"query", "age", "taint"}
    /\ Spend("faults", 1) /\ Goto(n, "idle")
    /\ UNCHANGED <<External, node, annotated, replicas, read, lock, history>>

\* History only: no query can see a pod whose binding has not arrived.  A later
\* query makes up for an earlier one, unless the node is tainted already.
NoteOutrun(n) ==
    outrun' = IF n \in inflight THEN outrun \cup {n}
              ELSE IF node[n].noexec THEN outrun
              ELSE outrun \ {n}

\* Mutant: the pods informer is trusted.
QueryCachedPods(n) ==
    /\ pc[n] = "query"
    /\ Goto(n, IF podsSeen[n] > 0 THEN "idle"
               ELSE IF phase[n] = "gone" THEN "wait" ELSE "age")
    /\ NoteOutrun(n)
    /\ UNCHANGED <<External, node, annotated, replicas, read, lock, budget, paid, excess>>

\* evaluateNodeScaleDown asks the API server for the pods of the node, and
\* scaleDown for its machine: one that is gone needs nothing more.
QueryPods(n) ==
    /\ pc[n] = "query"
    /\ Goto(n, IF pods[n] > 0 THEN "idle"
               ELSE IF phase[n] = "gone" THEN "wait" ELSE "age")
    /\ NoteOutrun(n)
    /\ UNCHANGED <<External, node, annotated, replicas, read, lock, budget, paid, excess>>

\* The loop that waits until the pods informer has no pod that is active or
\* ended less than five minutes ago, a delay; then the machine again, its
\* owner, and the machineset.
AwaitPodAge(n) ==
    /\ pc[n] = "age" /\ podsSeen[n] = 0
    /\ Goto(n, IF phase[n] = "gone" THEN "wait" ELSE "taint")
    /\ UNCHANGED <<External, node, annotated, replicas, read, lock, budget, history>>

\* setNoExecuteTaint: the taints of the informer's copy and one more replace
\* those of the node.
SetNoExecuteTaint(n) ==
    /\ pc[n] = "taint"
    /\ \/ /\ ~seen[n].up \/ (~seen[n].noexec /\ ~node[n].up)
          /\ Goto(n, "idle") /\ UNCHANGED node
       \/ /\ seen[n].up /\ seen[n].noexec
          /\ Goto(n, "annotate") /\ UNCHANGED node
       \/ /\ seen[n].up /\ ~seen[n].noexec /\ node[n].up
          /\ node' = [node EXCEPT ![n].noexec = TRUE]
          /\ Goto(n, "annotate")
    /\ UNCHANGED <<External, annotated, replicas, read, lock, budget, history>>

\* Mutant: the error of the patch is logged and the scale-down goes on.
AnnotateOrGoOn(n) ==
    /\ pc[n] = "annotate"
    /\ \/ /\ phase[n] = "gone" /\ Goto(n, "wait") /\ UNCHANGED <<annotated, budget>>
       \/ /\ phase[n] # "gone" /\ Goto(n, "lock")
          /\ annotated' = annotated \cup {n} /\ UNCHANGED budget
       \/ Goto(n, "lock") /\ Spend("faults", 1) /\ UNCHANGED annotated
    /\ UNCHANGED <<External, node, replicas, read, lock, history>>

\* The deletion annotations, retried until the patch succeeds or the machine
\* is not found.
Annotate(n) ==
    /\ pc[n] = "annotate"
    /\ \/ /\ phase[n] = "gone" /\ Goto(n, "wait") /\ UNCHANGED <<annotated, budget>>
       \/ /\ phase[n] # "gone" /\ Goto(n, "lock")
          /\ annotated' = annotated \cup {n} /\ UNCHANGED budget
       \/ Spend("faults", 1) /\ UNCHANGED <<annotated, pc>>
    /\ UNCHANGED <<External, node, replicas, read, lock, history>>

\* The lock of the class, kept until the machine is on its way out.
LockClass(n) ==
    /\ pc[n] = "lock" /\ lock = 0
    /\ lock' = n /\ Goto(n, "get")
    /\ UNCHANGED <<External, node, annotated, replicas, read, budget, history>>

\* Mutant: the return for a machine that is being deleted keeps the lock.
CheckMachineKeepingLock(n) ==
    /\ pc[n] = "get"
    /\ \/ /\ phase[n] \in {"deleting", "gone"} \/ (phase[n] = "running" /\ replicas = 0)
          /\ Goto(n, "wait") /\ UNCHANGED <<read, lock>>
       \/ /\ phase[n] = "running" /\ replicas > 0
          /\ Goto(n, "patch") /\ read' = [read EXCEPT ![n] = replicas] /\ UNCHANGED lock
    /\ UNCHANGED <<External, node, annotated, replicas, budget, history>>

\* The replicas of the machineset and the phase of the machine.  A machine that
\* is being deleted or gone is success, and replicas would not go below zero;
\* an error, or any phase other than running, is another round of the loop.
\* Nobody deletes the machineset, so it is always found.
CheckMachine(n) ==
    /\ pc[n] = "get"
    /\ \/ /\ phase[n] \in {"deleting", "gone"} \/ (phase[n] = "running" /\ replicas = 0)
          /\ Goto(n, "wait") /\ lock' = 0 /\ UNCHANGED read
       \/ /\ phase[n] = "running" /\ replicas > 0
          /\ Goto(n, "patch") /\ read' = [read EXCEPT ![n] = replicas] /\ UNCHANGED lock
    /\ UNCHANGED <<External, node, annotated, replicas, budget, history>>

\* The decrement is applied, whatever has become of replicas since they were
\* read.
Decrement(n) ==
    /\ replicas' = read[n] - 1
    /\ paid' = paid \cup {n}
    /\ excess' = excess + (IF n \in paid THEN 1 ELSE 0)
                        + (IF replicas > read[n] THEN replicas - read[n] ELSE 0)
    /\ UNCHANGED outrun

\* The patch of the machineset.  One that fails, applied or not, is another
\* round of the loop.
PatchMachineSet(n) ==
    /\ pc[n] = "patch" /\ read' = [read EXCEPT ![n] = 0]
    /\ \/ Decrement(n) /\ Goto(n, "wait") /\ lock' = 0 /\ UNCHANGED budget
       \/ Decrement(n) /\ Goto(n, "get") /\ Spend("faults", 1) /\ UNCHANGED lock
       \/ /\ Goto(n, "get") /\ Spend("faults", 1)
          /\ UNCHANGED <<replicas, lock, history>>
    /\ UNCHANGED <<External, node, annotated>>

\* A round of the wait that ends it: the node has disappeared, or the
\* machineset is reconciled and the machine runs all the same.
AwaitNode(n) ==
    /\ pc[n] = "wait"
    /\ \/ ~seen[n].up
       \/ /\ replicas = status.replicas /\ status.ready \in {0, replicas}
          /\ phase[n] = "running"
    /\ Goto(n, "idle")
    /\ UNCHANGED <<External, node, annotated, replicas, read, lock, budget, history>>

\* The wait is over after an hour.
WaitExpires(n) ==
    /\ pc[n] = "wait"
    /\ Spend("faults", 1) /\ Goto(n, "idle")
    /\ UNCHANGED <<External, node, annotated, replicas, read, lock, history>>

\* The process ends and is started again; it syncs its informers first.
Restart ==
    /\ Spend("faults", 1)
    /\ pc' = [n \in Node |-> "idle"] /\ lock' = 0 /\ scan' = "spawn"
    /\ seen' = node /\ podsSeen' = pods /\ read' = [n \in Node |-> 0]
    /\ UNCHANGED <<cluster, history>>

-----------------------------------------------------------------------------
\* What is left alone by everything outside the process.
Process == <<scan, pc, read, lock>>

\* The nodes informer catches up.
SyncNode(n) ==
    /\ seen[n] # node[n]
    /\ seen' = [seen EXCEPT ![n] = node[n]]
    /\ UNCHANGED <<cluster, podsSeen, Process, budget, history>>

\* The pods informer catches up.
SyncPods(n) ==
    /\ podsSeen[n] # pods[n]
    /\ podsSeen' = [podsSeen EXCEPT ![n] = pods[n]]
    /\ UNCHANGED <<cluster, seen, Process, budget, history>>

\* A pod is admitted, with the affinity of findHostnamesToPreclude, and the
\* scheduler chooses a node for it: one step, whose outcome the cordon may
\* overtake before BindPod.
SchedulePod(n) ==
    /\ node[n].up /\ ~node[n].cordoned
    /\ n \notin NodesToPreclude /\ n \notin inflight
    /\ Spend("pods", 1)
    /\ inflight' = inflight \cup {n}
    /\ UNCHANGED <<node, pods, phase, annotated, replicas, status, seen, podsSeen,
                   Process, history>>

\* The binding arrives, and later the pod ends.
BindPod(n) ==
    /\ n \in inflight
    /\ inflight' = inflight \ {n}
    /\ pods' = IF node[n].up THEN [pods EXCEPT ![n] = @ + 1] ELSE pods
    /\ UNCHANGED <<node, phase, annotated, replicas, status, seen, podsSeen, Process,
                   budget, history>>

EndPod(n) ==
    /\ pods[n] > 0
    /\ pods' = [pods EXCEPT ![n] = @ - 1]
    /\ outrun' = IF pods[n] = 1 /\ n \notin inflight THEN outrun \ {n} ELSE outrun
    /\ UNCHANGED <<node, inflight, phase, annotated, replicas, status, seen, podsSeen,
                   Process, budget, paid, excess>>

\* The machineset controller deletes a machine too many, an annotated one if
\* there is any.
DeleteMachine(n) ==
    /\ Cardinality(Alive) > replicas
    /\ n \in Alive /\ (Alive \cap annotated = {} \/ n \in annotated)
    /\ phase' = [phase EXCEPT ![n] = "deleting"]
    /\ excess' = excess - (IF n \in annotated THEN 0 ELSE 1)
    /\ UNCHANGED <<node, pods, inflight, annotated, replicas, status, seen, podsSeen,
                   Process, budget, paid, outrun>>

\* The machine controller drains the node and removes both.
RemoveMachine(n) ==
    /\ phase[n] = "deleting"
    /\ phase' = [phase EXCEPT ![n] = "gone"]
    /\ node' = [node EXCEPT ![n] = Gone] /\ pods' = [pods EXCEPT ![n] = 0]
    /\ outrun' = outrun \ {n}
    /\ UNCHANGED <<inflight, annotated, replicas, status, seen, podsSeen, Process,
                   budget, paid, excess>>

\* The machineset controller adds a machine.  Its name is one that nothing
\* refers to any more.
AddMachine(n) ==
    /\ Cardinality(Alive) < replicas
    /\ phase[n] = "gone" /\ ~seen[n].up /\ pc[n] = "idle" /\ n \notin inflight
    /\ phase' = [phase EXCEPT ![n] = "running"] /\ annotated' = annotated \ {n}
    /\ node' = [node EXCEPT ![n] = Fresh]
    /\ paid' = paid \ {n}
    /\ UNCHANGED <<pods, inflight, replicas, status, seen, podsSeen, Process, budget,
                   excess, outrun>>

\* The machineset controller reports what there is.
ReportStatus ==
    /\ status' = [replicas |-> Cardinality(Alive),
                  ready |-> Cardinality({n \in Node : phase[n] = "running"})]
    /\ status' # status
    /\ UNCHANGED <<node, pods, inflight, phase, annotated, replicas, seen, podsSeen,
                   Process, budget, history>>

\* The autoscaler asks for one more machine.
ScaleUp ==
    /\ replicas < NodeCount /\ Spend("faults", 1)
    /\ replicas' = replicas + 1
    /\ UNCHANGED <<node, pods, inflight, phase, annotated, status, seen, podsSeen,
                   Process, history>>

\* A machine fails: it is neither running nor being deleted.
FailMachine(n) ==
    /\ phase[n] = "running" /\ Spend("faults", 1)
    /\ phase' = [phase EXCEPT ![n] = "failed"]
    /\ UNCHANGED <<node, pods, inflight, annotated, replicas, status, seen, podsSeen,
                   Process, history>>

-----------------------------------------------------------------------------
ScaleDownStep(n) ==
    \/ QueryPods(n) \/ AwaitPodAge(n) \/ SetNoExecuteTaint(n) \/ Annotate(n)
    \/ LockClass(n) \/ CheckMachine(n) \/ PatchMachineSet(n) \/ AwaitNode(n)

Environment(n) ==
    \/ SyncNode(n) \/ SyncPods(n) \/ BindPod(n) \/ EndPod(n)
    \/ DeleteMachine(n) \/ RemoveMachine(n) \/ AddMachine(n)

Next ==
    \/ ScanSpawn \/ ScanAvoid \/ ReportStatus \/ ScaleUp \/ Restart
    \/ \E n \in Node :
        \/ ScaleDownStep(n) \/ Abandon(n) \/ WaitExpires(n)
        \/ Environment(n) \/ SchedulePod(n) \/ FailMachine(n)

\* The minute ticks, goroutines run, a mutex that stays free is taken, informers
\* and machine controllers catch up, bindings arrive and pods end.  Errors,
\* expired waits, restarts, new pods and increments are never promised.
Fairness ==
    /\ WF_vars(ScanSpawn \/ ScanAvoid) /\ WF_vars(ReportStatus)
    /\ \A n \in Node : WF_vars(ScaleDownStep(n)) /\ WF_vars(Environment(n))

Spec == Init /\ [][Next]_vars /\ Fairness

-----------------------------------------------------------------------------
\* Every variable has its type, and replicas stay within the machines.
TypeOK ==
    /\ {node[n] : n \in Node} \cup {seen[n] : n \in Node} \subseteq
         [up : BOOLEAN, cordoned : BOOLEAN, noexec : BOOLEAN]
    /\ pods \in [Node -> 0 .. MaxPods] /\ podsSeen \in [Node -> 0 .. MaxPods]
    /\ inflight \subseteq Node /\ annotated \subseteq Node
    /\ phase \in [Node -> {"running", "failed", "deleting", "gone"}]
    /\ replicas \in 0 .. NodeCount /\ lock \in 0 .. NodeCount
    /\ {status.replicas, status.ready} \subseteq 0 .. NodeCount
    /\ scan \in {"spawn", "avoid"}
    /\ pc \in [Node -> {"idle", "query", "age", "taint", "annotate",
                        "lock", "get", "patch", "wait"}]
    /\ read \in [Node -> 0 .. NodeCount] /\ outrun \subseteq Node

\* The NoExecute taint, which evicts pods, never meets an active CI pod,
\* although both the scan and the taint go by informers that lag behind the
\* cordon and the pods (the order cordon, pass, query, taint).  One case is
\* beyond the code and excepted: the live query of evaluateNodeScaleDown ran
\* while a pod that was given the node before the cordon was not bound yet.
NothingEvicted ==
    \A n \in Node : node[n].noexec => pods[n] = 0 \/ n \in outrun

\* The machine controllers delete no more machines that were never chosen for
\* it than there were second decrements for a machine (after a wait was given
\* up or a patch whose answer was lost) and increments that a decrement has
\* overwritten.
LostMachinesAreExplained == excess >= 0

\* Patches computed from a stale copy of a node neither uncordon it nor take
\* the NoExecute taint off it: "Never uncordon nodes".
TaintsAreKept ==
    [][\A n \in Node : node[n].up /\ node'[n].up =>
        /\ node[n].cordoned => node'[n].cordoned
        /\ node[n].noexec => node'[n].noexec]_vars

\* "setting this Taint is the point of no return -- if successful, we will try
\* to scale down indefinitely": while any node has the taint there will be a
\* time when none has it, through errors, expired waits and restarts, unless a
\* machine of the class fails; the goroutine of a failed machine keeps the lock
\* of the class.  A taint is not taken back, so each tainted node has gone.
TaintedNodesGo ==
    (\E n \in Node : node[n].noexec)
        ~> ((\A n \in Node : ~node[n].noexec) \/ \E n \in Node : phase[n] = "failed")
=============================================================================
