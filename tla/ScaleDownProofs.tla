--------------------------- MODULE ScaleDownProofs ---------------------------
(***************************************************************************)
(* Theorems about the scale-down, for every number of nodes, pods and      *)
(* faults.                                                                 *)
(***************************************************************************)
EXTENDS ScaleDown, FiniteSetTheorems, TLAPS

NodeState == [up : BOOLEAN, cordoned : BOOLEAN, noexec : BOOLEAN]

\* The part of the types that the proofs need.
Types ==
    /\ node \in [Node -> NodeState] /\ seen \in [Node -> NodeState]
    /\ pods \in [Node -> Nat]
    /\ phase \in [Node -> {"running", "failed", "deleting", "gone"}]
    /\ pc \in [Node -> {"idle", "query", "age", "taint", "annotate",
                        "lock", "get", "patch", "wait"}]

\* Nothing new is scheduled on node n: it is cordoned, and the informer has seen it.
Sealed(n) == node[n].cordoned /\ seen[n].cordoned

\* Nothing runs on node n and nothing is on its way to it.
Empty(n) == pods[n] = 0 /\ n \notin inflight

\* The order cordon, pass, query, taint: a node that a goroutine works on is
\* sealed, one that got past the query is empty unless the query was outrun, and
\* the taint is only on such nodes.  The informer's copy may be old, but knows of no cordon or taint that the
\* node does not have.
Order ==
    \A n \in Node :
        /\ phase[n] = "gone" => node[n] = Gone
        /\ node[n].noexec => node[n].up /\ Sealed(n) /\ (Empty(n) \/ n \in outrun)
        /\ pc[n] # "idle" /\ node[n].up =>
             Sealed(n) /\ (pc[n] # "query" => Empty(n) \/ n \in outrun)
        /\ seen[n].up /\ seen[n].cordoned /\ node[n].up => node[n].cordoned
        /\ seen[n].noexec => seen[n].cordoned

OrderInv == Types /\ Order

-----------------------------------------------------------------------------
(* The order of cordon and taint *)

\* The two patches keep whether the node is up and its cordon, and change the taint
\* only of a node that was not seen cordoned.
LEMMA AvoidanceState ==
    ASSUME Types, NEW n \in Node, NEW effect, NEW cordons, NEW taints
    PROVE  LET new == SetNodeAvoidanceState(n, effect, cordons, taints)
           IN  /\ new \in NodeState /\ new.up = node[n].up
               /\ node[n].cordoned => new.cordoned
               /\ \/ new = node[n]
                  \/ /\ ~seen[n].cordoned /\ node[n].up
                     /\ new.noexec = node[n].noexec \/ new.noexec = seen[n].noexec
<1>1. node[n] \in NodeState /\ seen[n] \in NodeState
  BY DEF Types
<1>2. CASE seen[n].cordoned \/ ~node[n].up
  BY <1>1, <1>2 DEF SetNodeAvoidanceState
<1>3. CASE ~seen[n].cordoned /\ node[n].up
  <2> DEFINE c == IF n \in cordons /\ effect = "NoSchedule" THEN TRUE ELSE node[n].cordoned
             x == IF n \in taints THEN seen[n].noexec ELSE node[n].noexec
  <2>1. SetNodeAvoidanceState(n, effect, cordons, taints) =
            [node[n] EXCEPT !.cordoned = c, !.noexec = x]
    BY <1>3, Zenon DEF SetNodeAvoidanceState
  <2>2. /\ c \in BOOLEAN /\ x \in BOOLEAN
        /\ node[n].cordoned => c
        /\ x = node[n].noexec \/ x = seen[n].noexec
    BY <1>1 DEF NodeState
  <2> HIDE DEF c, x
  <2> DEFINE new == [node[n] EXCEPT !.cordoned = c, !.noexec = x]
  <2>3. new \in NodeState /\ new.up = node[n].up /\ new.cordoned = c /\ new.noexec = x
    BY <1>1, <2>2 DEF NodeState
  <2> HIDE DEF new
  <2> QED  BY <1>3, <2>1, <2>2, <2>3 DEF new
<1> QED  BY <1>2, <1>3

\* The NoExecute taint changes nothing else of a node.
LEMMA TaintOne ==
    ASSUME Types, NEW n \in Node
    PROVE  LET new == [node EXCEPT ![n].noexec = TRUE]
           IN  /\ new \in [Node -> NodeState]
               /\ new[n].up = node[n].up /\ new[n].cordoned = node[n].cordoned
               /\ new[n] \in NodeState /\ \A m \in Node \ {n} : new[m] = node[m]
<1>1. node \in [Node -> NodeState] /\ node[n] \in NodeState
  BY DEF Types
<1> DEFINE one == [node[n] EXCEPT !.noexec = TRUE]
<1>2. one \in NodeState /\ one.up = node[n].up /\ one.cordoned = node[n].cordoned
  BY <1>1 DEF NodeState
<1>3. [node EXCEPT ![n].noexec = TRUE] = [node EXCEPT ![n] = one]
  BY Zenon
<1> HIDE DEF one
<1> QED  BY <1>1, <1>2, <1>3

\* Every action keeps the types of the nodes, the pods and the goroutines.
LEMMA TypesInductive == Types /\ [Next]_vars => Types'
<1> SUFFICES ASSUME Types, [Next]_vars PROVE Types'
  OBVIOUS
<1>0. Fresh \in NodeState /\ Gone \in NodeState
  BY DEF Fresh, Gone, NodeState
<1>1. CASE UNCHANGED <<node, seen, pods, phase, pc>>
  BY <1>1 DEF Types
<1>2. CASE ScanSpawn
  BY <1>2 DEF ScanSpawn, cluster, Types
<1>3. CASE ScanAvoid
  <2>1. PICK cordons, taints :
            node' = [n \in Node |->
                IF n \in WorkloadNodes(TRUE)
                THEN SetNodeAvoidanceState(n, DesiredEffect(n), cordons, taints)
                ELSE node[n]]
    BY <1>3, Zenon DEF ScanAvoid
  <2>2. \A n \in Node : SetNodeAvoidanceState(n, DesiredEffect(n), cordons, taints) \in NodeState
    BY AvoidanceState
  <2>3. node' \in [Node -> NodeState]
    BY <2>1, <2>2 DEF Types
  <2> QED  BY <1>3, <2>3 DEF ScanAvoid, Types
<1>4. CASE ReportStatus \/ ScaleUp
  BY <1>1, <1>4 DEF ReportStatus, ScaleUp, Process
<1>5. CASE Restart
  BY <1>5 DEF Restart, cluster, Types
<1>6. ASSUME NEW n \in Node, SetNoExecuteTaint(n) PROVE Types'
  <2>1. node' \in [Node -> NodeState]
    BY <1>6, TaintOne DEF SetNoExecuteTaint, Types
  <2> QED  BY <1>6, <2>1 DEF SetNoExecuteTaint, Goto, External, Types
<1>7. ASSUME NEW n \in Node,
             QueryPods(n) \/ AwaitPodAge(n) \/ Annotate(n) \/ CheckMachine(n)
                \/ PatchMachineSet(n) \/ AwaitNode(n) \/ LockClass(n) \/ Abandon(n) \/ WaitExpires(n)
      PROVE  Types'
  <2>1. UNCHANGED <<node, seen, pods, phase>>
    BY <1>7 DEF QueryPods, AwaitPodAge, Annotate, CheckMachine, PatchMachineSet, AwaitNode,
                LockClass, Abandon, WaitExpires, External
  <2>2. \/ UNCHANGED pc
        \/ \E to \in {"idle", "query", "age", "taint", "annotate", "lock", "get", "patch", "wait"} :
              pc' = [pc EXCEPT ![n] = to]
    BY <1>7 DEF QueryPods, AwaitPodAge, Annotate, CheckMachine, PatchMachineSet, AwaitNode,
                LockClass, Abandon, WaitExpires, Goto
  <2> QED  BY <2>1, <2>2 DEF Types
<1>8. ASSUME NEW n \in Node, SyncNode(n) \/ SyncPods(n) PROVE Types'
  BY <1>8 DEF SyncNode, SyncPods, cluster, Process, Types
<1>9. ASSUME NEW n \in Node, BindPod(n) \/ EndPod(n) \/ SchedulePod(n) PROVE Types'
  BY <1>9 DEF BindPod, EndPod, SchedulePod, Process, Types
<1>10. ASSUME NEW n \in Node, DeleteMachine(n) \/ RemoveMachine(n) \/ AddMachine(n) \/ FailMachine(n)
       PROVE  Types'
  BY <1>0, <1>10 DEF DeleteMachine, RemoveMachine, AddMachine, FailMachine, Process, Types
<1>11. CASE UNCHANGED vars
  BY <1>1, <1>11 DEF vars
<1> QED
  BY <1>2, <1>3, <1>4, <1>5, <1>6, <1>7, <1>8, <1>9, <1>10, <1>11
     DEF Next, ScaleDownStep, Environment

\* Every action keeps the order.
LEMMA OrderInductive == Types /\ Order /\ [Next]_vars => Order'
<1> SUFFICES ASSUME Types, Order, [Next]_vars PROVE Order'
  OBVIOUS
<1>0. /\ node \in [Node -> NodeState] /\ seen \in [Node -> NodeState]
      /\ \A n \in Node : node[n] \in NodeState /\ seen[n] \in NodeState
      /\ pc \in [Node -> {"idle", "query", "age", "taint", "annotate",
                          "lock", "get", "patch", "wait"}]
      /\ phase \in [Node -> {"running", "failed", "deleting", "gone"}]
      /\ pods \in [Node -> Nat]
  BY DEF Types
<1>a. ~Gone.up /\ ~Gone.cordoned /\ ~Gone.noexec /\ Fresh.up /\ ~Fresh.cordoned /\ ~Fresh.noexec
  BY DEF Gone, Fresh
<1> DEFINE Good(n) ==
        /\ phase[n] = "gone" => node[n] = Gone
        /\ node[n].noexec => node[n].up /\ Sealed(n) /\ (Empty(n) \/ n \in outrun)
        /\ pc[n] # "idle" /\ node[n].up =>
             Sealed(n) /\ (pc[n] # "query" => Empty(n) \/ n \in outrun)
        /\ seen[n].up /\ seen[n].cordoned /\ node[n].up => node[n].cordoned
        /\ seen[n].noexec => seen[n].cordoned
<1>b. \A n \in Node : Good(n)
  BY DEF Order
<1>c. SUFFICES ASSUME NEW k \in Node PROVE Good(k)'
  BY DEF Order
<1>d. Good(k)
  BY <1>b
<1>1. CASE UNCHANGED <<node[k], seen[k], pods[k], phase[k], pc[k]>> /\ (k \in inflight' => k \in inflight)
             /\ (k \in outrun => k \in outrun')
  BY <1>1, <1>d DEF Sealed, Empty
<1>2. CASE ScanSpawn
  BY <1>0, <1>2, <1>d DEF ScanSpawn, cluster, history, WorkloadNodes, Sealed, Empty
<1>3. CASE ScanAvoid
  <2>1. PICK cordons, taints :
            node' = [n \in Node |->
                IF n \in WorkloadNodes(TRUE)
                THEN SetNodeAvoidanceState(n, DesiredEffect(n), cordons, taints)
                ELSE node[n]]
    BY <1>3, Zenon DEF ScanAvoid
  <2>2. UNCHANGED <<seen, pods, phase, pc, inflight, outrun>>
    BY <1>3 DEF ScanAvoid, history
  <2>3. CASE k \notin WorkloadNodes(TRUE)
    BY <1>1, <2>1, <2>2, <2>3
  <2>4. CASE k \in WorkloadNodes(TRUE)
    <3> DEFINE new == SetNodeAvoidanceState(k, DesiredEffect(k), cordons, taints)
    <3>1. node'[k] = new
      BY <2>1, <2>4
    <3>2. /\ new \in NodeState /\ new.up = node[k].up
          /\ node[k].cordoned => new.cordoned
          /\ \/ new = node[k]
             \/ /\ ~seen[k].cordoned /\ node[k].up
                /\ new.noexec = node[k].noexec \/ new.noexec = seen[k].noexec
      BY AvoidanceState
    <3> HIDE DEF new
    <3>3. CASE new = node[k]
      BY <1>1, <2>2, <3>1, <3>3
    <3>4. CASE new # node[k]
      <4>1. ~new.noexec /\ ~node[k].noexec /\ node[k].up /\ new.up
        BY <1>0, <1>d, <3>2, <3>4 DEF Sealed, Empty, NodeState
      <4>2. phase[k] # "gone" /\ pc[k] = "idle"
        BY <1>a, <1>d, <3>2, <3>4, <4>1 DEF Sealed, Empty
      <4> QED  BY <1>d, <2>2, <3>1, <3>2, <4>1, <4>2 DEF Sealed, Empty
    <3> QED  BY <3>3, <3>4
  <2> QED  BY <2>3, <2>4
<1>4. CASE ReportStatus \/ ScaleUp
  BY <1>1, <1>4 DEF ReportStatus, ScaleUp, Process, history
<1>5. CASE Restart
  BY <1>0, <1>5, <1>d DEF Restart, cluster, history, Sealed, Empty
<1>6. ASSUME NEW n \in Node, SetNoExecuteTaint(n) PROVE Good(k)'
  <2>1. CASE k # n
    <3>1. node'[k] = node[k] /\ pc'[k] = pc[k]
      BY <1>0, <1>6, <2>1, TaintOne DEF SetNoExecuteTaint, Goto
    <3> QED  BY <1>1, <1>6, <3>1 DEF SetNoExecuteTaint, External, history
  <2>2. CASE k = n /\ UNCHANGED node
    <3>1. pc[k] = "taint" /\ pc'[k] \in {"idle", "annotate"}
      BY <1>0, <1>6, <2>2 DEF SetNoExecuteTaint, Goto
    <3> QED  BY <1>6, <1>d, <2>2, <3>1 DEF SetNoExecuteTaint, External, history, Sealed, Empty
  <2>3. CASE k = n /\ node' = [node EXCEPT ![n].noexec = TRUE] /\ seen[n].up /\ node[n].up
    <3>1. node'[k].up = node[k].up /\ node'[k].cordoned = node[k].cordoned /\ node'[k] \in NodeState
      BY <2>3, TaintOne
    <3>2. pc[k] = "taint" /\ pc'[k] \in {"idle", "annotate"}
      BY <1>0, <1>6, <2>3 DEF SetNoExecuteTaint, Goto
    <3>3. UNCHANGED <<seen, pods, phase, inflight, outrun>>
      BY <1>6 DEF SetNoExecuteTaint, External, history
    <3> QED  BY <1>0, <1>a, <1>d, <2>3, <3>1, <3>2, <3>3 DEF Sealed, Empty
  <2> QED  BY <1>6, <2>1, <2>2, <2>3 DEF SetNoExecuteTaint
<1>7. ASSUME NEW n \in Node, QueryPods(n) PROVE Good(k)'
  <2>1. UNCHANGED <<node, seen, pods, phase, inflight>>
    BY <1>7 DEF QueryPods, External
  <2>2. CASE k = n
    <3>1. /\ pc[k] = "query" /\ (pods[k] > 0 => pc'[k] = "idle")
          /\ k \in inflight => k \in outrun'
          /\ k \in outrun /\ node[k].noexec => k \in outrun'
      BY <1>0, <1>7, <2>2 DEF QueryPods, NoteOutrun, Goto
    <3> QED  BY <1>0, <1>d, <2>1, <3>1 DEF Sealed, Empty
  <2>3. CASE k # n
    BY <1>0, <1>1, <1>7, <2>1, <2>3 DEF QueryPods, NoteOutrun, Goto
  <2> QED  BY <2>2, <2>3
<1>8. ASSUME NEW n \in Node,
             AwaitPodAge(n) \/ Annotate(n) \/ CheckMachine(n)
                \/ PatchMachineSet(n) \/ AwaitNode(n) \/ LockClass(n) \/ Abandon(n) \/ WaitExpires(n)
      PROVE  Good(k)'
  <2>1. UNCHANGED <<node, seen, pods, phase, inflight, outrun>>
    BY <1>8 DEF AwaitPodAge, Annotate, CheckMachine, PatchMachineSet, Decrement, AwaitNode,
                LockClass, Abandon, WaitExpires, External, history
  <2>2. pc'[k] \in {pc[k], "idle"} \/ pc[k] \notin {"idle", "query"}
    BY <1>0, <1>8 DEF AwaitPodAge, Annotate, CheckMachine, PatchMachineSet, AwaitNode,
                LockClass, Abandon, WaitExpires, Goto
  <2> QED  BY <1>d, <2>1, <2>2 DEF Sealed, Empty
<1>9. ASSUME NEW n \in Node, SyncNode(n) \/ SyncPods(n) PROVE Good(k)'
  BY <1>0, <1>9, <1>d DEF SyncNode, SyncPods, cluster, Process, history, Sealed, Empty
<1>10. ASSUME NEW n \in Node, BindPod(n) PROVE Good(k)'
  <2>1. UNCHANGED <<node, seen, phase, pc, outrun>> /\ inflight' = inflight \ {n} /\ n \in inflight
    BY <1>10 DEF BindPod, Process, history
  <2>2. CASE k = n
    BY <1>d, <2>1, <2>2, <1>10 DEF BindPod, Sealed, Empty
  <2>3. CASE k # n
    <3>1. pods'[k] = pods[k]
      BY <1>0, <1>10, <2>3 DEF BindPod
    <3> QED  BY <1>1, <2>1, <3>1
  <2> QED  BY <2>2, <2>3
<1>11. ASSUME NEW n \in Node, EndPod(n) PROVE Good(k)'
  <2>1. UNCHANGED <<node, seen, phase, pc, inflight>>
    BY <1>11 DEF EndPod, Process
  <2>2. CASE k = n
    <3>1. k \in outrun => k \in outrun' \/ (pods'[k] = 0 /\ k \notin inflight)
      BY <1>0, <1>11, <2>2 DEF EndPod
    <3>2. pods[k] # 0
      BY <1>11, <2>2 DEF EndPod
    <3> QED  BY <1>d, <2>1, <3>1, <3>2 DEF Sealed, Empty
  <2>3. CASE k # n
    <3>1. pods'[k] = pods[k] /\ (k \in outrun => k \in outrun')
      BY <1>0, <1>11, <2>3 DEF EndPod
    <3> QED  BY <1>1, <2>1, <3>1
  <2> QED  BY <2>2, <2>3
<1>12. ASSUME NEW n \in Node, SchedulePod(n) PROVE Good(k)'
  BY <1>0, <1>12, <1>d DEF SchedulePod, Process, history, Sealed, Empty
<1>13. ASSUME NEW n \in Node, DeleteMachine(n) \/ FailMachine(n) PROVE Good(k)'
  BY <1>0, <1>13, <1>d DEF DeleteMachine, FailMachine, Process, history, Sealed, Empty
<1>14. ASSUME NEW n \in Node, RemoveMachine(n) PROVE Good(k)'
  <2>1. UNCHANGED <<seen, pc, inflight>>
    BY <1>14 DEF RemoveMachine, Process
  <2>2. CASE k = n
    <3>1. node'[k] = Gone
      BY <1>0, <1>14, <2>2 DEF RemoveMachine
    <3> QED  BY <1>a, <1>d, <2>1, <3>1
  <2>3. CASE k # n
    BY <1>0, <1>1, <1>14, <2>1, <2>3 DEF RemoveMachine
  <2> QED  BY <2>2, <2>3
<1>15. ASSUME NEW n \in Node, AddMachine(n) PROVE Good(k)'
  <2>1. UNCHANGED <<seen, pc, pods, inflight, outrun>>
    BY <1>15 DEF AddMachine, Process
  <2>2. CASE k = n
    <3>1. node'[k] = Fresh /\ phase'[k] = "running" /\ ~seen[k].up /\ pc[k] = "idle"
      BY <1>0, <1>15, <2>2 DEF AddMachine
    <3> QED  BY <1>a, <1>d, <2>1, <3>1
  <2>3. CASE k # n
    BY <1>0, <1>1, <1>15, <2>1, <2>3 DEF AddMachine
  <2> QED  BY <2>2, <2>3
<1>16. CASE UNCHANGED vars
  BY <1>1, <1>16 DEF vars
<1> HIDE DEF Good
<1> QED
  BY <1>2, <1>3, <1>4, <1>5, <1>6, <1>7, <1>8, <1>9, <1>10, <1>11, <1>12, <1>13, <1>14, <1>15, <1>16
     DEF Next, ScaleDownStep, Environment

\* The nodes are cordoned, seen cordoned, empty and tainted in this order, whatever
\* the informers have not seen yet; a node counts as empty too when the live query
\* was outrun by a pod given the node before the cordon and bound after the query.
THEOREM OrderKept == Spec => []OrderInv
<1>1. Init => Types
  BY DEF Init, Types, Fresh, NodeState
<1>2. Init => Order
  BY DEF Init, Order, Fresh
<1> QED  BY <1>1, <1>2, TypesInductive, OrderInductive, PTL DEF Spec, OrderInv

\* The NoExecute taint never meets an active CI pod, but for one whose binding
\* outran the live query.
THEOREM NoEviction == Spec => []NothingEvicted
<1>1. OrderInv => NothingEvicted
  BY DEF OrderInv, Order, Empty, NothingEvicted
<1> QED  BY <1>1, OrderKept, PTL

\* No patch computed from a stale copy uncordons a node or takes the taint off it.
THEOREM TaintsKept == Spec => TaintsAreKept
<1> DEFINE Kept == \A n \in Node : node[n].up /\ node'[n].up =>
                      /\ node[n].cordoned => node'[n].cordoned
                      /\ node[n].noexec => node'[n].noexec
<1>1. ASSUME OrderInv, [Next]_vars PROVE Kept
  <2> SUFFICES ASSUME NEW k \in Node, node[k].up, node'[k].up
               PROVE  /\ node[k].cordoned => node'[k].cordoned
                      /\ node[k].noexec => node'[k].noexec
    OBVIOUS
  <2>0. /\ Types /\ node \in [Node -> NodeState]
        /\ node[k].noexec => seen[k].cordoned
        /\ phase[k] = "gone" => node[k] = Gone
    BY <1>1 DEF OrderInv, Types, Order, Sealed
  <2>a. ~Gone.up
    BY DEF Gone, Fresh
  <2>1. CASE node'[k] = node[k]
    BY <2>1
  <2>2. CASE ScanAvoid
    <3>1. PICK cordons, taints :
            node' = [n \in Node |->
                IF n \in WorkloadNodes(TRUE)
                THEN SetNodeAvoidanceState(n, DesiredEffect(n), cordons, taints)
                ELSE node[n]]
      BY <2>2, Zenon DEF ScanAvoid
    <3> DEFINE new == SetNodeAvoidanceState(k, DesiredEffect(k), cordons, taints)
    <3>2. /\ node[k].cordoned => new.cordoned
          /\ new = node[k] \/ ~seen[k].cordoned
      BY <2>0, AvoidanceState
    <3>3. node'[k] = new \/ node'[k] = node[k]
      BY <3>1
    <3> HIDE DEF new
    <3> QED  BY <2>0, <2>1, <3>2, <3>3
  <2>3. ASSUME NEW n \in Node, SetNoExecuteTaint(n)
        PROVE  /\ node[k].cordoned => node'[k].cordoned
               /\ node[k].noexec => node'[k].noexec
    <3>1. CASE UNCHANGED node
      BY <2>1, <3>1
    <3>2. CASE node' = [node EXCEPT ![n].noexec = TRUE]
      <4>1. k # n => node'[k] = node[k]
        BY <2>0, <3>2, TaintOne
      <4>2. k = n => node'[k].noexec /\ node'[k].cordoned = node[k].cordoned
        <5>1. [node[n] EXCEPT !.noexec = TRUE].noexec
          BY <2>0 DEF NodeState
        <5>2. node'[n] = [node[n] EXCEPT !.noexec = TRUE]
          BY <2>0, <3>2
        <5>3. node'[n].cordoned = node[n].cordoned
          BY <2>0, <3>2, TaintOne
        <5> QED  BY <5>1, <5>2, <5>3
      <4> QED  BY <2>1, <4>1, <4>2
    <3> QED  BY <2>3, <3>1, <3>2 DEF SetNoExecuteTaint
  <2>4. ASSUME NEW n \in Node, RemoveMachine(n) PROVE node'[k] = node[k]
    <3>1. n # k
      BY <2>0, <2>a, <2>4 DEF RemoveMachine
    <3> QED  BY <2>0, <2>4, <3>1 DEF RemoveMachine
  <2>5. ASSUME NEW n \in Node, AddMachine(n) PROVE node'[k] = node[k]
    <3>1. n # k
      BY <2>0, <2>a, <2>5 DEF AddMachine
    <3> QED  BY <2>0, <2>5, <3>1 DEF AddMachine
  <2>6. CASE UNCHANGED node
    BY <2>1, <2>6
  <2>7. CASE ScanSpawn \/ ReportStatus \/ ScaleUp \/ Restart \/ UNCHANGED vars
    BY <2>6, <2>7 DEF ScanSpawn, ReportStatus, ScaleUp, Restart, vars, cluster
  <2>8. ASSUME NEW n \in Node,
               QueryPods(n) \/ AwaitPodAge(n) \/ Annotate(n) \/ CheckMachine(n)
                  \/ PatchMachineSet(n) \/ AwaitNode(n) \/ LockClass(n) \/ Abandon(n) \/ WaitExpires(n)
        PROVE  UNCHANGED node
    BY <2>8 DEF QueryPods, AwaitPodAge, Annotate, CheckMachine, PatchMachineSet, AwaitNode,
                LockClass, Abandon, WaitExpires
  <2>9. ASSUME NEW n \in Node,
               SyncNode(n) \/ SyncPods(n) \/ BindPod(n) \/ EndPod(n) \/ DeleteMachine(n)
                  \/ SchedulePod(n) \/ FailMachine(n)
        PROVE  UNCHANGED node
    BY <2>9 DEF SyncNode, SyncPods, BindPod, EndPod, DeleteMachine, SchedulePod, FailMachine, cluster
  <2> QED
    BY <1>1, <2>1, <2>2, <2>3, <2>4, <2>5, <2>6, <2>7, <2>8, <2>9
       DEF Next, ScaleDownStep, Environment
<1> HIDE DEF Kept
<1>2. OrderInv /\ [Next]_vars => [Kept]_vars
  BY <1>1
<1> QED  BY <1>2, OrderKept, PTL DEF Spec, TaintsAreKept, Kept

-----------------------------------------------------------------------------
(* Machines and replicas *)

\* A machine that is being deleted already and will be paid for by a decrement
\* that is about to be sent: its phase was read before.
Unpaid == {n \in Node : pc[n] = "patch" /\ n \notin Alive /\ n \notin paid}

\* What the decrements, and those in excess, allow the controllers to delete.
Allowance == excess + Cardinality(Alive \cap paid) - Cardinality(Unpaid)

\* Who holds the lock, and what it has read.
LockHeld ==
    /\ paid \subseteq annotated /\ annotated \subseteq Node
    /\ replicas \in Nat /\ read \in [Node -> Nat] /\ excess \in Int
    /\ \A n \in Node :
        /\ pc[n] \in {"get", "patch"} => lock = n
        /\ pc[n] \in {"lock", "get", "patch"} => n \in annotated
        /\ pc[n] = "patch" => read[n] \in 1 .. replicas

\* There are never more machines than replicas and the allowance.
Accounted ==
    /\ Cardinality(Alive) - replicas <= Allowance
    /\ Allowance >= 0 /\ excess >= 0

\* Every action keeps the lock with one goroutine, and what it has read below the
\* replicas: only the holder of the lock decrements.
LEMMA LockInductive == Types /\ LockHeld /\ [Next]_vars => LockHeld'
<1> SUFFICES ASSUME Types, LockHeld, [Next]_vars PROVE LockHeld'
  OBVIOUS
<1>0. /\ pc \in [Node -> {"idle", "query", "age", "taint", "annotate",
                          "lock", "get", "patch", "wait"}]
      /\ 0 \notin Node
  BY ScaleDownAssumption DEF Types, Node
<1>1. CASE UNCHANGED <<paid, annotated, replicas, read, excess, lock>> /\ UNCHANGED pc
  BY <1>1 DEF LockHeld
<1>2. CASE ScanSpawn
  BY <1>0, <1>2 DEF ScanSpawn, cluster, history, LockHeld
<1>3. CASE ScanAvoid \/ ReportStatus
  BY <1>1, <1>3 DEF ScanAvoid, ReportStatus, Process, history
<1>4. CASE ScaleUp
  BY <1>4 DEF ScaleUp, Process, history, LockHeld
<1>5. CASE Restart
  BY <1>0, <1>5 DEF Restart, cluster, history, LockHeld
<1>6. ASSUME NEW n \in Node, 
             QueryPods(n) \/ AwaitPodAge(n) \/ SetNoExecuteTaint(n) \/ AwaitNode(n)
                \/ Abandon(n) \/ WaitExpires(n)
      PROVE  LockHeld'
  <2>1. UNCHANGED <<paid, annotated, replicas, read, excess, lock>>
    BY <1>6 DEF QueryPods, AwaitPodAge, SetNoExecuteTaint, AwaitNode, Abandon, WaitExpires, history
  <2>2. \E to \in {"idle", "wait", "age", "taint", "annotate"} : pc' = [pc EXCEPT ![n] = to]
    BY <1>6 DEF QueryPods, AwaitPodAge, SetNoExecuteTaint, AwaitNode, Abandon, WaitExpires, Goto
  <2> QED  BY <1>0, <2>1, <2>2 DEF LockHeld
<1>7. ASSUME NEW n \in Node, Annotate(n) PROVE LockHeld'
  BY <1>0, <1>7 DEF Annotate, Goto, history, LockHeld
<1>8. ASSUME NEW n \in Node, LockClass(n) PROVE LockHeld'
  BY <1>0, <1>8 DEF LockClass, Goto, history, LockHeld
<1>9. ASSUME NEW n \in Node, CheckMachine(n) PROVE LockHeld'
  BY <1>0, <1>9 DEF CheckMachine, Goto, history, LockHeld
<1>10. ASSUME NEW n \in Node, PatchMachineSet(n) PROVE LockHeld'
  <2>0. /\ pc[n] = "patch" /\ lock = n /\ n \in annotated /\ read[n] \in 1 .. replicas
        /\ read' = [read EXCEPT ![n] = 0] /\ UNCHANGED annotated
        /\ \A m \in Node \ {n} : pc[m] \notin {"get", "patch"}
    BY <1>10 DEF PatchMachineSet, LockHeld
  <2>1. /\ \/ pc' = [pc EXCEPT ![n] = "wait"] /\ lock' = 0
           \/ pc' = [pc EXCEPT ![n] = "get"] /\ lock' = lock
    BY <1>10 DEF PatchMachineSet, Goto
  <2>2. Decrement(n) \/ UNCHANGED <<replicas, paid, excess>>
    BY <1>10 DEF PatchMachineSet, history
  <2>3. replicas' \in Nat /\ excess' \in Int /\ paid' \subseteq annotated'
    BY <2>0, <2>2 DEF Decrement, LockHeld
  <2>4. \A m \in Node : /\ pc'[m] \in {"get", "patch"} => lock' = m
                        /\ pc'[m] \in {"lock", "get", "patch"} => m \in annotated
                        /\ pc'[m] # "patch"
    BY <1>0, <2>0, <2>1 DEF LockHeld
  <2> QED  BY <2>0, <2>3, <2>4 DEF LockHeld
<1>11. ASSUME NEW n \in Node, SyncNode(n) \/ SyncPods(n) \/ BindPod(n) \/ EndPod(n)
                  \/ RemoveMachine(n) \/ SchedulePod(n) \/ FailMachine(n)
       PROVE  LockHeld'
  BY <1>1, <1>11 DEF SyncNode, SyncPods, BindPod, EndPod, RemoveMachine, SchedulePod, FailMachine,
                     cluster, Process, history
<1>12. ASSUME NEW n \in Node, DeleteMachine(n) PROVE LockHeld'
  BY <1>12 DEF DeleteMachine, Process, LockHeld
<1>13. ASSUME NEW n \in Node, AddMachine(n) PROVE LockHeld'
  BY <1>13 DEF AddMachine, Process, LockHeld
<1>14. CASE UNCHANGED vars
  BY <1>1, <1>14 DEF vars
<1> QED
  BY <1>2, <1>3, <1>4, <1>5, <1>6, <1>7, <1>8, <1>9, <1>10, <1>11, <1>12, <1>13, <1>14
     DEF Next, ScaleDownStep, Environment

\* Sets of nodes are finite, and count one more or less with a node.
LEMMA Counting ==
    ASSUME NEW S \in SUBSET Node, NEW x \in Node
    PROVE  /\ Cardinality(S) \in Nat
           /\ Cardinality(S \cup {x}) = IF x \in S THEN Cardinality(S) ELSE Cardinality(S) + 1
           /\ Cardinality(S \ {x}) = IF x \in S THEN Cardinality(S) - 1 ELSE Cardinality(S)
<1>1. IsFiniteSet(Node)
  BY ScaleDownAssumption, FS_Interval DEF Node
<1>2. IsFiniteSet(S)
  BY <1>1, FS_Subset
<1> QED  BY <1>2, FS_CardinalityType, FS_AddElement, FS_RemoveElement

\* Every action keeps the account.
LEMMA AccountInductive == Types /\ LockHeld /\ Accounted /\ [Next]_vars => Accounted'
<1> SUFFICES ASSUME Types, LockHeld, Accounted, [Next]_vars PROVE Accounted'
  OBVIOUS
<1>0. /\ pc \in [Node -> {"idle", "query", "age", "taint", "annotate",
                          "lock", "get", "patch", "wait"}]
      /\ phase \in [Node -> {"running", "failed", "deleting", "gone"}]
      /\ replicas \in Nat /\ excess \in Int /\ paid \subseteq annotated /\ annotated \subseteq Node
      /\ 1 \in Node
  BY ScaleDownAssumption DEF Types, LockHeld, Node
<1> DEFINE A == Cardinality(Alive)
           P == Cardinality(Alive \cap paid)
           U == Cardinality(Unpaid)
<1>a. A \in Nat /\ P \in Nat /\ U \in Nat
  <2>1. Alive \in SUBSET Node /\ Alive \cap paid \in SUBSET Node /\ Unpaid \in SUBSET Node
    BY DEF Alive, Unpaid
  <2> QED  BY <1>0, <2>1, Counting
<1>b. A - replicas <= excess + P - U /\ excess + P - U >= 0 /\ excess >= 0
  BY DEF Accounted, Allowance
<1>c. SUFFICES A' - replicas' <= excess' + P' - U' /\ excess' + P' - U' >= 0 /\ excess' >= 0
  BY DEF Accounted, Allowance
<1> DEFINE Goal == A' - replicas' <= excess' + P' - U' /\ excess' + P' - U' >= 0 /\ excess' >= 0
<1>d. SUFFICES Goal
  OBVIOUS
<1>1. CASE Alive' = Alive /\ UNCHANGED <<paid, replicas, excess>> /\ Unpaid' = Unpaid
  BY <1>1, <1>b
<1> HIDE DEF A, P, U
<1>2. ASSUME NEW n \in Node, DeleteMachine(n) PROVE Goal
  <2>1. /\ A > replicas /\ n \in Alive /\ (Alive \cap annotated = {} \/ n \in annotated)
        /\ Alive' = Alive \ {n} /\ UNCHANGED <<annotated, replicas, paid, pc>>
        /\ excess' = excess - (IF n \in annotated THEN 0 ELSE 1)
    BY <1>0, <1>2 DEF DeleteMachine, Alive, Process, A
  <2>2. A' = A - 1
    BY <2>1, Counting DEF A, Alive
  <2>3. P' = IF n \in paid THEN P - 1 ELSE P
    <3>1. (Alive \cap paid)' = (Alive \cap paid) \ {n} /\ Alive \cap paid \in SUBSET Node
      BY <2>1 DEF Alive
    <3>2. Cardinality((Alive \cap paid) \ {n}) = IF n \in Alive \cap paid THEN P - 1 ELSE P
      BY <3>1, Counting DEF P
    <3> QED  BY <2>1, <3>1, <3>2 DEF P
  <2>4. CASE n \in paid
    <3>1. Unpaid' = Unpaid
      BY <2>1, <2>4 DEF Unpaid
    <3>2. U' = U /\ n \in annotated
      BY <1>0, <2>4, <3>1 DEF U
    <3> QED  BY <1>0, <1>a, <1>b, <2>1, <2>2, <2>3, <2>4, <3>2
  <2>5. CASE n \in annotated \ paid
    <3>1. U' = U \/ U' = U + 1
      <4>1. Unpaid' = Unpaid \/ Unpaid' = Unpaid \cup {n}
        BY <2>1, <2>5 DEF Unpaid
      <4>2. Unpaid \in SUBSET Node
        BY DEF Unpaid
      <4> QED  BY <4>1, <4>2, Counting DEF U
    <3>2. P' = P /\ excess' = excess /\ replicas' = replicas
      BY <1>0, <2>1, <2>3, <2>5
    <3> QED  BY <1>0, <1>a, <1>b, <2>1, <2>2, <3>1, <3>2
  <2>6. CASE n \notin annotated
    <3>1. Unpaid' = Unpaid
      BY <2>1, <2>6 DEF Unpaid, LockHeld
    <3>2. U' = U
      BY <3>1 DEF U
    <3>3. Alive \cap paid = {}
      BY <1>0, <2>1, <2>6
    <3>4. P = 0 /\ P' = 0
      BY <1>0, <2>3, <2>6, <3>3, FS_EmptySet DEF P
    <3> QED  BY <1>0, <1>a, <1>b, <2>1, <2>2, <2>6, <3>2, <3>4
  <2> QED  BY <1>0, <2>4, <2>5, <2>6
<1>3. ASSUME NEW n \in Node, AddMachine(n) PROVE Goal
  <2>1. /\ A < replicas /\ n \notin Alive /\ pc[n] = "idle" /\ paid' = paid \ {n}
        /\ Alive' = Alive \cup {n} /\ UNCHANGED <<replicas, excess, pc>>
    BY <1>0, <1>3 DEF AddMachine, Alive, Process, A
  <2>2. A' = A + 1
    BY <2>1, Counting DEF A, Alive
  <2>3. (Alive \cap paid)' = Alive \cap paid /\ Unpaid' = Unpaid
    BY <2>1 DEF Unpaid
  <2>4. P' = P /\ U' = U
    BY <2>3 DEF P, U
  <2> QED  BY <1>0, <1>a, <1>b, <2>1, <2>2, <2>4
<1>4. ASSUME NEW n \in Node, PatchMachineSet(n) PROVE Goal
  <2>1. Alive' = Alive /\ pc[n] = "patch" /\ read[n] \in 1 .. replicas
    BY <1>4 DEF PatchMachineSet, External, Alive, LockHeld
  <2>2. \E to \in {"wait", "get"} : pc' = [pc EXCEPT ![n] = to]
    BY <1>4 DEF PatchMachineSet, Goto
  <2>3. A' = A
    BY <2>1 DEF A
  <2>4. CASE UNCHANGED <<replicas, paid, excess>>
    <3>1. Unpaid' = Unpaid \ {n}
      BY <1>0, <2>1, <2>2, <2>4 DEF Unpaid
    <3>2. U' = U \/ U' = U - 1
      <4>1. Unpaid \in SUBSET Node
        BY DEF Unpaid
      <4>2. Cardinality(Unpaid \ {n}) = IF n \in Unpaid THEN U - 1 ELSE U
        BY <4>1, Counting DEF U
      <4> QED  BY <3>1, <4>2 DEF U
    <3>3. P' = P
      BY <2>1, <2>4 DEF P
    <3> QED  BY <1>0, <1>a, <1>b, <2>3, <2>4, <3>2, <3>3
  <2>5. CASE Decrement(n)
    <3>1. Unpaid' = Unpaid \ {n}
      BY <1>0, <2>1, <2>2, <2>5 DEF Unpaid, Decrement
    <3>2. (Alive \cap paid)' = IF n \in Alive THEN (Alive \cap paid) \cup {n} ELSE Alive \cap paid
      BY <2>1, <2>5 DEF Decrement
    <3>3. U' = IF n \in Alive \cup paid THEN U ELSE U - 1
      <4>1. n \in Unpaid <=> n \notin Alive \cup paid
        BY <2>1 DEF Unpaid
      <4>2. Unpaid \in SUBSET Node
        BY DEF Unpaid
      <4>3. Cardinality(Unpaid \ {n}) = IF n \in Unpaid THEN U - 1 ELSE U
        BY <4>2, Counting DEF U
      <4> QED  BY <3>1, <4>1, <4>3 DEF U
    <3>4. P' = IF n \in Alive \ paid THEN P + 1 ELSE P
      <4>1. Alive \cap paid \in SUBSET Node
        BY <1>0
      <4> QED  BY <3>2, <4>1, Counting DEF P
    <3>5. replicas' = read[n] - 1
      BY <2>5 DEF Decrement
    <3>6. excess' = excess + (IF n \in paid THEN 1 ELSE 0) + (replicas - read[n])
      BY <1>0, <2>1, <2>5 DEF Decrement
    <3>7. CASE n \in paid
      BY <1>0, <1>a, <1>b, <2>1, <2>3, <3>3, <3>4, <3>5, <3>6, <3>7
    <3>8. CASE n \notin paid
      BY <1>0, <1>a, <1>b, <2>1, <2>3, <3>3, <3>4, <3>5, <3>6, <3>8
    <3> QED  BY <3>7, <3>8
  <2> QED  BY <1>4, <2>4, <2>5 DEF PatchMachineSet, history
<1>5. CASE ScaleUp
  <2>1. Alive' = Alive /\ UNCHANGED <<paid, excess>> /\ Unpaid' = Unpaid /\ replicas' = replicas + 1
    BY <1>5 DEF ScaleUp, Alive, Unpaid, Process, history
  <2>2. A' = A /\ P' = P /\ U' = U
    BY <2>1 DEF A, P, U
  <2> QED  BY <1>0, <1>a, <1>b, <2>1, <2>2
<1>6. CASE Restart
  <2>1. Alive' = Alive /\ UNCHANGED <<paid, excess, replicas>> /\ Unpaid' = {}
    BY <1>6 DEF Restart, cluster, Alive, Unpaid, history
  <2>2. A' = A /\ P' = P /\ U' = 0
    BY <2>1, FS_EmptySet DEF A, P, U
  <2> QED  BY <1>0, <1>a, <1>b, <2>1, <2>2
<1>7. ASSUME NEW n \in Node, RemoveMachine(n) \/ FailMachine(n) PROVE Goal
  <2>1. Alive' = Alive /\ UNCHANGED <<paid, replicas, excess>>
    BY <1>0, <1>7 DEF RemoveMachine, FailMachine, Alive, history
  <2>2. Unpaid' = Unpaid
    BY <1>7, <2>1 DEF RemoveMachine, FailMachine, Unpaid, Process
  <2> QED  BY <1>1, <2>1, <2>2
<1>8. ASSUME NEW n \in Node, CheckMachine(n) PROVE Goal
  <2>1. Alive' = Alive /\ UNCHANGED <<paid, replicas, excess>>
    BY <1>8 DEF CheckMachine, External, Alive, history
  <2>2. Unpaid' = Unpaid
    BY <1>0, <1>8, <2>1 DEF CheckMachine, Goto, Alive, Unpaid
  <2> QED  BY <1>1, <2>1, <2>2
<1>9. ASSUME NEW n \in Node,
             QueryPods(n) \/ AwaitPodAge(n) \/ SetNoExecuteTaint(n) \/ Annotate(n) \/ AwaitNode(n)
                \/ LockClass(n) \/ Abandon(n) \/ WaitExpires(n)
      PROVE  Goal
  <2>1. Alive' = Alive /\ UNCHANGED <<paid, replicas, excess>>
    BY <1>9 DEF QueryPods, AwaitPodAge, SetNoExecuteTaint, Annotate, AwaitNode, LockClass, Abandon,
                WaitExpires, External, Alive, history
  <2>2. \A m \in Node : pc'[m] = "patch" <=> pc[m] = "patch"
    BY <1>0, <1>9 DEF QueryPods, AwaitPodAge, SetNoExecuteTaint, Annotate, AwaitNode, LockClass, Abandon,
                WaitExpires, Goto
  <2>3. Unpaid' = Unpaid
    BY <2>1, <2>2 DEF Unpaid
  <2> QED  BY <1>1, <2>1, <2>3
<1>10. CASE ScanSpawn
  <2>1. Alive' = Alive /\ UNCHANGED <<paid, replicas, excess>>
    BY <1>10 DEF ScanSpawn, cluster, Alive, history
  <2>2. Unpaid' = Unpaid
    BY <1>0, <1>10, <2>1 DEF ScanSpawn, Unpaid
  <2> QED  BY <1>1, <2>1, <2>2
<1>11. CASE UNCHANGED <<phase, paid, replicas, excess, pc>>
  BY <1>1, <1>11 DEF Alive, Unpaid
<1>12. CASE ScanAvoid \/ ReportStatus \/ UNCHANGED vars
  BY <1>11, <1>12 DEF ScanAvoid, ReportStatus, vars, Process, history
<1>13. ASSUME NEW n \in Node, SyncNode(n) \/ SyncPods(n) \/ BindPod(n) \/ EndPod(n) \/ SchedulePod(n)
       PROVE  Goal
  BY <1>11, <1>13 DEF SyncNode, SyncPods, BindPod, EndPod, SchedulePod, cluster, Process, history
<1> HIDE DEF Goal
<1> QED
  BY <1>2, <1>3, <1>4, <1>5, <1>6, <1>7, <1>8, <1>9, <1>10, <1>12, <1>13
     DEF Next, ScaleDownStep, Environment

\* The machines that the controllers delete without having been chosen are never
\* more than the second decrements and the overwritten increments.
THEOREM LossesExplained == Spec => []LostMachinesAreExplained
<1>1. Init => Types
  BY DEF Init, Types, Fresh, NodeState
<1>2. Init => LockHeld
  BY ScaleDownAssumption DEF Init, LockHeld
<1>3. Init => Accounted
  <2> SUFFICES ASSUME Init PROVE Accounted
    OBVIOUS
  <2>1. Alive = Node /\ Alive \cap paid = {} /\ Unpaid = {}
    BY DEF Init, Alive, Unpaid
  <2>2. Cardinality(Alive) = NodeCount /\ replicas = NodeCount /\ excess = 0
    BY <2>1, ScaleDownAssumption, FS_Interval DEF Init, Node
  <2>3. Allowance = 0
    BY <2>1, <2>2, FS_EmptySet DEF Allowance
  <2> QED  BY <2>2, <2>3, ScaleDownAssumption DEF Accounted
<1>4. Accounted => LostMachinesAreExplained
  BY DEF Accounted, LostMachinesAreExplained
<1> QED
  BY <1>1, <1>2, <1>3, <1>4, TypesInductive, LockInductive, AccountInductive, PTL DEF Spec
=============================================================================
