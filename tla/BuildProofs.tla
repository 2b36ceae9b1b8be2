----------------------------- MODULE BuildProofs -----------------------------
(***************************************************************************)
(* Theorems about the builds that ci-operators share, for every number of  *)
(* ci-operators, of attempts and of builds.                                *)
(***************************************************************************)
EXTENDS Build, TLAPS

\* What handleBuild returns for the failure of a build, not for a reason of its
\* own.
Excuse == {"Infra", "Deleted", "Lost"}

\* A uid is given once, and only the build that is there has one.
Uids ==
    /\ build.uid \in 0..uids
    /\ build.uid = 0 => build = Nothing
    /\ build.uid # 0 => build.phase \in Phase

\* What a ci-operator is about to delete was a build.
Marked == \A o \in Op : pc[o] = "delete" => got[o] \in 1..uids

\* What is being deleted, or is about to be, failed because of the infrastructure.
Doomed ==
    /\ build.deleting => build.phase = "Infra"
    /\ \A o \in Op : pc[o] = "delete" /\ build.uid = got[o] => build.phase = "Infra"

\* A complete build that was announced or reported is the one that is there.
Kept ==
    /\ \A o \in Op : \A i \in 1..Len(queue[o]) :
          queue[o][i].phase = "Complete" => build.phase = "Complete"
    /\ \A o \in Op : result[o] = "ok" => build.phase = "Complete"

\* What o's watch has still to deliver is about the build that is there, and the end
\* of the build is the one it had.
UpToDate(o) ==
    \A i \in 1..Len(queue[o]) :
        /\ queue[o][i].uid = build.uid /\ queue[o][i].phase \in Phase
        /\ Terminated(queue[o][i]) => queue[o][i].phase = build.phase

\* o is going to try again, has a reason to return that is its own, or knows about
\* the build that is there and is not going to mistake its failure for another's.
InCharge(o) ==
    \/ pc[o] \in {"create", "delete", "gone"}
    \/ pc[o] = "returned" /\ result[o] \notin Excuse
    \/ /\ build # Nothing
       /\ \/ pc[o] = "list" /\ queue[o] = <<>>
          \/ pc[o] = "watch" /\ UpToDate(o)
          \/ /\ pc[o] = "failed"
             /\ err[o] \in {"Legit", "Overdue"} \/ (err[o] = "Infra" /\ build.phase = "Infra")

\* Somebody is in charge, and whoever has asked for a deletion stays so.
Charge ==
    /\ \A o \in Op : pc[o] \in {"create", "list"} => queue[o] = <<>>
    /\ \E o \in Op : InCharge(o)
    /\ build.deleting =>
          \E o \in Op : pc[o] = "gone" \/ (pc[o] = "returned" /\ result[o] \notin Excuse)

\* The types, with the uids.
TypeInv == TypeOK /\ Uids /\ Marked

-----------------------------------------------------------------------------
(* The versions of the build and the watches *)

\* The API server's object, as a record.
LEMMA ObjectShape ==
    ASSUME NEW b \in Object
    PROVE  /\ b.uid \in 0..MaxBuilds /\ b.phase \in Phase \cup {"None"} /\ b.deleting \in BOOLEAN
           /\ b = [uid |-> b.uid, phase |-> b.phase, deleting |-> b.deleting]
           /\ [b EXCEPT !.deleting = TRUE] \in Object
           /\ [b EXCEPT !.deleting = TRUE].uid = b.uid
           /\ [b EXCEPT !.deleting = TRUE].phase = b.phase
           /\ [b EXCEPT !.deleting = TRUE].deleting
  BY DEF Object, Phase

\* A build in another phase is the same build.
LEMMA OtherPhase ==
    ASSUME NEW b \in Object, NEW f \in Phase
    PROVE  /\ [b EXCEPT !.phase = f] \in Object
           /\ [b EXCEPT !.phase = f].uid = b.uid
           /\ [b EXCEPT !.phase = f].phase = f
           /\ [b EXCEPT !.phase = f].deleting = b.deleting
  BY DEF Object, Phase

\* There may be nothing.
LEMMA NothingShape ==
    /\ Nothing \in Object /\ Nothing.uid = 0 /\ Nothing.phase = "None" /\ ~Nothing.deleting
  BY BuildAssumption DEF Nothing, Object

\* What a watch has to deliver after a publication.
LEMMA Published ==
    ASSUME NEW b \in Object, queue \in [Op -> Seq(Object)], Publish(b)
    PROVE  /\ build' = b
           /\ queue' \in [Op -> Seq(Object)]
           /\ \A o \in Op :
                 \/ queue'[o] = queue[o] /\ pc[o] # "watch"
                 \/ queue'[o] = Append(queue[o], b) /\ pc[o] = "watch"
  <1> USE DEF Publish
  <1>1. ASSUME NEW o \in Op
        PROVE  /\ queue'[o] \in Seq(Object)
               /\ \/ queue'[o] = queue[o] /\ pc[o] # "watch"
                  \/ queue'[o] = Append(queue[o], b) /\ pc[o] = "watch"
    BY <1>1
  <1>2. QED BY <1>1

\* What the first and the other events of a watch are.
LEMMA Events ==
    ASSUME NEW S, NEW q \in Seq(S), q # <<>>
    PROVE  /\ Head(q) \in S /\ Tail(q) \in Seq(S) /\ Len(Tail(q)) = Len(q) - 1
           /\ 1 \in 1..Len(q) /\ Head(q) = q[1]
           /\ \A i \in 1..Len(Tail(q)) : i + 1 \in 1..Len(q) /\ Tail(q)[i] = q[i + 1]
  OBVIOUS

\* A publication adds its version to what a watch delivers, and nothing else.
LEMMA Appended ==
    ASSUME NEW S, NEW q \in Seq(S), NEW b \in S
    PROVE  \A i \in 1..Len(Append(q, b)) :
               (i \in 1..Len(q) /\ Append(q, b)[i] = q[i]) \/ Append(q, b)[i] = b
  OBVIOUS

-----------------------------------------------------------------------------
(* The types *)

\* A ci-operator is about to delete a build because it was, or because it has just
\* read the failure of that build.
LEMMA MarkedSteps ==
    ASSUME TypeOK, [Next]_vars, NEW o \in Op, pc'[o] = "delete"
    PROVE  \/ pc[o] = "delete" /\ got'[o] = got[o]
           \/ pc[o] # "delete" /\ build.phase = "Infra" /\ got'[o] = build.uid /\ build' = build
  <1> USE DEF TypeOK
  <1>e. ASSUME NEW q \in Op, NEW b, Evaluate(q, b)
        PROVE  \/ pc' = [pc EXCEPT ![q] = "watch"] \/ pc' = [pc EXCEPT ![q] = "failed"]
               \/ pc' = [pc EXCEPT ![q] = "returned"]
    BY <1>e DEF Evaluate, Go, Return
  <1>1. ASSUME NEW q \in Op, List(q) \/ Deliver(q) \/ Relist(q)
        PROVE  pc[o] = "delete" /\ got'[o] = got[o]
    <2>1. PICK b : Evaluate(q, b)
      BY <1>1 DEF List, Deliver, Relist
    <2>2. UNCHANGED got
      BY <1>1 DEF List, Deliver, Relist
    <2>3. QED BY <2>1, <2>2, <1>e
  <1>2. ASSUME NEW q \in Op, HandleFailedBuild(q)
        PROVE  \/ pc[o] = "delete" /\ got'[o] = got[o]
               \/ pc[o] # "delete" /\ build.phase = "Infra" /\ got'[o] = build.uid /\ build' = build
    BY <1>2 DEF HandleFailedBuild, object, Go, Return
  <1>3. ASSUME NEW q \in Op, Create(q) \/ PendingCheck(q) \/ Delete(q) \/ AwaitDeletion(q)
                             \/ DeletionTimesOut(q) \/ Cancel(q)
        PROVE  pc[o] = "delete" /\ got'[o] = got[o]
    BY <1>3 DEF Create, PendingCheck, Delete, AwaitDeletion, Again, DeletionTimesOut, Cancel, Go, Return
  <1>4. ASSUME Environment \/ UNCHANGED vars PROVE pc[o] = "delete" /\ got'[o] = got[o]
    BY <1>4 DEF Environment, StartBuild, EndBuild, RemoveBuild, PassTimeout, vars
  <1>5. QED BY <1>1, <1>2, <1>3, <1>4 DEF Next, Operator, Wait, Retry

\* Every step of the ci-operators, of the watches and of the build controller keeps the types.
LEMMA TypeInductive == TypeInv /\ [Next]_vars => TypeInv'
  <1> SUFFICES ASSUME TypeInv, [Next]_vars PROVE TypeInv'
    OBVIOUS
  <1> USE DEF TypeInv, TypeOK, Uids
  <1>0. build \in Object /\ uids \in Nat /\ uids <= MaxBuilds /\ MaxBuilds \in Nat /\ Attempts \in Nat
        /\ queue \in [Op -> Seq(Object)]
    BY BuildAssumption
  <1>e. ASSUME NEW o \in Op, NEW b \in Object, Evaluate(o, b)
        PROVE  /\ pc' \in [Op -> {"create", "list", "watch", "failed", "delete", "gone", "returned"}]
               /\ ret' \in [Op -> Object] /\ check' \in [Op -> 0..MaxBuilds]
               /\ err' \in [Op -> Error \cup {"none"}]
               /\ result' \in [Op -> Error \cup {"none", "ok"}]
    <2>1. b.uid \in 0..MaxBuilds
      BY ObjectShape
    <2>2. pc' = [pc EXCEPT ![o] = "watch"] \/ pc' = [pc EXCEPT ![o] = "failed"]
          \/ pc' = [pc EXCEPT ![o] = "returned"]
      BY <1>e DEF Evaluate, Go, Return
    <2>3. pc' \in [Op -> {"create", "list", "watch", "failed", "delete", "gone", "returned"}]
      BY <2>2
    <2>4. ret' \in [Op -> Object]
      BY <1>e DEF Evaluate
    <2>5. check' \in [Op -> 0..MaxBuilds]
      BY <1>e, <2>1 DEF Evaluate
    <2>6. PICK e \in Error : err' = err \/ err' = [err EXCEPT ![o] = e]
      BY <1>e DEF Evaluate, Error
    <2>7. err' \in [Op -> Error \cup {"none"}]
      BY <2>6
    <2>8. result' = result \/ result' = [result EXCEPT ![o] = "ok"]
      BY <1>e DEF Evaluate, Return
    <2>9. result' \in [Op -> Error \cup {"none", "ok"}]
      BY <2>8
    <2>10. QED BY <2>3, <2>4, <2>5, <2>7, <2>9
  <1>1. ASSUME NEW o \in Op, Create(o) PROVE (TypeOK /\ Uids)'
    <2>1. CASE UNCHANGED <<build, uids, queue>>
      BY <1>1, <2>1, <1>0 DEF Create, Go
    <2> DEFINE b == [uid |-> uids + 1, phase |-> "Pending", deleting |-> FALSE]
    <2>2. CASE uids < MaxBuilds /\ uids' = uids + 1 /\ Publish(b)
      <3>1. uids + 1 \in 0..MaxBuilds /\ uids + 1 # 0
        BY <2>2, <1>0
      <3>2. b \in Object /\ b.uid = uids + 1 /\ b.phase \in Phase
        BY <3>1 DEF Object, Phase
      <3> HIDE DEF b
      <3>3. build' = b /\ queue' \in [Op -> Seq(Object)]
        BY <3>2, <2>2, <1>0, Published
      <3>4. overdue' \in 0..uids'
        BY <1>1, <2>2, <1>0 DEF Create
      <3>5. pc' \in [Op -> {"create", "list", "watch", "failed", "delete", "gone", "returned"}]
        BY <1>1 DEF Create, Go
      <3>6. UNCHANGED <<attempt, ret, check, got, err, result>>
        BY <1>1 DEF Create
      <3>7. QED BY <2>2, <3>1, <3>2, <3>3, <3>4, <3>5, <3>6
    <2>3. QED BY <1>1, <2>1, <2>2 DEF Create
  <1>2. ASSUME NEW o \in Op, List(o) PROVE (TypeOK /\ Uids)'
    <2>1. Evaluate(o, build)
      BY <1>2 DEF List
    <2>2. QED BY <1>2, <1>0, <2>1, <1>e DEF List, object
  <1>3. ASSUME NEW o \in Op, Deliver(o) PROVE (TypeOK /\ Uids)'
    <2>1. Head(queue[o]) \in Object /\ Tail(queue[o]) \in Seq(Object)
      BY <1>3, <1>0, Events DEF Deliver
    <2>2. QED BY <1>3, <1>0, <2>1, <1>e DEF Deliver, object
  <1>4. ASSUME NEW o \in Op, Relist(o) PROVE (TypeOK /\ Uids)'
    <2>1. Evaluate(o, build)
      BY <1>4 DEF Relist
    <2>2. QED BY <1>4, <1>0, <2>1, <1>e DEF Relist, object
  <1>5. ASSUME NEW o \in Op, PendingCheck(o) PROVE (TypeOK /\ Uids)'
    <2>1. /\ UNCHANGED <<build, uids, overdue, attempt, queue, ret, got, result>>
          /\ pc' = pc \/ pc' = [pc EXCEPT ![o] = "failed"]
          /\ check' = check \/ check' = [check EXCEPT ![o] = 0]
          /\ err' = err \/ err' = [err EXCEPT ![o] = "Overdue"]
      BY <1>5 DEF PendingCheck, object, Go
    <2>2. check' \in [Op -> 0..MaxBuilds]
      <3>1. check \in [Op -> 0..MaxBuilds] /\ 0 \in 0..MaxBuilds
        BY <1>0
      <3>2. QED BY <2>1, <3>1
    <2>3. QED BY <2>1, <2>2 DEF Error
  <1>6. ASSUME NEW o \in Op, HandleFailedBuild(o) PROVE (TypeOK /\ Uids)'
    <2>1. build.uid \in 0..MaxBuilds /\ (build.phase = "Infra" => build.uid \in 1..uids)
      BY <1>0, ObjectShape, NothingShape
    <2>2. QED BY <1>6, <1>0, <2>1 DEF HandleFailedBuild, object, watching, Go, Return, Error
  <1>m. ASSUME NEW o \in Op, pc[o] = "delete" PROVE got[o] # 0
    BY <1>m DEF Marked
  <1>7. ASSUME NEW o \in Op, Delete(o) PROVE (TypeOK /\ Uids)'
    <2>1. CASE UNCHANGED <<build, queue>>
      BY <1>7, <2>1, <1>0 DEF Delete, Go
    <2> DEFINE b == [build EXCEPT !.deleting = TRUE]
    <2>2. CASE build.uid = got[o] /\ ~build.deleting /\ Publish(b)
      <3>1. b \in Object /\ b.uid = build.uid /\ b.phase = build.phase
        BY <1>0, ObjectShape
      <3>2. build.uid # 0
        BY <1>7, <2>2, <1>m DEF Delete
      <3> HIDE DEF b
      <3>3. build' = b /\ queue' \in [Op -> Seq(Object)]
        BY <3>1, <2>2, <1>0, Published
      <3>4. QED BY <1>7, <2>2, <3>1, <3>2, <3>3, <1>0 DEF Delete, Go
    <2>3. QED BY <1>7, <2>1, <2>2 DEF Delete
  <1>8. ASSUME NEW o \in Op, AwaitDeletion(o) PROVE (TypeOK /\ Uids)'
    <2>1. attempt' = attempt \/ (attempt[o] < Attempts /\ attempt' = [attempt EXCEPT ![o] = attempt[o] + 1])
      BY <1>8 DEF AwaitDeletion, Again
    <2>2. attempt' \in [Op -> 1..Attempts]
      <3>1. attempt \in [Op -> 1..Attempts] /\ attempt[o] \in 1..Attempts
        OBVIOUS
      <3>2. attempt[o] < Attempts => attempt[o] + 1 \in 1..Attempts
        BY <3>1, <1>0
      <3>3. QED BY <2>1, <3>1, <3>2
    <2>3. /\ pc' = [pc EXCEPT ![o] = "create"] \/ pc' = [pc EXCEPT ![o] = "returned"]
          /\ result' = result \/ result' = [result EXCEPT ![o] = "Exhausted"]
      BY <1>8 DEF AwaitDeletion, Again, Go, Return
    <2>4. /\ queue' \in [Op -> Seq(Object)] /\ ret' \in [Op -> Object]
          /\ check' \in [Op -> 0..MaxBuilds] /\ got' \in [Op -> 0..MaxBuilds]
      <3>1. check \in [Op -> 0..MaxBuilds] /\ got \in [Op -> 0..MaxBuilds] /\ 0 \in 0..MaxBuilds
        BY <1>0
      <3>2. QED BY <1>8, <1>0, <3>1, NothingShape DEF AwaitDeletion, Again
    <2>5. err' \in [Op -> Error \cup {"none"}]
      BY <1>8 DEF AwaitDeletion, Again
    <2>6. UNCHANGED <<build, uids, overdue>>
      BY <1>8 DEF AwaitDeletion, object
    <2>7. QED BY <2>2, <2>3, <2>4, <2>5, <2>6 DEF Error
  <1>9. ASSUME NEW o \in Op, DeletionTimesOut(o) \/ Cancel(o) PROVE (TypeOK /\ Uids)'
    BY <1>9, <1>0 DEF DeletionTimesOut, Cancel, object, watching, Return, Error
  <1>10. ASSUME StartBuild \/ EndBuild PROVE (TypeOK /\ Uids)'
    <2>1. PICK phase \in Phase : Publish([build EXCEPT !.phase = phase]) /\ build.phase \in {"Pending", "Running"}
      BY <1>10 DEF StartBuild, EndBuild, Phase
    <2> DEFINE b == [build EXCEPT !.phase = phase]
    <2>2. b \in Object /\ b.uid = build.uid /\ b.phase = phase
      BY <1>0, OtherPhase
    <2>3. build.uid # 0
      BY <2>1, NothingShape
    <2>4. Publish(b)
      BY <2>1
    <2> HIDE DEF b
    <2>5. build' = b /\ queue' \in [Op -> Seq(Object)]
      BY <2>2, <2>4, <1>0, Published
    <2>6. QED BY <1>10, <2>2, <2>3, <2>5, <1>0 DEF StartBuild, EndBuild
  <1>11. ASSUME RemoveBuild PROVE (TypeOK /\ Uids)'
    <2>1. build' = Nothing /\ queue' \in [Op -> Seq(Object)]
      BY <1>11, <1>0, NothingShape, Published DEF RemoveBuild
    <2>2. QED BY <1>11, <2>1, <1>0, NothingShape DEF RemoveBuild
  <1>12. ASSUME PassTimeout PROVE (TypeOK /\ Uids)'
    BY <1>12, <1>0 DEF PassTimeout, watching
  <1>13. ASSUME UNCHANGED vars PROVE (TypeOK /\ Uids)'
    BY <1>13 DEF vars
  <1>14. TypeOK' /\ Uids'
    BY <1>1, <1>2, <1>3, <1>4, <1>5, <1>6, <1>7, <1>8, <1>9, <1>10, <1>11, <1>12, <1>13
       DEF Next, Environment, Operator, Wait, Retry
  <1>15. Marked'
    <2> SUFFICES ASSUME NEW o \in Op, pc'[o] = "delete" PROVE got'[o] \in 1..uids'
      BY DEF Marked
    <2>1. uids' \in Nat /\ (uids' = uids \/ uids' = uids + 1)
      BY <1>0, <1>14 DEF Next, Environment, Operator, Wait, Retry, Create, List, Deliver, Relist,
         PendingCheck, HandleFailedBuild, Delete, AwaitDeletion, DeletionTimesOut, Cancel,
         StartBuild, EndBuild, RemoveBuild, PassTimeout, object, vars
    <2>2. CASE pc[o] = "delete" /\ got'[o] = got[o]
      BY <2>1, <2>2, <1>0 DEF Marked
    <2>3. CASE build.phase = "Infra" /\ got'[o] = build.uid
      BY <2>1, <2>3, <1>0, NothingShape
    <2>4. QED BY <2>2, <2>3, MarkedSteps
  <1>16. QED BY <1>14, <1>15

\* The model's state has its types: the queues, versions and uids of all the
\* ci-operators stay within their bounds.
THEOREM TypeCorrect == Spec => []TypeInv
  <1>1. Init => TypeInv
    BY BuildAssumption, NothingShape DEF Init, TypeInv, TypeOK, Uids, Marked
  <1>2. QED BY <1>1, TypeInductive, PTL DEF Spec, SafetySpec

-----------------------------------------------------------------------------
(* What is deleted, and what is kept *)

\* What a step makes of the build: only one that failed because of the
\* infrastructure is deleted, and only one that has not ended changes.
LEMMA BuildSteps ==
    ASSUME TypeInv, Doomed, [Next]_vars
    PROVE  \/ build' = build
           \/ /\ build = Nothing /\ build'.uid = uids + 1
              /\ build'.phase = "Pending" /\ ~build'.deleting
           \/ /\ build.phase = "Infra" /\ build'.phase = "Infra" /\ build'.uid = build.uid
           \/ /\ build.phase \in {"Pending", "Running"} /\ build'.phase \in Phase
              /\ build'.uid = build.uid /\ ~build.deleting /\ ~build'.deleting
           \/ build.phase = "Infra" /\ build.deleting /\ build' = Nothing
  <1>0. build \in Object
    BY DEF TypeInv, TypeOK
  <1>1. ASSUME NEW o \in Op, Create(o)
        PROVE  \/ build' = build
               \/ /\ build = Nothing /\ build'.uid = uids + 1
                  /\ build'.phase = "Pending" /\ ~build'.deleting
    <2>1. CASE UNCHANGED <<build, uids, queue>>
      BY <2>1
    <2>2. CASE build = Nothing /\ build' = [uid |-> uids + 1, phase |-> "Pending", deleting |-> FALSE]
      BY <2>2
    <2>3. QED BY <1>1, <2>1, <2>2 DEF Create, Publish
  <1>2. ASSUME NEW o \in Op, Delete(o)
        PROVE  \/ build' = build
               \/ /\ build.phase = "Infra" /\ build'.phase = "Infra" /\ build'.uid = build.uid
    <2>1. CASE build' = build
      BY <2>1
    <2>2. CASE build.uid = got[o] /\ build' = [build EXCEPT !.deleting = TRUE]
      <3>1. build.phase = "Infra"
        BY <1>2, <2>2 DEF Delete, Doomed
      <3>2. QED BY <2>2, <3>1, <1>0, ObjectShape
    <2>3. QED BY <1>2, <2>1, <2>2 DEF Delete, Publish
  <1>3. ASSUME StartBuild \/ EndBuild
        PROVE  /\ build.phase \in {"Pending", "Running"} /\ build'.phase \in Phase
               /\ build'.uid = build.uid /\ ~build.deleting /\ ~build'.deleting
    <2>1. PICK f \in Phase : build' = [build EXCEPT !.phase = f] /\ build.phase \in {"Pending", "Running"}
      BY <1>3 DEF StartBuild, EndBuild, Phase, Publish
    <2>2. ~build.deleting
      BY <2>1 DEF Doomed
    <2>3. QED BY <2>1, <2>2, <1>0, OtherPhase
  <1>4. ASSUME RemoveBuild PROVE build.phase = "Infra" /\ build.deleting /\ build' = Nothing
    BY <1>4 DEF RemoveBuild, Publish, Doomed
  <1>5. ASSUME NEW o \in Op, List(o) \/ Deliver(o) \/ Relist(o) \/ PendingCheck(o)
               \/ HandleFailedBuild(o) \/ AwaitDeletion(o) \/ DeletionTimesOut(o) \/ Cancel(o)
        PROVE  build' = build
    BY <1>5 DEF List, Deliver, Relist, PendingCheck, HandleFailedBuild, AwaitDeletion,
       DeletionTimesOut, Cancel, object
  <1>6. ASSUME PassTimeout \/ UNCHANGED vars PROVE build' = build
    BY <1>6 DEF PassTimeout, vars
  <1>7. QED BY <1>1, <1>2, <1>3, <1>4, <1>5, <1>6 DEF Next, Environment, Operator, Wait, Retry

\* Whatever is being deleted has failed because of the infrastructure.
LEMMA DoomedInductive == TypeInv /\ Doomed /\ [Next]_vars => Doomed'
  <1> SUFFICES ASSUME TypeInv, Doomed, [Next]_vars PROVE Doomed'
    OBVIOUS
  <1>0. uids \in Nat /\ build.uid \in 0..uids
    BY BuildAssumption DEF TypeInv, TypeOK, Uids
  <1>1. build'.deleting => build'.phase = "Infra"
    BY BuildSteps, NothingShape DEF Doomed
  <1>2. ASSUME NEW o \in Op, pc'[o] = "delete", build'.uid = got'[o] PROVE build'.phase = "Infra"
    <2>1. CASE pc[o] = "delete" /\ got'[o] = got[o]
      <3>1. got[o] \in 1..uids
        BY <2>1 DEF TypeInv, Marked
      <3>2. build'.uid # uids + 1 /\ build'.uid # 0
        BY <1>0, <3>1, <1>2, <2>1
      <3>3. build'.uid = build.uid
        BY <3>2, BuildSteps, NothingShape
      <3>4. build.phase = "Infra"
        BY <1>2, <2>1, <3>3 DEF Doomed
      <3>5. QED BY <3>2, <3>4, BuildSteps, NothingShape
    <2>2. CASE build.phase = "Infra" /\ build' = build
      BY <2>2
    <2>3. QED BY <1>2, <2>1, <2>2, MarkedSteps DEF TypeInv
  <1>3. QED BY <1>1, <1>2 DEF Doomed

\* The deletion that handleFailedBuild asks for can only hit a build that failed
\* because of the infrastructure, however late it is: the precondition on the uid
\* protects the build that has replaced the one it has read.
THEOREM OnlyFailuresDeleted == Spec => OnlyFailuresAreDeleted
  <1>1. Init => TypeInv /\ Doomed
    BY BuildAssumption, NothingShape DEF Init, TypeInv, TypeOK, Uids, Marked, Doomed
  <1>2. TypeInv /\ Doomed /\ [Next]_vars =>
            [(build'.deleting /\ ~build.deleting) => build.phase = "Infra"]_vars
    BY BuildSteps, NothingShape DEF vars
  <1>3. QED BY <1>1, <1>2, TypeInductive, DoomedInductive, PTL
            DEF Spec, SafetySpec, OnlyFailuresAreDeleted

\* What a watch has to deliver after a step was there before, or is the version
\* that the step has published.
LEMMA QueueSteps ==
    ASSUME TypeOK, [Next]_vars, NEW o \in Op, NEW i \in 1..Len(queue'[o])
    PROVE  \/ \E j \in 1..Len(queue[o]) : queue'[o][i] = queue[o][j]
           \/ queue'[o][i] = build'
  <1>0. build \in Object /\ queue \in [Op -> Seq(Object)]
    BY DEF TypeOK
  <1>p. ASSUME NEW b \in Object, Publish(b)
        PROVE  \/ \E j \in 1..Len(queue[o]) : queue'[o][i] = queue[o][j]
               \/ queue'[o][i] = build'
    <2>1. build' = b /\ (queue'[o] = queue[o] \/ queue'[o] = Append(queue[o], b))
      BY <1>0, <1>p, Published
    <2>2. queue[o] \in Seq(Object)
      BY <1>0
    <2>3. CASE queue'[o] = queue[o]
      BY <2>3
    <2>4. CASE queue'[o] = Append(queue[o], b)
      <3>1. \A k \in 1..Len(Append(queue[o], b)) :
               (k \in 1..Len(queue[o]) /\ Append(queue[o], b)[k] = queue[o][k]) \/ Append(queue[o], b)[k] = b
        BY <2>2, Appended
      <3>2. QED BY <2>1, <2>4, <3>1
    <2>5. QED BY <2>1, <2>3, <2>4
  <1>u. ASSUME queue'[o] = queue[o]
        PROVE  \E j \in 1..Len(queue[o]) : queue'[o][i] = queue[o][j]
    BY <1>u
  <1>1. ASSUME NEW q \in Op, Create(q)
        PROVE  \/ queue'[o] = queue[o]
               \/ \E b \in Object : Publish(b)
    <2>1. CASE uids < MaxBuilds /\ Publish([uid |-> uids + 1, phase |-> "Pending", deleting |-> FALSE])
      <3>1. [uid |-> uids + 1, phase |-> "Pending", deleting |-> FALSE] \in Object
        BY <2>1, BuildAssumption DEF TypeOK, Object, Phase
      <3>2. QED BY <2>1, <3>1
    <2>2. QED BY <1>1, <2>1 DEF Create
  <1>2. ASSUME NEW q \in Op, Deliver(q)
        PROVE  \E j \in 1..Len(queue[o]) : queue'[o][i] = queue[o][j]
    <2>1. CASE q = o
      <3>1. queue[o] \in Seq(Object) /\ queue[o] # <<>> /\ queue'[o] = Tail(queue[o])
        BY <1>2, <2>1, <1>0 DEF Deliver
      <3>2. QED BY <3>1, Events
    <2>2. CASE q # o
      BY <1>2, <2>2, <1>0, <1>u DEF Deliver
    <2>3. QED BY <2>1, <2>2
  <1>3. ASSUME NEW q \in Op, Relist(q) \/ AwaitDeletion(q)
        PROVE  queue'[o] = queue[o]
    <2>1. queue' = [queue EXCEPT ![q] = <<>>]
      BY <1>3 DEF Relist, AwaitDeletion, Again
    <2>2. CASE q = o
      <3>1. Len(queue'[o]) = 0
        BY <2>1, <2>2, <1>0
      <3>2. QED BY <3>1
    <2>3. CASE q # o
      BY <2>1, <2>3, <1>0
    <2>4. QED BY <2>2, <2>3
  <1>4. ASSUME NEW q \in Op, Delete(q)
        PROVE  queue'[o] = queue[o] \/ \E b \in Object : Publish(b)
    BY <1>4, <1>0, ObjectShape DEF Delete
  <1>5. ASSUME StartBuild \/ EndBuild PROVE \E b \in Object : Publish(b)
    <2>1. PICK f \in Phase : Publish([build EXCEPT !.phase = f])
      BY <1>5 DEF StartBuild, EndBuild, Phase
    <2>2. QED BY <2>1, <1>0, OtherPhase
  <1>6. ASSUME RemoveBuild PROVE Publish(Nothing) /\ Nothing \in Object
    BY <1>6, NothingShape DEF RemoveBuild
  <1>7. ASSUME NEW q \in Op, List(q) \/ PendingCheck(q) \/ HandleFailedBuild(q)
                             \/ DeletionTimesOut(q) \/ Cancel(q)
        PROVE  queue'[o] = queue[o]
    BY <1>7 DEF List, PendingCheck, HandleFailedBuild, DeletionTimesOut, Cancel, watching
  <1>8. ASSUME PassTimeout \/ UNCHANGED vars PROVE queue'[o] = queue[o]
    BY <1>8 DEF PassTimeout, watching, vars
  <1>9. QED BY <1>p, <1>u, <1>1, <1>2, <1>3, <1>4, <1>5, <1>6, <1>7, <1>8
            DEF Next, Environment, Operator, Wait, Retry

\* handleBuild succeeds when its watch lists or delivers a complete build.
LEMMA SuccessSteps ==
    ASSUME TypeOK, [Next]_vars, NEW o \in Op, result'[o] = "ok"
    PROVE  \/ result[o] = "ok"
           \/ build' = build /\ build.phase = "Complete"
           \/ /\ build' = build /\ queue[o] # <<>> /\ Head(queue[o]).phase = "Complete"
  <1> USE DEF TypeOK
  <1>e. ASSUME NEW q \in Op, NEW b, Evaluate(q, b)
        PROVE  result'[o] = result[o] \/ (q = o /\ b.phase = "Complete")
    BY <1>e DEF Evaluate, Return
  <1>1. ASSUME NEW q \in Op, List(q) \/ Relist(q)
        PROVE  result'[o] = result[o] \/ (build' = build /\ build.phase = "Complete")
    BY <1>1, <1>e DEF List, Relist, object
  <1>2. ASSUME NEW q \in Op, Deliver(q)
        PROVE  \/ result'[o] = result[o]
               \/ build' = build /\ queue[o] # <<>> /\ Head(queue[o]).phase = "Complete"
    BY <1>2, <1>e DEF Deliver, object
  <1>3. ASSUME NEW q \in Op, Create(q) \/ PendingCheck(q) \/ Delete(q)
        PROVE  result'[o] = result[o]
    BY <1>3 DEF Create, PendingCheck, Delete
  <1>4. ASSUME NEW q \in Op, HandleFailedBuild(q) PROVE result'[o] = result[o] \/ result'[o] # "ok"
    <2>1. err[q] # "ok"
      BY DEF Error
    <2>2. \/ result' = result \/ result' = [result EXCEPT ![q] = "Lost"]
          \/ result' = [result EXCEPT ![q] = err[q]]
      BY <1>4 DEF HandleFailedBuild, Return
    <2>3. QED BY <2>1, <2>2
  <1>5. ASSUME NEW q \in Op, AwaitDeletion(q) \/ DeletionTimesOut(q) \/ Cancel(q)
        PROVE  result'[o] = result[o] \/ result'[o] # "ok"
    BY <1>5 DEF AwaitDeletion, Again, DeletionTimesOut, Cancel, Return
  <1>6. ASSUME Environment \/ UNCHANGED vars PROVE result'[o] = result[o]
    BY <1>6 DEF Environment, StartBuild, EndBuild, RemoveBuild, PassTimeout, vars
  <1>7. QED BY <1>1, <1>2, <1>3, <1>4, <1>5, <1>6 DEF Next, Operator, Wait, Retry

\* A complete build stays where it is.
LEMMA KeptInductive == TypeInv /\ Doomed /\ Kept /\ [Next]_vars => Kept'
  <1> SUFFICES ASSUME TypeInv, Doomed, Kept, [Next]_vars PROVE Kept'
    OBVIOUS
  <1>0. TypeOK
    BY DEF TypeInv
  <1>1. build.phase = "Complete" => build' = build
    BY BuildSteps, NothingShape
  <1>2. ASSUME NEW o \in Op, NEW i \in 1..Len(queue'[o]), queue'[o][i].phase = "Complete"
        PROVE  build'.phase = "Complete"
    BY <1>0, <1>1, <1>2, QueueSteps DEF Kept
  <1>3. ASSUME NEW o \in Op, result'[o] = "ok" PROVE build'.phase = "Complete"
    <2>1. queue[o] \in Seq(Object)
      BY <1>0 DEF TypeOK
    <2>2. queue[o] # <<>> /\ Head(queue[o]).phase = "Complete" => build.phase = "Complete"
      BY <2>1, Events DEF Kept
    <2>3. QED BY <1>0, <1>1, <1>3, <2>2, SuccessSteps DEF Kept
  <1>4. QED BY <1>2, <1>3 DEF Kept

\* When handleBuild returns success there is a complete build, and it stays there:
\* no ci-operator that handles an earlier failure takes it away.
THEOREM SuccessKept == Spec => []SuccessIsKept
  <1>1. Init => TypeInv /\ Doomed /\ Kept
    BY BuildAssumption, NothingShape DEF Init, TypeInv, TypeOK, Uids, Marked, Doomed, Kept
  <1>2. Kept => SuccessIsKept
    BY DEF Kept, SuccessIsKept
  <1>3. QED BY <1>1, <1>2, TypeInductive, DoomedInductive, KeptInductive, PTL DEF Spec, SafetySpec

-----------------------------------------------------------------------------
(* Who is in charge of the build *)

\* A ci-operator does not wait for events before its watch has begun.
LEMMA QuietInductive ==
    ASSUME TypeOK, [Next]_vars, \A o \in Op : pc[o] \in {"create", "list"} => queue[o] = <<>>,
           NEW o \in Op, pc'[o] \in {"create", "list"}
    PROVE  queue'[o] = <<>>
  <1> USE DEF TypeOK
  <1>0. queue \in [Op -> Seq(Object)]
    OBVIOUS
  <1>p. ASSUME NEW b, Publish(b), pc[o] # "watch" PROVE queue'[o] = queue[o]
    BY <1>p DEF Publish
  <1>e. ASSUME NEW q \in Op, NEW b, Evaluate(q, b) PROVE q # o /\ pc'[o] = pc[o]
    BY <1>e DEF Evaluate, Go, Return
  <1>1. ASSUME NEW q \in Op, List(q) \/ Deliver(q) \/ Relist(q) PROVE queue'[o] = <<>>
    BY <1>1, <1>e DEF List, Deliver, Relist
  <1>2. ASSUME NEW q \in Op, Create(q) PROVE queue'[o] = <<>>
    <2>1. pc[o] \in {"create", "list"}
      BY <1>2 DEF Create, Go
    <2>2. QED BY <1>2, <2>1, <1>p DEF Create
  <1>3. ASSUME NEW q \in Op, Delete(q) PROVE queue'[o] = <<>>
    <2>1. pc[o] \in {"create", "list"}
      BY <1>3 DEF Delete, Go
    <2>2. QED BY <1>3, <2>1, <1>p DEF Delete
  <1>4. ASSUME NEW q \in Op, AwaitDeletion(q) PROVE queue'[o] = <<>>
    BY <1>4 DEF AwaitDeletion, Again, Go, Return
  <1>5. ASSUME NEW q \in Op, PendingCheck(q) \/ HandleFailedBuild(q) \/ DeletionTimesOut(q) \/ Cancel(q)
        PROVE  queue'[o] = <<>>
    BY <1>5 DEF PendingCheck, HandleFailedBuild, DeletionTimesOut, Cancel, Go, Return, watching
  <1>6. ASSUME StartBuild \/ EndBuild \/ RemoveBuild PROVE queue'[o] = <<>>
    BY <1>6, <1>p DEF StartBuild, EndBuild, RemoveBuild
  <1>7. ASSUME PassTimeout \/ UNCHANGED vars PROVE queue'[o] = <<>>
    BY <1>7 DEF PassTimeout, watching, vars
  <1>8. QED BY <1>1, <1>2, <1>3, <1>4, <1>5, <1>6, <1>7 DEF Next, Environment, Operator, Wait, Retry

\* A ci-operator that has asked for a deletion waits for it to be completed, or
\* returns with a reason of its own.
LEMMA DeleterStays ==
    ASSUME TypeOK, [Next]_vars, build # Nothing, NEW o \in Op,
           pc[o] = "gone" \/ (pc[o] = "returned" /\ result[o] \notin Excuse)
    PROVE  pc'[o] = "gone" \/ (pc'[o] = "returned" /\ result'[o] \notin Excuse)
  <1> USE DEF TypeOK, Excuse
  <1>e. ASSUME NEW q \in Op, NEW b, Evaluate(q, b), q # o PROVE pc'[o] = pc[o] /\ result'[o] = result[o]
    BY <1>e DEF Evaluate, Go, Return
  <1>1. ASSUME NEW q \in Op, List(q) \/ Deliver(q) \/ Relist(q)
        PROVE  pc'[o] = pc[o] /\ result'[o] = result[o]
    BY <1>1, <1>e DEF List, Deliver, Relist
  <1>2. ASSUME NEW q \in Op, Create(q) \/ PendingCheck(q) \/ HandleFailedBuild(q) \/ Delete(q)
        PROVE  pc'[o] = pc[o] /\ result'[o] = result[o]
    BY <1>2 DEF Create, PendingCheck, HandleFailedBuild, Delete, Go, Return
  <1>3. ASSUME NEW q \in Op, DeletionTimesOut(q) \/ Cancel(q)
        PROVE  \/ pc'[o] = pc[o] /\ result'[o] = result[o]
               \/ pc'[o] = "returned" /\ result'[o] \notin Excuse
    BY <1>3 DEF DeletionTimesOut, Cancel, Return
  <1>4. ASSUME NEW q \in Op, AwaitDeletion(q) PROVE FALSE
    BY <1>4 DEF AwaitDeletion
  <1>5. ASSUME Environment \/ UNCHANGED vars PROVE pc'[o] = pc[o] /\ result'[o] = result[o]
    BY <1>5 DEF Environment, StartBuild, EndBuild, RemoveBuild, PassTimeout, vars
  <1>6. QED BY <1>1, <1>2, <1>3, <1>4, <1>5 DEF Next, Operator, Wait, Retry

\* As long as there is a build it is the same one, and if it has ended that is how.
LEMMA BuildStays ==
    ASSUME TypeInv, Doomed, [Next]_vars, build # Nothing, build' # Nothing
    PROVE  /\ build.uid # 0 /\ build'.uid = build.uid /\ build'.phase \in Phase
           /\ Terminated(build) => build'.phase = build.phase
  <1>1. build.uid # 0 /\ build.phase \in Phase
    BY DEF TypeInv, Uids
  <1>2. QED BY <1>1, BuildSteps DEF Terminated, Phase

\* A watch that delivers what is up to date goes on to do so.
LEMMA UpToDateStays ==
    ASSUME TypeInv, Doomed, [Next]_vars, build # Nothing, build' # Nothing,
           NEW o \in Op, UpToDate(o)
    PROVE  UpToDate(o)'
  <1> SUFFICES ASSUME NEW i \in 1..Len(queue'[o])
               PROVE  /\ queue'[o][i].uid = build'.uid /\ queue'[o][i].phase \in Phase
                      /\ Terminated(queue'[o][i]) => queue'[o][i].phase = build'.phase
    BY DEF UpToDate, Terminated
  <1>1. CASE queue'[o][i] = build'
    BY <1>1, BuildStays
  <1>2. ASSUME NEW j \in 1..Len(queue[o]), queue'[o][i] = queue[o][j]
        PROVE  /\ queue'[o][i].uid = build'.uid /\ queue'[o][i].phase \in Phase
               /\ Terminated(queue'[o][i]) => queue'[o][i].phase = build'.phase
    <2>1. /\ queue[o][j].uid = build.uid /\ queue[o][j].phase \in Phase
          /\ Terminated(queue[o][j]) => queue[o][j].phase = build.phase
      BY DEF UpToDate
    <2>2. QED BY <1>2, <2>1, BuildStays DEF Terminated
  <1>3. QED BY <1>1, <1>2, QueueSteps DEF TypeInv

\* The steps of the others, and of the build controller, leave a ci-operator where
\* it is.
LEMMA OthersLeaveInCharge ==
    ASSUME TypeInv, Doomed, [Next]_vars, NEW o \in Op, InCharge(o), build # Nothing => build' # Nothing,
           pc'[o] = pc[o], err'[o] = err[o], result'[o] = result[o],
           pc'[o] \in {"create", "list"} => queue'[o] = <<>>
    PROVE  InCharge(o)'
  <1>1. CASE pc[o] \in {"create", "delete", "gone"} \/ (pc[o] = "returned" /\ result[o] \notin Excuse)
    BY <1>1 DEF InCharge, Excuse
  <1>2. CASE build # Nothing /\ pc[o] = "list"
    BY <1>2 DEF InCharge
  <1>3. CASE build # Nothing /\ pc[o] = "watch" /\ UpToDate(o)
    BY <1>3, UpToDateStays DEF InCharge
  <1>4. CASE /\ build # Nothing /\ pc[o] = "failed"
             /\ err[o] \in {"Legit", "Overdue"} \/ (err[o] = "Infra" /\ build.phase = "Infra")
    <2>1. build.phase = "Infra" => build'.phase = "Infra"
      BY <1>4, BuildStays DEF Terminated
    <2>2. QED BY <1>4, <2>1 DEF InCharge
  <1>5. QED BY <1>1, <1>2, <1>3, <1>4 DEF InCharge

\* A ci-operator that lists or is told of the build that is there stays in charge
\* until it returns with success or with a failure of its own.
LEMMA EvaluateInCharge ==
    ASSUME TypeOK, NEW o \in Op, NEW b, Evaluate(o, b), build # Nothing, build' = build,
           b # Nothing, b.phase \in Phase, Terminated(b) => b.phase = build.phase, UpToDate(o)'
    PROVE  InCharge(o)'
  <1> USE DEF TypeOK
  <1>1. CASE pc' = [pc EXCEPT ![o] = "watch"]
    <2>1. pc'[o] = "watch"
      BY <1>1
    <2>2. QED BY <2>1 DEF InCharge
  <1>2. CASE pc' = [pc EXCEPT ![o] = "returned"] /\ result' = [result EXCEPT ![o] = "ok"]
    <2>1. pc'[o] = "returned" /\ result'[o] = "ok"
      BY <1>2
    <2>2. QED BY <2>1 DEF InCharge, Excuse
  <1>3. CASE /\ b.phase \in {"Infra", "Legit"} /\ pc' = [pc EXCEPT ![o] = "failed"]
             /\ err' = [err EXCEPT ![o] = b.phase]
    <2>1. pc'[o] = "failed" /\ err'[o] = b.phase
      BY <1>3
    <2>2. b.phase = "Infra" => build'.phase = "Infra"
      BY DEF Terminated
    <2>3. QED BY <1>3, <2>1, <2>2 DEF InCharge
  <1>4. QED BY <1>1, <1>2, <1>3 DEF Evaluate, Go, Return

\* A step of its own leaves a ci-operator in charge.
LEMMA OwnStepInCharge ==
    ASSUME TypeInv, Doomed, [Next]_vars, NEW o \in Op, InCharge(o), Operator(o) \/ Relist(o) \/ Cancel(o),
           pc'[o] \in {"create", "list"} => queue'[o] = <<>>
    PROVE  InCharge(o)'
  <1> USE DEF TypeInv, TypeOK
  <1>0. queue[o] \in Seq(Object) /\ build \in Object
    OBVIOUS
  <1>1. CASE Create(o)
    <2>1. pc'[o] = "list"
      BY <1>1 DEF Create, Go
    <2>2. build' # Nothing
      <3>1. CASE UNCHANGED <<build, uids, queue>> /\ build # Nothing
        BY <3>1
      <3>2. CASE build' = [uid |-> uids + 1, phase |-> "Pending", deleting |-> FALSE]
        BY <3>2 DEF Nothing
      <3>3. QED BY <1>1, <3>1, <3>2 DEF Create, Publish
    <2>3. QED BY <2>1, <2>2 DEF InCharge
  <1>2. CASE List(o)
    <2>1. build # Nothing /\ queue[o] = <<>>
      BY <1>2 DEF List, InCharge
    <2>2. build' = build /\ queue' = queue /\ Evaluate(o, build)
      BY <1>2 DEF List, object
    <2>3. UpToDate(o)'
      <3>1. Len(queue'[o]) = 0
        BY <2>1, <2>2
      <3>2. QED BY <3>1 DEF UpToDate
    <2>4. build.phase \in Phase
      BY <2>1 DEF Uids
    <2>5. QED BY <2>1, <2>2, <2>3, <2>4, EvaluateInCharge
  <1>3. CASE Deliver(o)
    <2>1. build # Nothing /\ UpToDate(o) /\ queue[o] # <<>>
      BY <1>3 DEF Deliver, InCharge
    <2>2. build' = build /\ Evaluate(o, Head(queue[o]))
      BY <1>3 DEF Deliver, object
    <2>3. UpToDate(o)'
      BY <2>1, <2>2, UpToDateStays
    <2>4. 1 \in 1..Len(queue[o]) /\ Head(queue[o]) = queue[o][1]
      BY <1>0, <2>1, Events
    <2>5. /\ Head(queue[o]).uid = build.uid /\ Head(queue[o]).phase \in Phase
          /\ Terminated(Head(queue[o])) => Head(queue[o]).phase = build.phase
      BY <2>1, <2>4 DEF UpToDate
    <2>6. Head(queue[o]) # Nothing
      BY <2>1, <2>5, NothingShape DEF Uids
    <2>7. QED BY <2>1, <2>2, <2>3, <2>5, <2>6, EvaluateInCharge
  <1>4. CASE Relist(o)
    <2>1. build # Nothing
      BY <1>4 DEF Relist, InCharge
    <2>2. build' = build /\ Evaluate(o, build)
      BY <1>4 DEF Relist, object
    <2>3. UpToDate(o)'
      <3>1. Len(queue'[o]) = 0
        BY <1>4 DEF Relist
      <3>2. QED BY <3>1 DEF UpToDate
    <2>4. build.phase \in Phase
      BY <2>1 DEF Uids
    <2>5. QED BY <2>1, <2>2, <2>3, <2>4, EvaluateInCharge
  <1>5. CASE PendingCheck(o)
    <2>1. build # Nothing /\ build' = build
      BY <1>5 DEF PendingCheck, InCharge, object
    <2>2. CASE pc' = [pc EXCEPT ![o] = "failed"] /\ err' = [err EXCEPT ![o] = "Overdue"]
      <3>1. pc'[o] = "failed" /\ err'[o] = "Overdue"
        BY <2>2
      <3>2. QED BY <2>1, <3>1 DEF InCharge
    <2>3. CASE UNCHANGED <<pc, err>>
      BY <1>5, <2>1, <2>3, OthersLeaveInCharge DEF PendingCheck
    <2>4. QED BY <1>5, <2>2, <2>3 DEF PendingCheck, Go
  <1>6. CASE HandleFailedBuild(o)
    <2>1. build # Nothing /\ (err[o] \in {"Legit", "Overdue"} \/ (err[o] = "Infra" /\ build.phase = "Infra"))
      BY <1>6 DEF HandleFailedBuild, InCharge
    <2>2. CASE Return(o, err[o]) /\ build.phase # "Infra"
      <3>1. pc'[o] = "returned" /\ result'[o] = err[o]
        BY <2>2 DEF Return
      <3>2. err[o] \notin Excuse
        BY <2>1, <2>2 DEF Excuse
      <3>3. QED BY <3>1, <3>2 DEF InCharge, Excuse
    <2>3. CASE Go(o, "delete")
      BY <2>3 DEF Go, InCharge
    <2>4. QED BY <1>6, <2>1, <2>2, <2>3 DEF HandleFailedBuild, Terminated
  <1>7. CASE Delete(o)
    BY <1>7 DEF Delete, Go, InCharge
  <1>8. CASE AwaitDeletion(o)
    <2>1. CASE Go(o, "create")
      BY <2>1 DEF Go, InCharge
    <2>2. CASE Return(o, "Exhausted")
      BY <2>2 DEF Return, InCharge, Excuse
    <2>3. QED BY <1>8, <2>1, <2>2 DEF AwaitDeletion, Again
  <1>9. CASE DeletionTimesOut(o) \/ Cancel(o)
    <2>1. pc'[o] = "returned" /\ result'[o] \in {"Stuck", "Cancelled"}
      BY <1>9 DEF DeletionTimesOut, Cancel, Return
    <2>2. QED BY <2>1 DEF InCharge, Excuse
  <1>10. QED BY <1>1, <1>2, <1>3, <1>4, <1>5, <1>6, <1>7, <1>8, <1>9 DEF Operator, Wait, Retry

\* Every step is that of the ci-operator, or does not change where it is.
LEMMA OthersLeaveAlone ==
    ASSUME TypeOK, [Next]_vars, NEW o \in Op
    PROVE  \/ Operator(o) \/ Relist(o) \/ Cancel(o)
           \/ pc'[o] = pc[o] /\ err'[o] = err[o] /\ result'[o] = result[o]
  <1> USE DEF TypeOK
  <1>1. ASSUME NEW q \in Op, q # o, List(q) \/ Deliver(q) \/ Relist(q)
        PROVE  pc'[o] = pc[o] /\ err'[o] = err[o] /\ result'[o] = result[o]
    <2>1. PICK b : Evaluate(q, b)
      BY <1>1 DEF List, Deliver, Relist
    <2>2. QED BY <1>1, <2>1 DEF Evaluate, Go, Return
  <1>2. ASSUME NEW q \in Op, q # o, Create(q) \/ PendingCheck(q) \/ HandleFailedBuild(q) \/ Delete(q)
        PROVE  pc'[o] = pc[o] /\ err'[o] = err[o] /\ result'[o] = result[o]
    BY <1>2 DEF Create, PendingCheck, HandleFailedBuild, Delete, Go, Return, watching
  <1>3. ASSUME NEW q \in Op, q # o, AwaitDeletion(q) \/ DeletionTimesOut(q) \/ Cancel(q)
        PROVE  pc'[o] = pc[o] /\ err'[o] = err[o] /\ result'[o] = result[o]
    BY <1>3 DEF AwaitDeletion, Again, DeletionTimesOut, Cancel, Go, Return, watching
  <1>4. ASSUME Environment \/ UNCHANGED vars
        PROVE  pc'[o] = pc[o] /\ err'[o] = err[o] /\ result'[o] = result[o]
    BY <1>4 DEF Environment, StartBuild, EndBuild, RemoveBuild, PassTimeout, watching, vars
  <1>5. QED BY <1>1, <1>2, <1>3, <1>4 DEF Next, Operator, Wait, Retry

\* Somebody stays in charge of the build, or of its absence.
LEMMA ChargeInductive == TypeInv /\ Doomed /\ Charge /\ [Next]_vars => Charge'
  <1> SUFFICES ASSUME TypeInv, Doomed, Charge, [Next]_vars PROVE Charge'
    OBVIOUS
  <1>0. TypeOK
    BY DEF TypeInv
  <1>1. \A o \in Op : pc'[o] \in {"create", "list"} => queue'[o] = <<>>
    BY <1>0, QuietInductive DEF Charge
  <1>2. ASSUME build.deleting
        PROVE  \E o \in Op : pc'[o] = "gone" \/ (pc'[o] = "returned" /\ result'[o] \notin Excuse)
    <2>1. PICK o \in Op : pc[o] = "gone" \/ (pc[o] = "returned" /\ result[o] \notin Excuse)
      BY <1>2 DEF Charge
    <2>2. build # Nothing
      BY <1>2, NothingShape
    <2>3. QED BY <1>0, <2>1, <2>2, DeleterStays
  <1>3. ASSUME build'.deleting
        PROVE  \E o \in Op : pc'[o] = "gone" \/ (pc'[o] = "returned" /\ result'[o] \notin Excuse)
    <2>1. CASE build.deleting
      BY <2>1, <1>2
    <2>2. CASE ~build.deleting
      <3>1. build.phase = "Infra" /\ build' # build /\ build' # Nothing
        BY <1>3, <2>2, BuildSteps, NothingShape
      <3>2. PICK o \in Op : Delete(o)
        <4>1. ~UNCHANGED build
          BY <3>1
        <4>2. build # Nothing
          BY <3>1, NothingShape
        <4>3. QED BY <3>1, <4>1, <4>2 DEF Next, Environment, Operator, Wait, Retry, Create, List, Deliver,
             Relist, PendingCheck, HandleFailedBuild, AwaitDeletion, DeletionTimesOut, Cancel,
             StartBuild, EndBuild, RemoveBuild, Publish, PassTimeout, object, vars
      <3>3. pc'[o] = "gone"
        BY <3>2, <1>0 DEF Delete, Go, TypeOK
      <3>4. QED BY <3>3
    <2>3. QED BY <2>1, <2>2
  <1>4. \E o \in Op : InCharge(o)'
    <2>1. CASE build.deleting
      BY <2>1, <1>2 DEF InCharge, Excuse
    <2>2. CASE ~build.deleting
      <3>1. PICK o \in Op : InCharge(o)
        BY DEF Charge
      <3>2. build # Nothing => build' # Nothing
        BY <2>2, BuildSteps, NothingShape DEF TypeInv, Uids
      <3>3. CASE Operator(o) \/ Relist(o) \/ Cancel(o)
        BY <3>1, <3>3, <1>1, OwnStepInCharge
      <3>4. CASE pc'[o] = pc[o] /\ err'[o] = err[o] /\ result'[o] = result[o]
        BY <3>1, <3>2, <3>4, <1>1, OthersLeaveInCharge
      <3>5. QED BY <3>3, <3>4, <1>0, OthersLeaveAlone
    <2>3. QED BY <2>1, <2>2
  <1>5. QED BY <1>1, <1>3, <1>4 DEF Charge, Excuse, InCharge

\* When every ci-operator has returned, one of them has a reason of its own: they
\* never all give up because of what another one did to their build.
THEOREM SomeoneAlwaysRetries == Spec => []SomeoneRetries
  <1>1. Init => TypeInv /\ Doomed /\ Charge
    BY BuildAssumption, NothingShape
       DEF Init, TypeInv, TypeOK, Uids, Marked, Doomed, Charge, InCharge
  <1>2. Charge => SomeoneRetries
    BY DEF Charge, InCharge, Excuse, SomeoneRetries
  <1>3. QED BY <1>1, <1>2, TypeInductive, DoomedInductive, ChargeInductive, PTL DEF Spec, SafetySpec
=============================================================================
