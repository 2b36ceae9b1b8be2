-------------------------------- MODULE Build --------------------------------
(***************************************************************************)
(* handleBuild (pkg/steps/source.go): a ci-operator makes sure that a      *)
(* build exists, watches it until it ends, and when it failed because of   *)
(* the infrastructure deletes it and begins again.  Several ci-operators   *)
(* with the same inputs share the namespace, so they watch, delete and     *)
(* create the same build, of which the API server holds at most one.       *)
(*                                                                         *)
(* A build is told apart by its uid; its phase is "Pending" (New or        *)
(* Pending), "Running", "Complete", "Infra" (it failed with a reason or a  *)
(* log that isInfraReason or hintsAtInfraReason recognises) or "Legit"     *)
(* (it failed otherwise).                                                  *)
(***************************************************************************)
EXTENDS Naturals, Sequences

CONSTANTS
    Op,          \* the ci-operators that share the namespace
    Attempts,    \* of each of them
    MaxBuilds    \* bound: builds created in the whole behaviour

ASSUME BuildAssumption ==
    Op # {} /\ Attempts \in Nat \ {0} /\ MaxBuilds \in Nat

VARIABLES
    build,     \* the object in the API server, or Nothing
    uids,      \* the number of builds created so far
    overdue,   \* the last build whose pending timeout has passed
    pc,        \* op -> what it is about to do
    attempt,   \* op -> the number of its attempt
    queue,     \* op -> the events of its watch that were not delivered yet
    ret,       \* op -> the version of the build that was delivered last
    check,     \* op -> the uid pendingCheck sleeps for, 0 if it is not running
    got,       \* op -> the uid handleFailedBuild is going to delete
    err,       \* op -> the error of waitForBuild
    result     \* op -> "none", "ok", or the error handleBuild returns

object == <<build, uids, overdue>>

watching == <<queue, ret, check, err>>

vars == <<build, uids, overdue, pc, attempt, queue, ret, check, got, err, result>>

Nothing == [uid |-> 0, phase |-> "None", deleting |-> FALSE]

Phase == {"Pending", "Running", "Complete", "Infra", "Legit"}

\* isBuildPhaseTerminated
Terminated(b) == b.phase \in {"Complete", "Infra", "Legit"}

Object == [uid : 0..MaxBuilds, phase : Phase \cup {"None"}, deleting : BOOLEAN]

Error == {"Infra", "Legit", "Deleted", "Overdue", "Lost", "Stuck", "Exhausted",
          "Cancelled"}

-----------------------------------------------------------------------------
Init ==
    /\ build = Nothing /\ uids = 0 /\ overdue = 0
    /\ pc = [o \in Op |-> "create"]
    /\ attempt = [o \in Op |-> 1]
    /\ queue = [o \in Op |-> <<>>]
    /\ ret = [o \in Op |-> Nothing]
    /\ check = [o \in Op |-> 0]
    /\ got = [o \in Op |-> 0]
    /\ err = [o \in Op |-> "none"]
    /\ result = [o \in Op |-> "none"]

Go(o, where) == pc' = [pc EXCEPT ![o] = where]

Return(o, how) ==
    /\ pc' = [pc EXCEPT ![o] = "returned"]
    /\ result' = [result EXCEPT ![o] = how]

\* The API server has a new version of the build: every open watch gets it.
Publish(b) ==
    /\ build' = b
    /\ queue' = [o \in Op |-> IF pc[o] = "watch" THEN Append(queue[o], b) ELSE queue[o]]

-----------------------------------------------------------------------------
\* client.Create: the build is made, or there was one.
Create(o) ==
    /\ pc[o] = "create"
    /\ Go(o, "list")
    /\ \/ /\ build = Nothing /\ uids < MaxBuilds
          /\ uids' = uids + 1
          /\ Publish([uid |-> uids + 1, phase |-> "Pending", deleting |-> FALSE])
       \/ build # Nothing /\ UNCHANGED <<build, uids, queue>>
    /\ UNCHANGED <<overdue, attempt, ret, check, got, err, result>>

\* What the watch of WaitForConditionOnObject does with version b of the
\* build, or with its deletion.  The first version starts pendingCheck if the
\* build is still pending; an end of the build ends the watch, and so does its
\* deletion.  Nothing is delivered of a build that is not there at first.
Evaluate(o, b) ==
    /\ ret' = [ret EXCEPT ![o] = b]
    /\ \/ /\ b.phase \in {"Pending", "Running"} \/ (b = Nothing /\ ret[o] = Nothing)
          /\ check' = IF b.phase = "Pending" /\ ret[o] = Nothing
                        THEN [check EXCEPT ![o] = b.uid] ELSE check
          /\ Go(o, "watch")
          /\ UNCHANGED <<err, result>>
       \/ /\ b.phase = "Complete"
          /\ Return(o, "ok")
          /\ UNCHANGED <<check, err>>
       \/ /\ b.phase \in {"Infra", "Legit"} \/ (b = Nothing /\ ret[o] # Nothing)
          /\ err' = [err EXCEPT ![o] = IF b = Nothing THEN "Deleted" ELSE b.phase]
          /\ Go(o, "failed")
          /\ UNCHANGED <<check, result>>

\* The watch begins with a list of what the API server has.
List(o) ==
    /\ pc[o] = "list"
    /\ Evaluate(o, build)
    /\ UNCHANGED <<object, attempt, queue, got>>

\* The watch delivers its next event.
Deliver(o) ==
    /\ pc[o] = "watch" /\ queue[o] # <<>>
    /\ queue' = [queue EXCEPT ![o] = Tail(@)]
    /\ Evaluate(o, Head(queue[o]))
    /\ UNCHANGED <<object, attempt, got>>

\* The watch was interrupted and lists again: only the latest version counts.
Relist(o) ==
    /\ pc[o] = "watch" /\ Len(queue[o]) > 1
    /\ queue' = [queue EXCEPT ![o] = <<>>]
    /\ Evaluate(o, build)
    /\ UNCHANGED <<object, attempt, got>>

\* Mutant: pendingCheck waits for the end of the watch only.
SleepOn(o) ==
    /\ pc[o] = "watch" /\ check[o] \in 1..overdue
    /\ UNCHANGED vars

\* pendingCheck wakes up when the build it was started for is overdue, and
\* looks at the latest version: if that is pending, and overdue too, waitForBuild
\* fails; otherwise nothing checks any more.
PendingCheck(o) ==
    /\ pc[o] = "watch" /\ check[o] \in 1..overdue
    /\ \/ /\ ret[o].phase = "Pending" /\ ret[o].uid <= overdue
          /\ err' = [err EXCEPT ![o] = "Overdue"]
          /\ Go(o, "failed")
          /\ UNCHANGED check
       \/ /\ ~(ret[o].phase = "Pending" /\ ret[o].uid <= overdue)
          /\ check' = [check EXCEPT ![o] = 0]
          /\ UNCHANGED <<pc, err>>
    /\ UNCHANGED <<object, attempt, queue, ret, got, result>>

-----------------------------------------------------------------------------
\* handleFailedBuild: the build is read again, and only if it failed because
\* of the infrastructure is the error dropped and the build deleted.
HandleFailedBuild(o) ==
    /\ pc[o] = "failed"
    /\ \/ /\ build = Nothing
          /\ Return(o, "Lost")
          /\ UNCHANGED got
       \/ /\ build # Nothing /\ (~Terminated(build) \/ build.phase \in {"Complete", "Legit"})
          /\ Return(o, err[o])
          /\ UNCHANGED got
       \/ /\ build.phase = "Infra"
          /\ got' = [got EXCEPT ![o] = build.uid]
          /\ Go(o, "delete")
          /\ UNCHANGED result
    /\ UNCHANGED <<object, attempt, watching>>

\* Mutant: the deletion has no precondition.
DeleteAny(o) ==
    /\ pc[o] = "delete"
    /\ Go(o, "gone")
    /\ IF build # Nothing /\ ~build.deleting
         THEN Publish([build EXCEPT !.deleting = TRUE])
         ELSE UNCHANGED <<build, queue>>
    /\ UNCHANGED <<uids, overdue, attempt, ret, check, got, err, result>>

\* client.Delete in the foreground, if the build is still the one that was
\* read: a conflict or a build that is not found is no error.
Delete(o) ==
    /\ pc[o] = "delete"
    /\ Go(o, "gone")
    /\ IF build.uid = got[o] /\ ~build.deleting
         THEN Publish([build EXCEPT !.deleting = TRUE])
         ELSE UNCHANGED <<build, queue>>
    /\ UNCHANGED <<uids, overdue, attempt, ret, check, got, err, result>>

\* The next attempt, if there is one.
Again(o) ==
    /\ queue' = [queue EXCEPT ![o] = <<>>]
    /\ ret' = [ret EXCEPT ![o] = Nothing]
    /\ check' = [check EXCEPT ![o] = 0]
    /\ got' = [got EXCEPT ![o] = 0]
    /\ err' = [err EXCEPT ![o] = "none"]
    /\ \/ /\ attempt[o] < Attempts
          /\ attempt' = [attempt EXCEPT ![o] = @ + 1]
          /\ Go(o, "create")
          /\ UNCHANGED result
       \/ /\ attempt[o] = Attempts
          /\ Return(o, "Exhausted")
          /\ UNCHANGED attempt

\* Mutant: the next attempt does not wait until the build is gone.
DoNotAwaitDeletion(o) ==
    /\ pc[o] = "gone"
    /\ Again(o)
    /\ UNCHANGED object

\* waitForBuildDeletion: nothing of that name is found any more.
AwaitDeletion(o) ==
    /\ pc[o] = "gone" /\ build = Nothing
    /\ Again(o)
    /\ UNCHANGED object

\* waitForBuildDeletion: a build of that name was found ten times.
DeletionTimesOut(o) ==
    /\ pc[o] = "gone" /\ build # Nothing
    /\ Return(o, "Stuck")
    /\ UNCHANGED <<object, attempt, watching, got>>

\* The context is cancelled, or a request fails, or the process dies: what was
\* asked of the API server stays as it is.
Cancel(o) ==
    /\ pc[o] # "returned"
    /\ Return(o, "Cancelled")
    /\ UNCHANGED <<object, attempt, watching, got>>

-----------------------------------------------------------------------------
(* The build controller and the API server (external) *)

\* The build's pod is started.
StartBuild ==
    /\ build.phase = "Pending"
    /\ Publish([build EXCEPT !.phase = "Running"])
    /\ UNCHANGED <<uids, overdue, pc, attempt, ret, check, got, err, result>>

\* The build ends.  One that is pending can only fail for lack of what it needs.
EndBuild ==
    /\ \E phase \in {"Complete", "Infra", "Legit"} :
          /\ build.phase = "Running" \/ (build.phase = "Pending" /\ phase = "Infra")
          /\ Publish([build EXCEPT !.phase = phase])
    /\ UNCHANGED <<uids, overdue, pc, attempt, ret, check, got, err, result>>

\* The deletion is completed when what depends on the build is gone.
RemoveBuild ==
    /\ build.deleting
    /\ Publish(Nothing)
    /\ UNCHANGED <<uids, overdue, pc, attempt, ret, check, got, err, result>>

\* The time of the pending timeout passes: builds come of age in their order.
PassTimeout ==
    /\ overdue < uids
    /\ overdue' = overdue + 1
    /\ UNCHANGED <<build, uids, pc, attempt, watching, got, result>>

Wait(o) == List(o) \/ Deliver(o) \/ PendingCheck(o)

Retry(o) == HandleFailedBuild(o) \/ Delete(o) \/ AwaitDeletion(o) \/ DeletionTimesOut(o)

Operator(o) == Create(o) \/ Wait(o) \/ Retry(o)

Environment == StartBuild \/ EndBuild \/ RemoveBuild \/ PassTimeout

Next ==
    \/ Environment
    \/ \E o \in Op : Operator(o) \/ Relist(o) \/ Cancel(o)

\* Operators go on, a running build ends (builds have a deadline), a deletion
\* is completed and time passes.  A pending build may stay pending.
Fairness ==
    /\ \A o \in Op : WF_vars(Operator(o))
    /\ WF_vars(build.phase = "Running" /\ EndBuild)
    /\ WF_vars(RemoveBuild)
    /\ WF_vars(PassTimeout)

SafetySpec == Init /\ [][Next]_vars

Spec == SafetySpec /\ Fairness

-----------------------------------------------------------------------------
(* Properties *)

\* Every variable has its type.
TypeOK ==
    /\ build \in Object /\ uids \in 0..MaxBuilds /\ overdue \in 0..uids
    /\ pc \in [Op -> {"create", "list", "watch", "failed", "delete", "gone", "returned"}]
    /\ attempt \in [Op -> 1..Attempts]
    /\ queue \in [Op -> Seq(Object)] /\ ret \in [Op -> Object]
    /\ check \in [Op -> 0..MaxBuilds] /\ got \in [Op -> 0..MaxBuilds]
    /\ err \in [Op -> Error \cup {"none"}]
    /\ result \in [Op -> Error \cup {"none", "ok"}]

\* No ci-operator ever deletes a build that another one still waits for: what
\* is deleted failed because of the infrastructure, even when the build that was
\* read has been replaced since by one that is at work or complete.
OnlyFailuresAreDeleted ==
    [][(build'.deleting /\ ~build.deleting) => build.phase = "Infra"]_vars

\* When handleBuild succeeds there is a complete build, and no ci-operator that
\* is late with the failure of an earlier one takes it away.
SuccessIsKept == (\E o \in Op : result[o] = "ok") => build.phase = "Complete"

\* A ci-operator may give up because another one has deleted the build it
\* watched, but never all of them: when all have returned, one of them has a
\* reason of its own.
SomeoneRetries ==
    (\A o \in Op : pc[o] = "returned") =>
        \E o \in Op : result[o] \notin {"Infra", "Deleted", "Lost"}

\* o waits for a build that is not there and was not when the watch began, or
\* for a pending one that replaced, unnoticed, the first one it saw.
Unguarded(o) ==
    pc[o] = "watch" /\ (ret[o] = Nothing \/ (ret[o].phase = "Pending" /\ check[o] = 0))

\* handleBuild returns, whatever becomes of the build and of the other
\* ci-operators, unless its watch found nothing to begin with or lost a build
\* unnoticed.
BuildsReturn == \A o \in Op : <>(pc[o] = "returned") \/ <>[]Unguarded(o)

\* What a comment of WaitForConditionOnObject says: "objects in this call here
\* are always expected to exist in advance".
ExistsInAdvance == \A o \in Op : pc[o] = "list" => build # Nothing

\* What a comment of waitForBuild says: "A timeout must result in an immediate
\* error".
TimeoutIsAnError ==
    [][\A o \in Op : (pc[o] = "failed" /\ err[o] = "Overdue") => pc'[o] \in {"failed", "returned"}]_vars
=============================================================================
