-------------------------- MODULE EphemeralCluster --------------------------
(***************************************************************************)
(* The ephemeral cluster controller (pkg/controller/ephemeralcluster): one *)
(* reconciler turns an EphemeralCluster (EC) into a ProwJob that installs  *)
(* the cluster, reports on it and ends it; another aborts jobs whose EC is *)
(* gone.  Each has a queue and one worker.  Both read from the informers   *)
(* of their manager, which lag behind the API server, and write with       *)
(* optimistic locking: an update of an object that has changed since it    *)
(* was read is a conflict.                                                 *)
(*                                                                         *)
(* One EC, of one name; its contents, conditions and messages are left     *)
(* out, and so is a job on a cluster the controller does not know.  Prow,  *)
(* the user and the build cluster are external.                            *)
(***************************************************************************)
EXTENDS Naturals, FiniteSets

CONSTANTS
    MaxJobs,     \* bound on the ProwJobs that are created
    MaxFaults    \* bound on failing writes, crashes and configurations that
                 \* cannot be turned into a job

ASSUME EphemeralClusterAssumption == MaxJobs \in Nat \ {0} /\ MaxFaults \in Nat

Job == 1 .. MaxJobs

Final == {"aborted", "failure", "success"}

VARIABLES
    ec, ecSeen,      \* the EC, and the informer's copy of it
    job, jobSeen,    \* job -> "none", "running", a final state, "removed"; the
                     \* informer's copy
    cluster,         \* running jobs with a namespace and a kubeconfig in it
    testDone,        \* running jobs in whose namespace the test-done secret is
    queued,          \* the EC is in the queue of its reconciler
    pc,              \* where Reconcile is
    my, out,         \* the EC it has read, and what it is going to write
    then,            \* what follows the write: "poll", "retry", "stop"
    jobQueue,        \* the queue of the ProwJob reconciler
    aborting,        \* the job it is going to abort, and the state it has read
    faults           \* what is left of MaxFaults

store == <<ec, job, cluster, testDone>>
caches == <<ecSeen, jobSeen>>
reconcile == <<queued, pc, my, out, then>>
pjReconcile == <<jobQueue, aborting>>

vars == <<ec, ecSeen, job, jobSeen, cluster, testDone, queued, pc, my, out, then,
          jobQueue, aborting, faults>>

NewEC == [up |-> TRUE, deleting |-> FALSE, finalizer |-> FALSE, job |-> 0,
          tearDown |-> FALSE, phase |-> "none"]

GoneEC == [NewEC EXCEPT !.up = FALSE]

NoAbort == [job |-> 0, state |-> "none"]

Init ==
    /\ ec = NewEC /\ ecSeen = GoneEC
    /\ job = [j \in Job |-> "none"] /\ jobSeen = job
    /\ cluster = {} /\ testDone = {}
    /\ queued = FALSE /\ pc = "idle" /\ my = GoneEC /\ out = GoneEC /\ then = "stop"
    /\ jobQueue = {} /\ aborting = NoAbort
    /\ faults = MaxFaults

\* Job j ends, and its namespace with it.
End(j, state) ==
    /\ job' = [job EXCEPT ![j] = state]
    /\ cluster' = cluster \ {j} /\ testDone' = testDone \ {j}

Fault == faults > 0 /\ faults' = faults - 1

-----------------------------------------------------------------------------
\* Reconcile is over; requeue is whether the EC goes back to the queue, at once
\* or later: the seconds of a RequeueAfter are no promise that the informers have
\* caught up, so the EC is in the queue right away.
Return(requeue) ==
    /\ pc' = "idle" /\ queued' = (queued \/ requeue)
    /\ my' = GoneEC /\ out' = GoneEC /\ then' = "stop"

\* Reconcile goes on with a write of the EC.  A write that would change nothing
\* but timestamps is left out: it stores the same EC, or it conflicts with a
\* change that queues the EC anyway.
Write(new, next) ==
    IF new = my THEN Return(next # "stop")
    ELSE pc' = "update" /\ out' = new /\ then' = next /\ UNCHANGED <<queued, my>>

Unfinalized == [my EXCEPT !.finalizer = FALSE]

\* Reconcile up to the branch it takes.
Start ==
    /\ pc = "idle" /\ queued
    /\ queued' = FALSE
    /\ \/ ~ecSeen.up /\ UNCHANGED <<pc, my>>
       \/ /\ ecSeen.up /\ my' = ecSeen
          /\ pc' = IF ecSeen.deleting THEN "delete"
                   ELSE IF ecSeen.job # 0 THEN "report" ELSE "list"
    /\ UNCHANGED <<store, caches, out, then, pjReconcile, faults>>

\* handleCreateProwJob: no job is created if the informer knows of one.  With
\* several the reconciler gives up; with one it is bound, without a finalizer
\* and with an otherwise empty status.
ListJobs ==
    /\ pc = "list"
    /\ LET known == {j \in Job : jobSeen[j] \notin {"none", "removed"}} IN
       \/ Cardinality(known) > 1 /\ Return(FALSE)
       \/ \E j \in Job : known = {j} /\ Write([my EXCEPT !.job = j, !.phase = "none"], "poll")
       \/ known = {} /\ pc' = "create" /\ UNCHANGED <<queued, my, out, then>>
    /\ UNCHANGED <<store, caches, pjReconcile, faults>>

\* The state of the last job that may be created.
Last == job[MaxJobs]

\* generateCIOperatorConfig or makeProwJob fails: the EC is not tried again.
ConfigurationFails ==
    Fault /\ Write([my EXCEPT !.phase = "Failed"], "stop") /\ UNCHANGED job

\* createProwJob.  The job exists before the EC knows its name.
CreateProwJob ==
    /\ pc = "create"
    /\ \/ \E j \in Job :
            /\ job[j] = "none" /\ \A i \in 1 .. j - 1 : job[i] # "none"
            /\ job' = [job EXCEPT ![j] = "running"]
            /\ Write([my EXCEPT !.job = j, !.finalizer = TRUE, !.phase = "Provisioning"], "poll")
            /\ UNCHANGED faults
       \/ ConfigurationFails
       \/ (Fault \/ (Last # "none" /\ UNCHANGED faults)) /\ Write(my, "retry") /\ UNCHANGED job
    /\ UNCHANGED <<ec, caches, cluster, testDone, pjReconcile>>

\* The phase that fetchSecrets leaves.
FetchedPhase == IF my.job \in cluster THEN "Ready" ELSE "Provisioning"

\* reportProwJobFinalState, after phase p.
FinalPhase(p) ==
    CASE jobSeen[my.job] = "success" -> "Deprovisioned"
      [] jobSeen[my.job] \in {"aborted", "failure"} -> "Failed"
      [] OTHER -> p

\* What is reported of a job, and whether to look again.
Report(p) ==
    Write([my EXCEPT !.phase = FinalPhase(p)],
          IF jobSeen[my.job] \in Final THEN "stop" ELSE "poll")

\* Mutant: the test-done secret is only looked at when the job is over.
ReportThenNotify ==
    /\ pc = "report"
    /\ \/ /\ jobSeen[my.job] \in {"none", "removed"}
          /\ Write(Unfinalized, "stop") /\ UNCHANGED testDone
       \/ /\ jobSeen[my.job] \notin {"none", "removed"}
          /\ Report(FetchedPhase)
          /\ testDone' = IF my.tearDown /\ jobSeen[my.job] \in Final
                         THEN testDone \cup {my.job} ELSE testDone
    /\ UNCHANGED <<ec, job, cluster, caches, pjReconcile, faults>>

\* handleGetProwJobError: a job that is not found costs the finalizer and the
\* polling.
HandleGetProwJobError ==
    /\ jobSeen[my.job] \in {"none", "removed"}
    /\ Write(Unfinalized, "stop")
    /\ UNCHANGED <<testDone, faults>>

\* notifyTestComplete creates the test-done secret and reports; an error on the
\* way is retried.
NotifyTestComplete ==
    \/ my.job \notin cluster /\ Report("Failed") /\ UNCHANGED <<testDone, faults>>
    \/ /\ my.job \in cluster /\ testDone' = testDone \cup {my.job}
       /\ Report("Deprovisioning") /\ UNCHANGED faults
    \/ /\ my.job \in cluster /\ Fault
       /\ Write([my EXCEPT !.phase = "Deprovisioning"], "retry") /\ UNCHANGED testDone

\* The rest of Reconcile for an EC that has a job: the secrets are fetched, the
\* job is told when the cluster is to be torn down, and its state is reported.
ReportProwJob ==
    /\ pc = "report"
    /\ \/ HandleGetProwJobError
       \/ /\ jobSeen[my.job] \notin {"none", "removed"}
          /\ \/ ~my.tearDown /\ Report(FetchedPhase) /\ UNCHANGED <<testDone, faults>>
             \/ my.tearDown /\ NotifyTestComplete
    /\ UNCHANGED <<ec, job, cluster, caches, pjReconcile>>

\* deleteEphemeralCluster: the finalizer goes once the job is over, or was
\* never known; until then the job is aborted.
DeleteEphemeralCluster ==
    /\ pc = "delete"
    /\ IF my.job # 0 /\ jobSeen[my.job] = "running"
       THEN pc' = "abort" /\ UNCHANGED <<queued, my, out, then>>
       ELSE IF my.finalizer THEN Write(Unfinalized, "stop") ELSE Return(TRUE)
    /\ UNCHANGED <<store, caches, pjReconcile, faults>>

\* Its abortProwJob; a conflict, like success, is looked at again.
AbortProwJob ==
    /\ pc = "abort"
    /\ Return(TRUE)
    /\ \/ job[my.job] = "running" /\ End(my.job, "aborted") /\ UNCHANGED faults
       \/ job[my.job] # "running" /\ UNCHANGED <<job, cluster, testDone, faults>>
       \/ Fault /\ UNCHANGED <<job, cluster, testDone>>
    /\ UNCHANGED <<ec, caches, pjReconcile>>

\* What the API server makes of a written EC: one that is being deleted goes
\* with its last finalizer.
Stored(new) == IF new.deleting /\ ~new.finalizer THEN GoneEC ELSE new

\* updateEphemeralCluster: an error, such as a conflict, is retried.
UpdateEphemeralCluster ==
    /\ pc = "update"
    /\ \/ ec = my /\ ec' = Stored(out) /\ Return(then # "stop") /\ UNCHANGED faults
       \/ ec # my /\ UNCHANGED ec /\ Return(TRUE) /\ UNCHANGED faults
       \/ UNCHANGED ec /\ Fault /\ Return(TRUE)
    /\ UNCHANGED <<job, cluster, testDone, caches, pjReconcile>>

-----------------------------------------------------------------------------
\* Mutant: any job is aborted that the EC does not name.
AbortUnnamed(j) ==
    /\ j \in jobQueue /\ aborting = NoAbort
    /\ jobQueue' = jobQueue \ {j}
    /\ aborting' = IF /\ jobSeen[j] \notin {"none", "removed", "aborted"}
                      /\ ecSeen.job # j
                   THEN [job |-> j, state |-> jobSeen[j]] ELSE NoAbort
    /\ UNCHANGED <<store, caches, reconcile, faults>>

\* Mutant: the deletion timestamp is looked at, and not the absence of the EC.
AbortIfDeleting(j) ==
    /\ j \in jobQueue /\ aborting = NoAbort
    /\ jobQueue' = jobQueue \ {j}
    /\ aborting' = IF /\ jobSeen[j] \notin {"none", "removed", "aborted"}
                      /\ ecSeen.deleting
                   THEN [job |-> j, state |-> jobSeen[j]] ELSE NoAbort
    /\ UNCHANGED <<store, caches, reconcile, faults>>

\* Reconcile of the ProwJob reconciler: nothing to do while the EC is there.
StartProwJob(j) ==
    /\ j \in jobQueue /\ aborting = NoAbort
    /\ jobQueue' = jobQueue \ {j}
    /\ aborting' = IF /\ jobSeen[j] \notin {"none", "removed", "aborted"}
                      /\ ~ecSeen.up
                   THEN [job |-> j, state |-> jobSeen[j]] ELSE NoAbort
    /\ UNCHANGED <<store, caches, reconcile, faults>>

\* Its abortProwJob, of a job in whatever state.  An error is retried.
AbortOrphan ==
    /\ aborting # NoAbort
    /\ aborting' = NoAbort
    /\ \/ /\ job[aborting.job] = aborting.state
          /\ End(aborting.job, "aborted") /\ UNCHANGED <<jobQueue, faults>>
       \/ /\ (job[aborting.job] # aborting.state /\ UNCHANGED faults) \/ Fault
          /\ jobQueue' = jobQueue \cup {aborting.job} /\ UNCHANGED <<job, cluster, testDone>>
    /\ UNCHANGED <<ec, caches, reconcile>>

-----------------------------------------------------------------------------
\* The informers catch up, which queues what has changed.
SyncEC ==
    /\ ecSeen # ec /\ ecSeen' = ec /\ queued' = TRUE
    /\ UNCHANGED <<store, jobSeen, pc, my, out, then, pjReconcile, faults>>

SyncJob(j) ==
    /\ jobSeen[j] # job[j]
    /\ jobSeen' = [jobSeen EXCEPT ![j] = job[j]]
    /\ jobQueue' = jobQueue \cup {j}
    /\ UNCHANGED <<store, ecSeen, reconcile, aborting, faults>>

\* Neither reconciler has anything to do, as it is between events that are
\* days apart.
Quiet == ~queued /\ pc = "idle" /\ jobQueue = {} /\ aborting = NoAbort

\* The resync of the informers, every ten hours, queues what they know.
Resync ==
    /\ Quiet
    /\ queued' = ecSeen.up
    /\ jobQueue' = {j \in Job : jobSeen[j] \notin {"none", "removed"}}
    /\ UNCHANGED <<store, caches, pc, my, out, then, aborting, faults>>

\* The process ends anywhere and starts again with informers in sync.
Crash ==
    /\ Fault
    /\ pc' = "idle" /\ my' = GoneEC /\ out' = GoneEC /\ then' = "stop"
    /\ ecSeen' = ec /\ jobSeen' = job
    /\ queued' = ec.up /\ aborting' = NoAbort
    /\ jobQueue' = {j \in Job : job[j] \notin {"none", "removed"}}
    /\ UNCHANGED store

-----------------------------------------------------------------------------
\* The user asks for the cluster to be torn down, or deletes the EC.
RequestTearDown ==
    /\ ec.up /\ ~ec.tearDown
    /\ ec' = [ec EXCEPT !.tearDown = TRUE]
    /\ UNCHANGED <<job, cluster, testDone, caches, reconcile, pjReconcile, faults>>

DeleteEC ==
    /\ ec.up /\ ~ec.deleting
    /\ ec' = Stored([ec EXCEPT !.deleting = TRUE])
    /\ UNCHANGED <<job, cluster, testDone, caches, reconcile, pjReconcile, faults>>

\* The job of ci-operator: a cluster, and an end once the test is said to be
\* done.  A namespace without a kubeconfig is as good as none.
ProvisionCluster(j) ==
    /\ job[j] = "running" /\ j \notin cluster
    /\ cluster' = cluster \cup {j}
    /\ UNCHANGED <<ec, job, testDone, caches, reconcile, pjReconcile, faults>>

FinishJob(j) ==
    /\ job[j] = "running" /\ j \in cluster \cap testDone
    /\ End(j, "success")
    /\ UNCHANGED <<ec, caches, reconcile, pjReconcile, faults>>

\* It fails at any time; Prow removes jobs that ended days ago.
FailJob(j) ==
    /\ job[j] = "running"
    /\ End(j, "failure")
    /\ UNCHANGED <<ec, caches, reconcile, pjReconcile, faults>>

RemoveJob(j) ==
    /\ job[j] \in Final /\ jobSeen = job /\ ecSeen = ec /\ Quiet
    /\ End(j, "removed")
    /\ UNCHANGED <<ec, caches, reconcile, pjReconcile, faults>>

-----------------------------------------------------------------------------
ReconcileStep ==
    \/ Start \/ ListJobs \/ CreateProwJob \/ ReportProwJob \/ DeleteEphemeralCluster
    \/ AbortProwJob \/ UpdateEphemeralCluster

Next ==
    \/ ReconcileStep \/ AbortOrphan
    \/ SyncEC \/ Resync \/ Crash \/ RequestTearDown \/ DeleteEC
    \/ \E j \in Job :
        \/ StartProwJob(j) \/ SyncJob(j)
        \/ ProvisionCluster(j) \/ FinishJob(j) \/ FailJob(j) \/ RemoveJob(j)

\* Workers run and serve their queues in order, informers catch up and are
\* resynced, and ci-operator gets on.  The user, failures and the removal of old
\* jobs are never promised.
Fairness ==
    /\ WF_vars(ReconcileStep) /\ WF_vars(AbortOrphan)
    /\ WF_vars(SyncEC) /\ WF_vars(Resync)
    /\ \A j \in Job : SF_vars(StartProwJob(j)) /\ WF_vars(SyncJob(j) \/ ProvisionCluster(j))

Spec == Init /\ [][Next]_vars /\ Fairness

-----------------------------------------------------------------------------
\* Every variable has its type.
TypeOK ==
    /\ {ec, ecSeen, my, out} \subseteq
         [up : BOOLEAN, deleting : BOOLEAN, finalizer : BOOLEAN, job : 0 .. MaxJobs,
          tearDown : BOOLEAN, phase : {"none", "Provisioning", "Ready", "Deprovisioning",
                                       "Deprovisioned", "Failed"}]
    /\ {job, jobSeen} \subseteq [Job -> Final \cup {"none", "running", "removed"}]
    /\ cluster \subseteq Job /\ testDone \subseteq Job /\ jobQueue \subseteq Job
    /\ queued \in BOOLEAN /\ then \in {"poll", "retry", "stop"}
    /\ pc \in {"idle", "list", "create", "report", "delete", "abort", "update"}
    /\ aborting.job \in 0 .. MaxJobs /\ faults \in 0 .. MaxFaults

\* No job of a cluster in use is aborted: whichever reconciler aborts a job, on
\* whatever copy of the EC, the user has deleted the EC (the reconcilers share
\* one cache, and the ProwJob reconciler takes an EC it cannot find for gone).
OnlyDeletedClustersAreAborted ==
    [][\A j \in Job : job[j] = "running" /\ job'[j] = "aborted" => ~ec.up \/ ec.deleting]_vars

\* A deleted EC goes in the end, and no job outlives it for good: through
\* conflicts, crashes and stale copies the finalizer is removed, and a job is
\* aborted whether it was bound to the EC, created but never bound, a
\* duplicate, or forgotten with the finalizer.
DeletionCompletes ==
    (~ec.up \/ ec.deleting) ~> (~ec.up /\ \A j \in Job : job[j] # "running")

\* Once the user asks for the tear-down, the job that the EC names is told that
\* the test is done, whether it was bound when it was created or by listing: the
\* reconciler polls until the namespace is there, retries what conflicts or
\* fails, and where it has given up on a job that its informer did not have yet
\* the next resync makes up for it.
TearDownReachesTheJob ==
    LET Untold == \E j \in Job \ testDone : ec.job = j /\ job[j] = "running"
    IN  (ec.tearDown /\ Untold) ~> (~ec.up \/ ec.deleting \/ ~Untold)

\* "This is a case that should never happen": two jobs for one EC.
OneJobPerCluster == Cardinality({j \in Job : job[j] # "none"}) <= 1
=============================================================================
