----------------------- MODULE EphemeralClusterProofs -----------------------
(***************************************************************************)
(* Theorems about the ephemeral cluster controller, for any number of jobs *)
(* and of failures.                                                        *)
(***************************************************************************)
EXTENDS EphemeralCluster, TLAPS

\* The phases of an EC's status.
Phase == {"none", "Provisioning", "Ready", "Deprovisioning", "Deprovisioned", "Failed"}

\* The ECs, and the states of jobs.
EC == [up : BOOLEAN, deleting : BOOLEAN, finalizer : BOOLEAN, job : 0 .. MaxJobs,
       tearDown : BOOLEAN, phase : Phase]

State == Final \cup {"none", "running", "removed"}

\* The types, with the job that is being aborted.
TypeInv == TypeOK /\ (aborting # NoAbort => aborting.job \in Job)

\* The user has deleted the EC.
Ended == ~ec.up \/ ec.deleting

\* What somebody has read of a deletion is true, the informer or Reconcile, and is
\* kept by what Reconcile is about to write of an EC that existed.
DeletionsAreReal ==
    /\ ecSeen.deleting \/ my.deleting => Ended
    /\ pc # "idle" => my.up
    /\ pc = "delete" \/ pc = "abort" => my.deleting
    /\ pc = "update" => (my.deleting => out.deleting)

\* The informer does not know an EC only before the first look of a reconciler, when
\* no job exists, or when the EC is gone; a job is aborted as an orphan only then.
AbsencesAreReal ==
    /\ ecSeen.up \/ ~ec.up \/ (pc = "idle" /\ \A j \in Job : job[j] = "none")
    /\ \A j \in Job : jobSeen[j] # "none" => job[j] # "none"
    /\ aborting # NoAbort => ~ec.up

-----------------------------------------------------------------------------
(* The copies of the EC *)

\* What is changed of an EC leaves its existence and its deletion alone.
LEMMA Edited ==
    ASSUME NEW e \in EC, NEW f \in Phase
    PROVE  /\ \A n \in {[e EXCEPT !.phase = f],
                        [e EXCEPT !.finalizer = FALSE],
                        [e EXCEPT !.tearDown = TRUE]} :
                  n \in EC /\ n.up = e.up /\ n.deleting = e.deleting
           /\ [e EXCEPT !.deleting = TRUE] \in EC /\ [e EXCEPT !.deleting = TRUE].deleting
           /\ [e EXCEPT !.deleting = TRUE].up = e.up
  BY DEF EC, Phase

\* An EC that is bound to a job is the same EC.
LEMMA Bound ==
    ASSUME NEW e \in EC, NEW j \in 0 .. MaxJobs, NEW f \in Phase
    PROVE  /\ [e EXCEPT !.job = j, !.phase = f] \in EC
           /\ [e EXCEPT !.job = j, !.phase = f].up = e.up
           /\ [e EXCEPT !.job = j, !.phase = f].deleting = e.deleting
           /\ [e EXCEPT !.job = j, !.finalizer = TRUE, !.phase = f] \in EC
           /\ [e EXCEPT !.job = j, !.finalizer = TRUE, !.phase = f].up = e.up
           /\ [e EXCEPT !.job = j, !.finalizer = TRUE, !.phase = f].deleting = e.deleting
  BY DEF EC, Phase

\* The EC that is new, and the one that is gone.
LEMMA Constants ==
    /\ NewEC \in EC /\ GoneEC \in EC /\ NewEC.up /\ ~NewEC.deleting
    /\ ~GoneEC.up /\ ~GoneEC.deleting
  <1>1. NewEC \in EC /\ NewEC.up /\ ~NewEC.deleting
    BY EphemeralClusterAssumption DEF NewEC, EC, Phase
  <1>2. GoneEC \in EC /\ ~GoneEC.up /\ ~GoneEC.deleting
    BY <1>1 DEF GoneEC, EC
  <1>3. QED BY <1>1, <1>2

\* What the types say of the variables, one by one.
LEMMA Types ==
    TypeOK <=>
        /\ ec \in EC /\ ecSeen \in EC /\ my \in EC /\ out \in EC
        /\ job \in [Job -> State] /\ jobSeen \in [Job -> State]
        /\ cluster \subseteq Job /\ testDone \subseteq Job /\ jobQueue \subseteq Job
        /\ queued \in BOOLEAN /\ then \in {"poll", "retry", "stop"}
        /\ pc \in {"idle", "list", "create", "report", "delete", "abort", "update"}
        /\ aborting.job \in 0 .. MaxJobs /\ faults \in 0 .. MaxFaults
  BY DEF TypeOK, EC, State, Phase

\* How Reconcile is left, or goes on with a write.
LEMMA WriteSteps ==
    ASSUME TypeOK, NEW new \in EC, NEW next \in {"poll", "retry", "stop"}, Write(new, next)
    PROVE  /\ my' \in EC /\ out' \in EC /\ queued' \in BOOLEAN /\ then' \in {"poll", "retry", "stop"}
           /\ \/ pc' = "idle" /\ my' = GoneEC
              \/ pc' = "update" /\ my' = my /\ out' = new
  <1>1. CASE new = my
    BY <1>1, Types, Constants DEF Write, Return
  <1>2. CASE new # my
    BY <1>2, Types DEF Write
  <1>3. QED BY <1>1, <1>2

\* A fault is one of those that are left.
LEMMA FaultSteps == ASSUME TypeOK, Fault PROVE faults' \in 0 .. MaxFaults
  <1>1. faults \in 0 .. MaxFaults /\ MaxFaults \in Nat
    BY EphemeralClusterAssumption DEF TypeOK
  <1>2. QED BY <1>1 DEF Fault

\* Writing is all that handleCreateProwJob, createProwJob and the report of a job do
\* to the reconciler: what they write is the EC they have read, with another status.
Reported ==
    \E new \in EC, next \in {"poll", "retry", "stop"} :
        new.up = my.up /\ new.deleting = my.deleting /\ Write(new, next)

\* What is reported of a job is a status.
LEMMA ReportSteps == ASSUME TypeOK, NEW f \in Phase, Report(f) PROVE Reported
  <1>1. FinalPhase(f) \in Phase
    BY DEF FinalPhase, Phase
  <1>2. [my EXCEPT !.phase = FinalPhase(f)] \in EC
        /\ [my EXCEPT !.phase = FinalPhase(f)].up = my.up
        /\ [my EXCEPT !.phase = FinalPhase(f)].deleting = my.deleting
    <2>1. 0 \in 0 .. MaxJobs /\ my \in EC
      BY Types, EphemeralClusterAssumption
    <2>2. QED BY <1>1, <2>1, Edited
  <1>3. PICK next \in {"poll", "retry", "stop"} : Write([my EXCEPT !.phase = FinalPhase(f)], next)
    BY DEF Report
  <1>4. QED BY <1>2, <1>3 DEF Reported

\* Without the finalizer it is the same EC.
LEMMA UnfinalizedSteps ==
    ASSUME TypeOK, NEW next \in {"poll", "retry", "stop"}, Write(Unfinalized, next) PROVE Reported
  <1>1. 0 \in 0 .. MaxJobs /\ my \in EC /\ "none" \in Phase
    BY Types, EphemeralClusterAssumption DEF Phase
  <1>2. Unfinalized \in EC /\ Unfinalized.up = my.up /\ Unfinalized.deleting = my.deleting
    BY <1>1, Edited DEF Unfinalized
  <1>3. QED BY <1>2 DEF Reported

\* The branches of Reconcile that write.
LEMMA ReportedBranches ==
    ASSUME TypeOK, ListJobs \/ CreateProwJob \/ ReportProwJob
    PROVE  \/ Reported
           \/ pc = "list" /\ pc' = "create" /\ UNCHANGED <<queued, my, out, then>>
           \/ pc = "list" /\ Return(FALSE)
  <1>0. my \in EC /\ 0 \in 0 .. MaxJobs /\ Job \subseteq 0 .. MaxJobs
        /\ "none" \in Phase /\ "Provisioning" \in Phase /\ "Failed" \in Phase
        /\ "Ready" \in Phase /\ "Deprovisioning" \in Phase
    BY Types, EphemeralClusterAssumption DEF Job, Phase
  <1>1. CASE ListJobs
    <2>1. ASSUME NEW j \in Job, Write([my EXCEPT !.job = j, !.phase = "none"], "poll") PROVE Reported
      <3> DEFINE n == [my EXCEPT !.job = j, !.phase = "none"]
      <3>0. j \in 0 .. MaxJobs
        BY <1>0
      <3>1. n \in EC /\ n.up = my.up /\ n.deleting = my.deleting
        BY <1>0, <3>0 DEF EC, Phase
      <3>2. Write(n, "poll")
        BY <2>1
      <3> HIDE DEF n
      <3>3. QED BY <3>1, <3>2 DEF Reported
    <2>2. QED BY <1>1, <2>1 DEF ListJobs
  <1>2. CASE CreateProwJob
    <2>1. ASSUME NEW j \in Job,
                 Write([my EXCEPT !.job = j, !.finalizer = TRUE, !.phase = "Provisioning"], "poll")
          PROVE  Reported
      <3> DEFINE n == [my EXCEPT !.job = j, !.finalizer = TRUE, !.phase = "Provisioning"]
      <3>0. j \in 0 .. MaxJobs
        BY <1>0
      <3>1. n \in EC /\ n.up = my.up /\ n.deleting = my.deleting
        BY <1>0, <3>0 DEF EC, Phase
      <3>2. Write(n, "poll")
        BY <2>1
      <3> HIDE DEF n
      <3>3. QED BY <3>1, <3>2 DEF Reported
    <2>2. ASSUME Write([my EXCEPT !.phase = "Failed"], "stop") PROVE Reported
      BY <1>0, <2>2, Edited DEF Reported
    <2>3. ASSUME Write(my, "retry") PROVE Reported
      BY <1>0, <2>3 DEF Reported
    <2>4. QED BY <1>2, <2>1, <2>2, <2>3 DEF CreateProwJob, ConfigurationFails
  <1>3. CASE ReportProwJob
    <2>1. FetchedPhase \in Phase
      BY DEF FetchedPhase, Phase
    <2>2. ASSUME Write([my EXCEPT !.phase = "Deprovisioning"], "retry") PROVE Reported
      BY <1>0, <2>2, Edited DEF Reported
    <2>3. QED BY <1>0, <1>3, <2>1, <2>2, ReportSteps, UnfinalizedSteps
              DEF ReportProwJob, HandleGetProwJobError, NotifyTestComplete
  <1>4. QED BY <1>1, <1>2, <1>3

\* After such a write Reconcile is over, or about to update the EC.
LEMMA ReportedSteps ==
    ASSUME TypeOK, Reported
    PROVE  /\ my' \in EC /\ out' \in EC /\ queued' \in BOOLEAN /\ then' \in {"poll", "retry", "stop"}
           /\ \/ pc' = "idle" /\ my' = GoneEC
              \/ pc' = "update" /\ my' = my /\ out'.up = my.up /\ out'.deleting = my.deleting
  <1>1. PICK new \in EC, next \in {"poll", "retry", "stop"} :
            new.up = my.up /\ new.deleting = my.deleting /\ Write(new, next)
    BY DEF Reported
  <1>2. QED BY <1>1, WriteSteps

-----------------------------------------------------------------------------
(* The types *)

\* A job that ends, and what the other branches of Reconcile leave.
LEMMA EndSteps ==
    ASSUME TypeOK, NEW j, NEW s \in State, End(j, s)
    PROVE  job' \in [Job -> State] /\ cluster' \subseteq Job /\ testDone' \subseteq Job
  BY Types DEF End

\* A Reconcile that returns has nothing left in hand.
LEMMA ReturnSteps ==
    ASSUME TypeOK, NEW r \in BOOLEAN, Return(r)
    PROVE  /\ my' \in EC /\ out' \in EC /\ queued' \in BOOLEAN /\ then' \in {"poll", "retry", "stop"}
           /\ pc' = "idle" /\ my' = GoneEC
  BY Types, Constants DEF Return

\* The API server stores what it is given, or nothing.
LEMMA StoredSteps ==
    ASSUME NEW e \in EC
    PROVE  Stored(e) \in EC /\ (~Stored(e).up \/ Stored(e) = e)
  BY Constants DEF Stored

\* The types are kept.
LEMMA TypeInductive == TypeInv /\ [Next]_vars => TypeInv'
  <1> SUFFICES ASSUME TypeInv, [Next]_vars PROVE TypeInv'
    OBVIOUS
  <1>0. TypeOK
    BY DEF TypeInv
  <1>t. /\ ec \in EC /\ ecSeen \in EC /\ my \in EC /\ out \in EC
        /\ job \in [Job -> State] /\ jobSeen \in [Job -> State]
        /\ cluster \subseteq Job /\ testDone \subseteq Job /\ jobQueue \subseteq Job
        /\ queued \in BOOLEAN /\ then \in {"poll", "retry", "stop"}
        /\ pc \in {"idle", "list", "create", "report", "delete", "abort", "update"}
        /\ aborting.job \in 0 .. MaxJobs /\ faults \in 0 .. MaxFaults
        /\ aborting # NoAbort => aborting.job \in Job
    BY <1>0, Types DEF TypeInv
  <1>p. SUFFICES
            /\ (ec \in EC /\ ecSeen \in EC /\ my \in EC /\ out \in EC)'
            /\ (job \in [Job -> State] /\ jobSeen \in [Job -> State])'
            /\ (cluster \subseteq Job /\ testDone \subseteq Job /\ jobQueue \subseteq Job)'
            /\ (queued \in BOOLEAN /\ then \in {"poll", "retry", "stop"})'
            /\ pc' \in {"idle", "list", "create", "report", "delete", "abort", "update"}
            /\ (aborting.job \in 0 .. MaxJobs /\ faults \in 0 .. MaxFaults)'
            /\ (aborting # NoAbort => aborting.job \in Job)'
    <2>1. TypeOK'
      BY DEF TypeOK, EC, State, Phase
    <2>2. QED BY <2>1 DEF TypeInv
  <1>j. "running" \in State /\ "aborted" \in State /\ "success" \in State /\ "failure" \in State
        /\ "removed" \in State
    BY DEF State, Final
  <1> DEFINE RecOK == /\ my' \in EC /\ out' \in EC /\ queued' \in BOOLEAN
                      /\ then' \in {"poll", "retry", "stop"}
                      /\ pc' \in {"idle", "list", "create", "report", "delete", "abort", "update"}
  <1> DEFINE StoreOK == /\ ec' \in EC /\ job' \in [Job -> State]
                        /\ cluster' \subseteq Job /\ testDone' \subseteq Job
  <1>1. ASSUME Start PROVE RecOK /\ UNCHANGED <<store, caches, pjReconcile, faults>>
    BY <1>1, <1>t DEF Start
  <1>2. ASSUME ListJobs \/ CreateProwJob \/ ReportProwJob
        PROVE  RecOK /\ UNCHANGED <<ec, caches, cluster, pjReconcile>>
    <2>1. RecOK
      <3>1. CASE Reported
        BY <1>0, <3>1, ReportedSteps
      <3>2. CASE pc' = "create" /\ UNCHANGED <<queued, my, out, then>>
        BY <1>t, <3>2
      <3>3. CASE Return(FALSE)
        BY <1>0, <3>3, ReturnSteps
      <3>4. QED BY <1>0, <1>2, <3>1, <3>2, <3>3, ReportedBranches
    <2>2. QED BY <1>2, <2>1 DEF ListJobs, CreateProwJob, ReportProwJob, store
  <1>3. ASSUME ListJobs \/ CreateProwJob \/ ReportProwJob
        PROVE  job' \in [Job -> State] /\ testDone' \subseteq Job /\ faults' \in 0 .. MaxFaults
    <2>1. CASE ListJobs
      BY <1>t, <2>1 DEF ListJobs, store
    <2>2. CASE CreateProwJob
      <3>1. job' \in [Job -> State]
        BY <1>t, <1>j, <2>2 DEF CreateProwJob, ConfigurationFails
      <3>2. faults' = faults \/ Fault
        BY <2>2 DEF CreateProwJob, ConfigurationFails
      <3>3. testDone' = testDone
        BY <2>2 DEF CreateProwJob
      <3>4. QED BY <1>0, <1>t, <3>1, <3>2, <3>3, FaultSteps
    <2>3. CASE ReportProwJob
      <3>1. testDone' = testDone \/ (my.job \in cluster /\ testDone' = testDone \cup {my.job})
        BY <2>3 DEF ReportProwJob, HandleGetProwJobError, NotifyTestComplete
      <3>2. faults' = faults \/ Fault
        BY <2>3 DEF ReportProwJob, HandleGetProwJobError, NotifyTestComplete
      <3>3. job' = job
        BY <2>3 DEF ReportProwJob
      <3>4. testDone' \subseteq Job
        BY <1>t, <3>1
      <3>5. QED BY <1>0, <1>t, <3>2, <3>3, <3>4, FaultSteps
    <2>4. QED BY <1>3, <2>1, <2>2, <2>3
  <1>4. ASSUME DeleteEphemeralCluster PROVE RecOK /\ UNCHANGED <<store, caches, pjReconcile, faults>>
    <2>1. CASE pc' = "abort" /\ UNCHANGED <<queued, my, out, then>>
      BY <1>4, <1>t, <2>1 DEF DeleteEphemeralCluster
    <2>2. CASE Write(Unfinalized, "stop")
      BY <1>0, <1>4, <2>2, UnfinalizedSteps, ReportedSteps DEF DeleteEphemeralCluster
    <2>3. CASE Return(TRUE)
      BY <1>0, <1>4, <2>3, ReturnSteps DEF DeleteEphemeralCluster
    <2>4. QED BY <1>4, <2>1, <2>2, <2>3 DEF DeleteEphemeralCluster
  <1>5. ASSUME AbortProwJob
        PROVE  RecOK /\ StoreOK /\ UNCHANGED <<caches, pjReconcile>> /\ faults' \in 0 .. MaxFaults
    <2>1. RecOK
      BY <1>0, <1>5, ReturnSteps DEF AbortProwJob
    <2>2. UNCHANGED <<job, cluster, testDone>> \/ End(my.job, "aborted")
      BY <1>5 DEF AbortProwJob
    <2>3. StoreOK
      BY <1>0, <1>t, <1>j, <1>5, <2>2, EndSteps DEF AbortProwJob
    <2>4. faults' = faults \/ Fault
      BY <1>5 DEF AbortProwJob
    <2>5. QED BY <1>0, <1>t, <1>5, <2>1, <2>3, <2>4, FaultSteps DEF AbortProwJob
  <1>6. ASSUME UpdateEphemeralCluster
        PROVE  RecOK /\ StoreOK /\ UNCHANGED <<caches, pjReconcile>> /\ faults' \in 0 .. MaxFaults
    <2>1. PICK r \in BOOLEAN : Return(r)
      BY <1>6 DEF UpdateEphemeralCluster
    <2>2. ec' = ec \/ ec' = Stored(out)
      BY <1>6 DEF UpdateEphemeralCluster
    <2>3. faults' = faults \/ Fault
      BY <1>6 DEF UpdateEphemeralCluster
    <2>4. RecOK
      BY <1>0, <2>1, ReturnSteps
    <2>5. ec' \in EC
      BY <1>t, <2>2, StoredSteps
    <2>6. QED BY <1>0, <1>t, <1>6, <2>3, <2>4, <2>5, FaultSteps DEF UpdateEphemeralCluster
  <1>7. ASSUME NEW j \in Job, StartProwJob(j)
        PROVE  /\ jobQueue' \subseteq Job /\ aborting'.job \in 0 .. MaxJobs
               /\ aborting' # NoAbort => aborting'.job \in Job
               /\ UNCHANGED <<store, caches, reconcile, faults>>
    <2>1. j \in 0 .. MaxJobs /\ 0 \in 0 .. MaxJobs
      BY EphemeralClusterAssumption DEF Job
    <2>2. aborting' = NoAbort \/ aborting' = [job |-> j, state |-> jobSeen[j]]
      BY <1>7 DEF StartProwJob
    <2>3. aborting'.job \in 0 .. MaxJobs /\ (aborting' # NoAbort => aborting'.job \in Job)
      BY <2>1, <2>2 DEF NoAbort
    <2>4. QED BY <1>7, <1>t, <2>3 DEF StartProwJob
  <1>8. ASSUME AbortOrphan
        PROVE  StoreOK /\ aborting' = NoAbort /\ jobQueue' \subseteq Job
               /\ UNCHANGED <<caches, reconcile>> /\ faults' \in 0 .. MaxFaults
    <2>1. UNCHANGED <<job, cluster, testDone>> \/ End(aborting.job, "aborted")
      BY <1>8 DEF AbortOrphan
    <2>2. StoreOK
      BY <1>0, <1>t, <1>j, <1>8, <2>1, EndSteps DEF AbortOrphan
    <2>3. faults' = faults \/ Fault
      BY <1>8 DEF AbortOrphan
    <2>4. jobQueue' \subseteq Job
      BY <1>8, <1>t DEF AbortOrphan
    <2>5. QED BY <1>0, <1>t, <1>8, <2>2, <2>3, <2>4, FaultSteps DEF AbortOrphan
  <1>9. ASSUME Crash
        PROVE  RecOK /\ aborting' = NoAbort /\ jobQueue' \subseteq Job /\ ecSeen' \in EC
               /\ jobSeen' \in [Job -> State] /\ UNCHANGED store /\ faults' \in 0 .. MaxFaults
    <2>1. RecOK
      <3>1. ec.up \in BOOLEAN
        BY <1>t DEF EC
      <3>2. QED BY <1>9, <3>1, Constants DEF Crash
    <2>2. QED BY <1>0, <1>t, <1>9, <2>1, FaultSteps DEF Crash
  <1>10. ASSUME RequestTearDown \/ DeleteEC
         PROVE  ec' \in EC /\ UNCHANGED <<job, cluster, testDone, caches, reconcile, pjReconcile, faults>>
    <2>1. 0 \in 0 .. MaxJobs /\ "none" \in Phase
      BY EphemeralClusterAssumption DEF Phase
    <2>2. QED BY <1>10, <1>t, <2>1, Edited, StoredSteps DEF RequestTearDown, DeleteEC
  <1>11. ASSUME NEW j \in Job, FinishJob(j) \/ FailJob(j) \/ RemoveJob(j) \/ ProvisionCluster(j)
         PROVE  StoreOK /\ UNCHANGED <<caches, reconcile, pjReconcile, faults>>
    BY <1>0, <1>t, <1>j, <1>11, EndSteps DEF FinishJob, FailJob, RemoveJob, ProvisionCluster
  <1>12. ASSUME SyncEC \/ Resync
         PROVE  /\ ecSeen' \in EC /\ queued' \in BOOLEAN /\ jobQueue' \subseteq Job
                /\ UNCHANGED <<store, jobSeen, pc, my, out, then, aborting, faults>>
    <2>1. ecSeen.up \in BOOLEAN
      BY <1>t DEF EC
    <2>2. QED BY <1>12, <1>t, <2>1 DEF SyncEC, Resync, caches, pjReconcile
  <1>13. ASSUME NEW j \in Job, SyncJob(j)
         PROVE  /\ jobSeen' \in [Job -> State] /\ jobQueue' \subseteq Job
                /\ UNCHANGED <<store, ecSeen, reconcile, aborting, faults>>
    BY <1>13, <1>t DEF SyncJob
  <1> USE DEF store, caches, reconcile, pjReconcile
  <1>n. NoAbort.job \in 0 .. MaxJobs
    BY EphemeralClusterAssumption DEF NoAbort
  <1>21. CASE Start \/ DeleteEphemeralCluster
    BY <1>t, <1>1, <1>4, <1>21
  <1>22. CASE ListJobs \/ CreateProwJob \/ ReportProwJob
    BY <1>t, <1>2, <1>3, <1>22
  <1>23. CASE AbortProwJob \/ UpdateEphemeralCluster
    BY <1>t, <1>5, <1>6, <1>23
  <1>24. CASE \E j \in Job : StartProwJob(j) \/ SyncJob(j)
    BY <1>t, <1>7, <1>13, <1>24
  <1>25. CASE AbortOrphan \/ Crash
    BY <1>t, <1>8, <1>9, <1>n, <1>25
  <1>26. CASE RequestTearDown \/ DeleteEC \/ SyncEC \/ Resync
    BY <1>t, <1>10, <1>12, <1>26
  <1>27. CASE \E j \in Job : FinishJob(j) \/ FailJob(j) \/ RemoveJob(j) \/ ProvisionCluster(j)
    BY <1>t, <1>11, <1>27
  <1>28. CASE UNCHANGED vars
    BY <1>t, <1>28 DEF vars
  <1>29. QED BY <1>21, <1>22, <1>23, <1>24, <1>25, <1>26, <1>27, <1>28 DEF Next, ReconcileStep

\* Every variable has its type, and a job that the ProwJob reconciler is about to
\* abort is a job.
THEOREM TypeCorrect == Spec => []TypeInv
  <1>1. Init => TypeInv
    <2> SUFFICES ASSUME Init PROVE TypeInv
      OBVIOUS
    <2>1. MaxFaults \in 0 .. MaxFaults /\ 0 \in 0 .. MaxJobs
      BY EphemeralClusterAssumption
    <2>2. job \in [Job -> State] /\ jobSeen \in [Job -> State]
      BY DEF Init, State
    <2>3. TypeOK
      BY <2>1, <2>2, Types, Constants DEF Init, NoAbort
    <2>4. QED BY <2>3 DEF Init, TypeInv
  <1>2. QED BY <1>1, TypeInductive, PTL DEF Spec

-----------------------------------------------------------------------------
(* What the reconcilers know of the deletion *)

\* How Reconcile and the informer's copy of the EC move: the copy stays or becomes the
\* EC, and Reconcile returns, starts on the copy, goes on, or gets to a write that
\* leaves existence and deletion alone.
LEMMA ReaderSteps ==
    ASSUME TypeInv, [Next]_vars
    PROVE  /\ ecSeen' = ecSeen \/ ecSeen' = ec
           /\ \/ pc' = pc /\ my' = my /\ out' = out
              \/ pc' = "idle" /\ my' = GoneEC
              \/ /\ ecSeen' = ecSeen /\ ecSeen.up /\ my' = ecSeen
                 /\ \/ pc' = "list" \/ pc' = "report"
                    \/ pc' = "delete" /\ ecSeen.deleting
              \/ pc # "idle" /\ pc' = "update" /\ my' = my /\ out'.deleting = my.deleting
              \/ pc = "list" /\ pc' = "create" /\ my' = my
              \/ pc = "delete" /\ pc' = "abort" /\ my' = my
  <1>0. TypeOK
    BY DEF TypeInv
  <1> USE DEF caches, reconcile
  <1>1. CASE Start
    BY <1>1 DEF Start
  <1>2. CASE ListJobs \/ CreateProwJob \/ ReportProwJob
    <2>1. ecSeen' = ecSeen /\ pc # "idle"
      BY <1>2 DEF ListJobs, CreateProwJob, ReportProwJob
    <2>2. QED BY <1>0, <1>2, <2>1, ReportedBranches, ReportedSteps, ReturnSteps
  <1>3. CASE DeleteEphemeralCluster
    <2>1. ecSeen' = ecSeen /\ pc = "delete"
      BY <1>3 DEF DeleteEphemeralCluster
    <2>2. \/ pc' = "abort" /\ my' = my
          \/ Write(Unfinalized, "stop")
          \/ Return(TRUE)
      BY <1>3 DEF DeleteEphemeralCluster
    <2>3. QED BY <1>0, <2>1, <2>2, UnfinalizedSteps, ReportedSteps, ReturnSteps
  <1>4. CASE AbortProwJob \/ UpdateEphemeralCluster
    BY <1>4 DEF AbortProwJob, UpdateEphemeralCluster, Return
  <1>5. CASE AbortOrphan \/ RequestTearDown \/ DeleteEC
    BY <1>5 DEF AbortOrphan, RequestTearDown, DeleteEC
  <1>6. CASE SyncEC \/ Resync \/ Crash
    BY <1>6 DEF SyncEC, Resync, Crash
  <1>7. ASSUME NEW j \in Job,
               \/ StartProwJob(j) \/ SyncJob(j)
               \/ ProvisionCluster(j) \/ FinishJob(j) \/ FailJob(j) \/ RemoveJob(j)
        PROVE  (ecSeen' = ecSeen) /\ (pc' = pc) /\ (my' = my) /\ (out' = out)
    BY <1>7 DEF StartProwJob, SyncJob, ProvisionCluster, FinishJob, FailJob, RemoveJob
  <1>8. CASE UNCHANGED vars
    BY <1>8 DEF vars
  <1>9. QED BY <1>1, <1>2, <1>3, <1>4, <1>5, <1>6, <1>7, <1>8 DEF Next, ReconcileStep

\* A deletion is never taken back, and an EC that is gone stays gone: an update is
\* refused unless the EC is the one that was read.
LEMMA EndedSteps ==
    ASSUME TypeInv, DeletionsAreReal, [Next]_vars
    PROVE  (Ended => Ended') /\ (~ec.up => ~ec'.up)
  <1>t. ec \in EC /\ out \in EC /\ my \in EC
    BY Types DEF TypeInv
  <1>1. CASE ec' = ec
    BY <1>1 DEF Ended
  <1>2. CASE UpdateEphemeralCluster
    <2>1. ec' = ec \/ (ec = my /\ ec' = Stored(out) /\ pc = "update")
      BY <1>2 DEF UpdateEphemeralCluster
    <2>2. CASE ec = my /\ ec' = Stored(out) /\ pc = "update"
      <3>1. ec.up /\ (ec.deleting => out.deleting)
        BY <2>2 DEF DeletionsAreReal
      <3>2. ~ec'.up \/ ec' = out
        BY <1>t, <2>2, StoredSteps
      <3>3. QED BY <3>1, <3>2 DEF Ended
    <2>3. QED BY <1>1, <2>1, <2>2
  <1>3. CASE RequestTearDown
    <2>1. "none" \in Phase
      BY DEF Phase
    <2>2. ec'.up = ec.up /\ ec'.deleting = ec.deleting
      BY <1>t, <1>3, <2>1, Edited DEF RequestTearDown
    <2>3. QED BY <2>2 DEF Ended
  <1>4. CASE DeleteEC
    <2>1. [ec EXCEPT !.deleting = TRUE] \in EC /\ [ec EXCEPT !.deleting = TRUE].deleting
      BY <1>t DEF EC
    <2>2. ec.up /\ (~ec'.up \/ ec'.deleting)
      BY <1>4, <2>1, StoredSteps DEF DeleteEC
    <2>3. QED BY <2>2 DEF Ended
  <1>5. QED
    <2> USE DEF store
    <2>1. ASSUME Start \/ ListJobs \/ CreateProwJob \/ ReportProwJob \/ DeleteEphemeralCluster
                 \/ AbortProwJob
          PROVE  ec' = ec
      BY <2>1 DEF Start, ListJobs, CreateProwJob, ReportProwJob, DeleteEphemeralCluster, AbortProwJob
    <2>2. ASSUME AbortOrphan \/ SyncEC \/ Resync \/ Crash PROVE ec' = ec
      BY <2>2 DEF AbortOrphan, SyncEC, Resync, Crash
    <2>3. ASSUME NEW j \in Job,
                 \/ StartProwJob(j) \/ SyncJob(j)
                 \/ ProvisionCluster(j) \/ FinishJob(j) \/ FailJob(j) \/ RemoveJob(j)
          PROVE  ec' = ec
      BY <2>3 DEF StartProwJob, SyncJob, ProvisionCluster, FinishJob, FailJob, RemoveJob
    <2>4. UNCHANGED vars => ec' = ec
      BY DEF vars
    <2>5. QED BY <1>1, <1>2, <1>3, <1>4, <2>1, <2>2, <2>3, <2>4 DEF Next, ReconcileStep

\* What is known of a deletion stays true.
LEMMA DeletionsInductive == TypeInv /\ DeletionsAreReal /\ [Next]_vars => DeletionsAreReal'
  <1> SUFFICES ASSUME TypeInv, DeletionsAreReal, [Next]_vars PROVE DeletionsAreReal'
    OBVIOUS
  <1>1. Ended => Ended'
    BY EndedSteps
  <1>2. ec.deleting => Ended
    BY DEF Ended
  <1>3. ~GoneEC.deleting
    BY Constants
  <1>4. (ecSeen.deleting \/ my.deleting => Ended)'
    BY <1>1, <1>2, <1>3, ReaderSteps DEF DeletionsAreReal
  <1>5. (pc # "idle" => my.up)' /\ (pc = "delete" \/ pc = "abort" => my.deleting)'
    BY ReaderSteps DEF DeletionsAreReal
  <1>6. (pc = "update" => (my.deleting => out.deleting))'
    BY ReaderSteps DEF DeletionsAreReal
  <1>7. QED BY <1>4, <1>5, <1>6 DEF DeletionsAreReal

-----------------------------------------------------------------------------
(* What the reconcilers know of the existence *)

\* How a job moves: it is created, ends by itself, is removed, or is aborted by one of
\* the reconcilers.
LEMMA JobSteps ==
    ASSUME TypeInv, [Next]_vars, NEW j \in Job
    PROVE  \/ job'[j] = job[j]
           \/ pc = "create" /\ job[j] = "none" /\ job'[j] = "running"
           \/ job[j] = "running" /\ (job'[j] = "success" \/ job'[j] = "failure")
           \/ job[j] \in Final /\ job'[j] = "removed"
           \/ pc = "abort" /\ job[j] = "running" /\ job'[j] = "aborted"
           \/ aborting # NoAbort /\ job'[j] = "aborted"
  <1>0. job \in [Job -> State]
    BY Types DEF TypeInv
  <1> USE DEF store
  <1>1. CASE CreateProwJob
    BY <1>0, <1>1 DEF CreateProwJob, ConfigurationFails
  <1>2. CASE AbortProwJob
    BY <1>0, <1>2 DEF AbortProwJob, End
  <1>3. CASE AbortOrphan
    BY <1>0, <1>3 DEF AbortOrphan, End
  <1>4. ASSUME NEW i \in Job, FinishJob(i) \/ FailJob(i) \/ RemoveJob(i)
        PROVE  \/ job'[j] = job[j]
               \/ job[j] = "running" /\ (job'[j] = "success" \/ job'[j] = "failure")
               \/ job[j] \in Final /\ job'[j] = "removed"
    BY <1>0, <1>4 DEF FinishJob, FailJob, RemoveJob, End
  <1>5. ASSUME Start \/ ListJobs \/ ReportProwJob \/ DeleteEphemeralCluster \/ UpdateEphemeralCluster
        PROVE  job' = job
    BY <1>5 DEF Start, ListJobs, ReportProwJob, DeleteEphemeralCluster, UpdateEphemeralCluster
  <1>6. ASSUME SyncEC \/ Resync \/ Crash \/ RequestTearDown \/ DeleteEC PROVE job' = job
    BY <1>6 DEF SyncEC, Resync, Crash, RequestTearDown, DeleteEC
  <1>7. ASSUME NEW i \in Job, StartProwJob(i) \/ SyncJob(i) \/ ProvisionCluster(i)
        PROVE  job' = job
    BY <1>7 DEF StartProwJob, SyncJob, ProvisionCluster
  <1>8. UNCHANGED vars => job' = job
    BY DEF vars
  <1>9. QED BY <1>1, <1>2, <1>3, <1>4, <1>5, <1>6, <1>7, <1>8 DEF Next, ReconcileStep

\* An EC that is not found is gone, or has no job yet.
LEMMA AbsencesInductive ==
    TypeInv /\ DeletionsAreReal /\ AbsencesAreReal /\ [Next]_vars => AbsencesAreReal'
  <1> SUFFICES ASSUME TypeInv, DeletionsAreReal, AbsencesAreReal, [Next]_vars PROVE AbsencesAreReal'
    OBVIOUS
  <1>0. job \in [Job -> State] /\ jobSeen \in [Job -> State]
    BY Types DEF TypeInv
  <1>1. ~ec.up => ~ec'.up
    BY EndedSteps
  <1>2. \A j \in Job : job[j] # "none" => job'[j] # "none"
    BY JobSteps
  <1>3. (ecSeen.up \/ ~ec.up \/ (pc = "idle" /\ \A j \in Job : job[j] = "none"))'
    <2>1. CASE ~ec.up
      BY <1>1, <2>1
    <2>2. CASE ec.up /\ ecSeen.up
      BY <2>2, ReaderSteps
    <2>3. CASE ec.up /\ ~ecSeen.up
      <3>1. pc = "idle" /\ aborting = NoAbort /\ \A j \in Job : job[j] = "none"
        BY <2>3 DEF AbsencesAreReal
      <3>2. \A j \in Job : job'[j] = "none"
        BY <3>1, JobSteps DEF Final
      <3>3. pc' = "idle"
        BY <2>3, <3>1, ReaderSteps
      <3>4. QED BY <3>2, <3>3
    <2>4. QED BY <2>1, <2>2, <2>3
  <1>4. (\A j \in Job : jobSeen[j] # "none" => job[j] # "none")'
    <2>1. jobSeen' = jobSeen \/ jobSeen' = job
          \/ \E j \in Job : jobSeen' = [jobSeen EXCEPT ![j] = job[j]]
      <3> USE DEF caches
      <3>1. ASSUME ReconcileStep PROVE jobSeen' = jobSeen
        BY <3>1 DEF ReconcileStep, Start, ListJobs, CreateProwJob, ReportProwJob,
                    DeleteEphemeralCluster, AbortProwJob, UpdateEphemeralCluster
      <3>2. ASSUME AbortOrphan \/ SyncEC \/ Resync \/ RequestTearDown \/ DeleteEC
            PROVE  jobSeen' = jobSeen
        BY <3>2 DEF AbortOrphan, SyncEC, Resync, RequestTearDown, DeleteEC
      <3>3. ASSUME NEW j \in Job,
                   \/ StartProwJob(j) \/ ProvisionCluster(j) \/ FinishJob(j) \/ FailJob(j)
                   \/ RemoveJob(j)
            PROVE  jobSeen' = jobSeen
        BY <3>3 DEF StartProwJob, ProvisionCluster, FinishJob, FailJob, RemoveJob
      <3>4. ASSUME Crash PROVE jobSeen' = job
        BY <3>4 DEF Crash
      <3>5. ASSUME NEW j \in Job, SyncJob(j) PROVE jobSeen' = [jobSeen EXCEPT ![j] = job[j]]
        BY <3>5 DEF SyncJob
      <3>6. UNCHANGED vars => jobSeen' = jobSeen
        BY DEF vars
      <3>7. QED BY <3>1, <3>2, <3>3, <3>4, <3>5, <3>6 DEF Next
    <2>2. \A j \in Job : jobSeen'[j] = jobSeen[j] \/ jobSeen'[j] = job[j]
      BY <1>0, <2>1
    <2>3. QED BY <1>2, <2>2 DEF AbsencesAreReal
  <1>5. (aborting # NoAbort => ~ec.up)'
    <2>1. aborting' = aborting \/ aborting' = NoAbort \/ \E j \in Job : jobSeen[j] # "none" /\ ~ecSeen.up
      <3> USE DEF pjReconcile
      <3>1. ASSUME ReconcileStep PROVE aborting' = aborting
        BY <3>1 DEF ReconcileStep, Start, ListJobs, CreateProwJob, ReportProwJob,
                    DeleteEphemeralCluster, AbortProwJob, UpdateEphemeralCluster
      <3>2. ASSUME SyncEC \/ Resync \/ RequestTearDown \/ DeleteEC PROVE aborting' = aborting
        BY <3>2 DEF SyncEC, Resync, RequestTearDown, DeleteEC
      <3>3. ASSUME NEW j \in Job,
                   \/ SyncJob(j) \/ ProvisionCluster(j) \/ FinishJob(j) \/ FailJob(j) \/ RemoveJob(j)
            PROVE  aborting' = aborting
        BY <3>3 DEF SyncJob, ProvisionCluster, FinishJob, FailJob, RemoveJob
      <3>4. ASSUME NEW j \in Job, StartProwJob(j)
            PROVE  aborting' = NoAbort \/ (jobSeen[j] # "none" /\ ~ecSeen.up)
        BY <3>4 DEF StartProwJob
      <3>5. ASSUME AbortOrphan \/ Crash PROVE aborting' = NoAbort
        BY <3>5 DEF AbortOrphan, Crash
      <3>6. UNCHANGED vars => aborting' = aborting
        BY DEF vars
      <3>7. QED BY <3>1, <3>2, <3>3, <3>4, <3>5, <3>6 DEF Next
    <2>2. QED BY <1>1, <2>1 DEF AbsencesAreReal
  <1>6. QED BY <1>3, <1>4, <1>5 DEF AbsencesAreReal

-----------------------------------------------------------------------------
\* No job of a cluster in use is aborted: whichever reconciler aborts a running job, on
\* whatever copy of the EC, after conflicts, crashes and errors, the user has deleted
\* the EC, for any number of jobs and of failures.
THEOREM OnlyDeletedAborted == Spec => OnlyDeletedClustersAreAborted
  <1>1. Init => DeletionsAreReal /\ AbsencesAreReal
    <2> SUFFICES ASSUME Init PROVE DeletionsAreReal /\ AbsencesAreReal
      OBVIOUS
    <2>1. DeletionsAreReal
      BY Constants DEF Init, DeletionsAreReal
    <2>2. AbsencesAreReal
      BY DEF Init, AbsencesAreReal
    <2>3. QED BY <2>1, <2>2
  <1>2. TypeInv /\ DeletionsAreReal /\ AbsencesAreReal /\ [Next]_vars =>
            [\A j \in Job : job[j] = "running" /\ job'[j] = "aborted" => ~ec.up \/ ec.deleting]_vars
    <2> SUFFICES ASSUME TypeInv, DeletionsAreReal, AbsencesAreReal, [Next]_vars,
                        NEW j \in Job, job[j] = "running", job'[j] = "aborted"
                 PROVE  ~ec.up \/ ec.deleting
      OBVIOUS
    <2>1. pc = "abort" \/ aborting # NoAbort
      BY JobSteps
    <2>2. CASE pc = "abort"
      BY <2>2 DEF DeletionsAreReal, Ended
    <2>3. CASE aborting # NoAbort
      BY <2>3 DEF AbsencesAreReal
    <2>4. QED BY <2>1, <2>2, <2>3
  <1>3. QED BY <1>1, <1>2, TypeCorrect, DeletionsInductive, AbsencesInductive, PTL
            DEF Spec, OnlyDeletedClustersAreAborted
=============================================================================
