-------------------------- MODULE ComputeJobsProofs --------------------------
(* Proofs about ComputeJobs, for every set of request threads and jobs, any *)
(* number of restarts, and clients that do not wait for answers.            *)
EXTENDS ComputeJobs, FiniteSetTheorems, TLAPS

-----------------------------------------------------------------------------
(* The state of the compute node's job handling is always well typed. *)
THEOREM TypeCorrect == Spec => []TypeOK
<1> USE DEF PCs, UploadPCs, ExecutePCs, Statuses, Terminal
<1>1. Init => TypeOK
  <2> SUFFICES ASSUME Init PROVE TypeOK
    OBVIOUS
  <2> QED BY DEF Init, TypeOK
<1>2. TypeOK /\ [Next]_vars => TypeOK'
  <2> SUFFICES ASSUME TypeOK, [Next]_vars PROVE TypeOK'
    OBVIOUS
  <2> USE DEF TypeOK, Goto, SetStatus, Accept, queueVars, jobVars, fileVars,
              activityVars, reloadVars, callVars
  <2>1. ASSUME NEW j \in Jobs, CreateJob(j) PROVE TypeOK'
    BY <2>1 DEF CreateJob
  <2>2. ASSUME NEW t \in Threads, NEW j \in Jobs, Request(t, j) PROVE TypeOK'
    <3>1. CASE UploadCheck(t, j) BY <3>1 DEF UploadCheck
    <3>2. CASE ExecuteGet(t, j) BY <3>2 DEF ExecuteGet
    <3>3. CASE CancelJob(t, j)
      <4>1. status' \in [Jobs -> Statuses] BY <3>3 DEF CancelJob
      <4> QED BY <3>3, <4>1 DEF CancelJob
    <3> QED BY <2>2, <3>1, <3>2, <3>3 DEF Request
  <2>3. ASSUME NEW t \in Threads, Step(t) PROVE TypeOK'
    <3>1. CASE UploadPrepare(t) BY <3>1 DEF UploadPrepare
    <3>2. CASE UploadOpen(t) BY <3>2 DEF UploadOpen
    <3>3. CASE UploadReceive(t) BY <3>3 DEF UploadReceive
    <3>4. CASE UploadReplace(t) BY <3>4 DEF UploadReplace
    <3>5. CASE UploadUpdate(t) BY <3>5 DEF UploadUpdate
    <3>6. CASE UploadUndo(t) 
      <4>1. leftovers' \in SUBSET Jobs BY <3>6 DEF UploadUndo
      <4>2. part' \in [Jobs -> BOOLEAN] BY <3>6 DEF UploadUndo
      <4>3. target' \in [Jobs -> BOOLEAN] BY <3>6 DEF UploadUndo
      <4> QED BY <3>6, <4>1, <4>2, <4>3 DEF UploadUndo
    <3>7. CASE FindWorker(t) BY <3>7 DEF FindWorker
    <3>8. CASE RefuseJob(t) BY <3>8 DEF RefuseJob
    <3>9. CASE StartJob(t) BY <3>9 DEF StartJob
    <3>10. CASE CallHandler(t)
      <4>1. activeJobs' \in Nat BY <3>10 DEF CallHandler
      <4>2. calls' \in [Jobs -> Nat] BY <3>10 DEF CallHandler
      <4>3. counted' \in [Threads -> BOOLEAN]
        BY <3>10, Zenon DEF CallHandler
      <4> QED BY <3>10, <4>1, <4>2, <4>3 DEF CallHandler
    <3>11. CASE BeginRaises(t) BY <3>11 DEF BeginRaises
    <3>12. CASE HandlerDone(t) BY <3>12 DEF HandlerDone
    <3>13. CASE FailJob(t) BY <3>13 DEF FailJob
    <3>14. CASE EndActivity(t) BY <3>14 DEF EndActivity
    <3>15. CASE CompleteJob(t)
      <4>1. leftovers' \in SUBSET Jobs /\ unstored' \in SUBSET Jobs
        BY <3>15 DEF CompleteJob
      <4> QED BY <3>15, <4>1 DEF CompleteJob
    <3>16. CASE CleanupInput(t) 
      <4>1. leftovers' \in SUBSET Jobs BY <3>16 DEF CleanupInput, RemoveFolder
      <4>2. part' \in [Jobs -> BOOLEAN] BY <3>16 DEF CleanupInput, RemoveFolder
      <4>3. target' \in [Jobs -> BOOLEAN] BY <3>16 DEF CleanupInput, RemoveFolder
      <4>4. folder' \in [Jobs -> BOOLEAN] BY <3>16 DEF CleanupInput, RemoveFolder
      <4>5. pc' \in [Threads -> PCs] BY <3>16 DEF CleanupInput, RemoveFolder
      <4> QED BY <3>16, <4>1, <4>2, <4>3, <4>4, <4>5 DEF CleanupInput, RemoveFolder
    <3> QED
      BY <2>3, <3>1, <3>2, <3>3, <3>4, <3>5, <3>6, <3>7, <3>8, <3>9, <3>10,
         <3>11, <3>12, <3>13, <3>14, <3>15, <3>16 DEF Step
  <2>4. ASSUME ReloadBegin \/ ReloadEnd PROVE TypeOK'
    BY <2>4 DEF ReloadBegin, ReloadEnd
  <2>5. ASSUME Restart PROVE TypeOK'
    <3>1. /\ leftovers' \in SUBSET Jobs
          /\ part' \in [Jobs -> BOOLEAN]
          /\ target' \in [Jobs -> BOOLEAN]
          /\ folder' \in [Jobs -> BOOLEAN]
      <4> PICK locked \in SUBSET {j \in Jobs : folder[j]} :
            /\ folder' = [j \in Jobs |-> j \in locked]
            /\ part' = [j \in Jobs |-> part[j] /\ j \in locked]
            /\ target' = [j \in Jobs |-> target[j] /\ j \in locked]
            /\ leftovers' = leftovers \cup locked
        BY <2>5 DEF Restart
      <4> QED OBVIOUS
    <3>2. status' \in [Jobs -> Statuses]
      BY <2>5 DEF Restart
    <3>3. restarts' \in Nat /\ activeJobs' \in Nat
      BY <2>5 DEF Restart
    <3> QED
      BY <2>5, <3>1, <3>2, <3>3 DEF Restart
  <2>6. CASE UNCHANGED vars
    BY <2>6 DEF vars
  <2> QED
    BY <2>1, <2>2, <2>3, <2>4, <2>5, <2>6 DEF Next
<1> QED
  BY <1>1, <1>2, PTL DEF Spec

-----------------------------------------------------------------------------
(* Who works on a job, and what its record says. *)
JobInv ==
    /\ RunningIsOwned
    /\ QueuedIsUntouched
    /\ UnknownIsUntouched
    /\ CallsAreCounted
    /\ OutcomeRecorded

(* The job records and the request threads stay consistent: the inductive
   invariant behind the three theorems below. *)
THEOREM JobInvariant == Spec => []JobInv
<1> USE DEF JobInv, RunningIsOwned, QueuedIsUntouched, UnknownIsUntouched,
            CallsAreCounted, OutcomeRecorded, Working
<1>1. Init => JobInv
  BY DEF Init
<1>2. TypeOK /\ JobInv /\ [Next]_vars => JobInv'
  <2> SUFFICES ASSUME TypeOK, JobInv, [Next]_vars PROVE JobInv'
    OBVIOUS
  <2> USE DEF TypeOK, Goto, SetStatus, Accept, queueVars, jobVars, fileVars,
              activityVars, reloadVars, callVars, ExecutingPCs, UploadPCs, ExecutePCs,
              PCs, Terminal
  <2>1. ASSUME NEW j \in Jobs, CreateJob(j) PROVE JobInv'
    BY <2>1 DEF CreateJob
  <2>2. ASSUME NEW t \in Threads, NEW j \in Jobs, Request(t, j) PROVE JobInv'
    <3>1. CASE UploadCheck(t, j) BY <3>1 DEF UploadCheck
    <3>2. CASE ExecuteGet(t, j)
      <4>1. /\ pc[t] = "idle" /\ job' = [job EXCEPT ![t] = j]
            /\ \/ status[j] = "queued" /\ pc' = [pc EXCEPT ![t] = "find"]
               \/ status[j] = "cancelled" /\ pc' = [pc EXCEPT ![t] = "cleanup"]
            /\ UNCHANGED <<status, result, error, calls, unstored>>
        BY <3>2 DEF ExecuteGet
      <4>2. RunningIsOwned' /\ OutcomeRecorded' BY <4>1
      <4>3. QueuedIsUntouched' BY <4>1
      <4>4. UnknownIsUntouched' /\ CallsAreCounted' BY <4>1
      <4> QED BY <4>2, <4>3, <4>4
    <3>3. CASE CancelJob(t, j)
      <4>1. RunningIsOwned' /\ OutcomeRecorded' BY <3>3 DEF CancelJob
      <4>2. QueuedIsUntouched' BY <3>3 DEF CancelJob
      <4>3. UnknownIsUntouched' /\ CallsAreCounted' BY <3>3 DEF CancelJob
      <4> QED BY <4>1, <4>2, <4>3
    <3> QED BY <2>2, <3>1, <3>2, <3>3 DEF Request
  <2>3. ASSUME NEW t \in Threads, Step(t) PROVE JobInv'
    <3>1. CASE UploadPrepare(t) BY <3>1 DEF UploadPrepare
    <3>2. CASE UploadOpen(t) BY <3>2, SMTT(60) DEF UploadOpen
    <3>3. CASE UploadReceive(t) BY <3>3 DEF UploadReceive
    <3>4. CASE UploadReplace(t) BY <3>4 DEF UploadReplace
    <3>5. CASE UploadUpdate(t) BY <3>5 DEF UploadUpdate
    <3>6. CASE UploadUndo(t) BY <3>6 DEF UploadUndo
    <3>7. CASE FindWorker(t) BY <3>7 DEF FindWorker
    <3>8. CASE RefuseJob(t) BY <3>8 DEF RefuseJob
    <3>9. CASE StartJob(t) BY <3>9 DEF StartJob
    <3>10. CASE CallHandler(t)
      <4>1. /\ pc[t] = "begin"
            /\ pc' = [pc EXCEPT ![t] = "handler"]
            /\ calls' = [calls EXCEPT ![job[t]] = @ + 1]
            /\ UNCHANGED <<status, result, error, job, unstored>>
        BY <3>10 DEF CallHandler
      <4>2. status[job[t]] \notin {"queued", "absent", "lost"}
        BY <4>1, SMTT(60)
      <4>3. \A j \in Jobs : calls'[j] >= calls[j]
        BY <4>1
      <4>4. calls'[job[t]] > 0
        BY <4>1
      <4>5. RunningIsOwned' /\ OutcomeRecorded'
        BY <4>1, <4>3
      <4>6. QueuedIsUntouched' /\ UnknownIsUntouched'
        BY <4>1, <4>2
      <4>7. CallsAreCounted'
        BY <4>1, <4>3, <4>4
      <4> QED BY <4>5, <4>6, <4>7
    <3>11. CASE BeginRaises(t) BY <3>11 DEF BeginRaises
    <3>12. CASE HandlerDone(t) BY <3>12 DEF HandlerDone
    <3>13. CASE FailJob(t) BY <3>13 DEF FailJob
    <3>14. CASE EndActivity(t) BY <3>14 DEF EndActivity
    <3>15. CASE CompleteJob(t) BY <3>15 DEF CompleteJob
    <3>16. CASE CleanupInput(t) BY <3>16 DEF CleanupInput, RemoveFolder
    <3> QED
      BY <2>3, <3>1, <3>2, <3>3, <3>4, <3>5, <3>6, <3>7, <3>8, <3>9, <3>10,
         <3>11, <3>12, <3>13, <3>14, <3>15, <3>16 DEF Step
  <2>4. ASSUME ReloadBegin \/ ReloadEnd PROVE JobInv'
    BY <2>4 DEF ReloadBegin, ReloadEnd
  <2>5. ASSUME Restart PROVE JobInv'
    BY <2>5 DEF Restart
  <2>6. CASE UNCHANGED vars
    BY <2>6 DEF vars
  <2> QED
    BY <2>1, <2>2, <2>3, <2>4, <2>5, <2>6 DEF Next
<1> QED
  BY <1>1, <1>2, TypeCorrect, PTL DEF Spec

(* No job stays "running" without a thread that will finish it. *)
THEOREM RunningJobsAreOwned == Spec => []RunningIsOwned
<1>1. JobInv => RunningIsOwned
  BY DEF JobInv
<1> QED
  BY <1>1, JobInvariant, PTL

(* A queued job has not been worked on. *)
THEOREM QueuedJobsAreUntouched == Spec => []QueuedIsUntouched
<1>1. JobInv => QueuedIsUntouched
  BY DEF JobInv
<1> QED
  BY <1>1, JobInvariant, PTL

(* A final status carries its result or its error. *)
THEOREM OutcomesAreRecorded == Spec => []OutcomeRecorded
<1>1. JobInv => OutcomeRecorded
  BY DEF JobInv
<1> QED
  BY <1>1, JobInvariant, PTL

-----------------------------------------------------------------------------
(* Input files: each one outside the leftovers has a thread that removes it,
   or belongs to a job that is not over. *)
THEOREM FilesInvariant == Spec => []FilesAreOwned
<1> USE DEF FilesAreOwned, Working
<1>1. Init => FilesAreOwned
  BY DEF Init
<1>2. TypeOK /\ JobInv /\ FilesAreOwned /\ [Next]_vars => FilesAreOwned'
  <2> SUFFICES ASSUME TypeOK, JobInv, FilesAreOwned, [Next]_vars
               PROVE  FilesAreOwned'
    OBVIOUS
  <2> USE DEF TypeOK, Goto, SetStatus, Accept, queueVars, jobVars, fileVars,
              activityVars, reloadVars, callVars, UploadPCs, ExecutePCs, PCs, Terminal
  <2>1. ASSUME NEW j \in Jobs, CreateJob(j) PROVE FilesAreOwned'
    BY <2>1 DEF CreateJob
  <2>2. ASSUME NEW t \in Threads, NEW j \in Jobs, Request(t, j)
        PROVE  FilesAreOwned'
    <3>1. CASE UploadCheck(t, j) BY <3>1 DEF UploadCheck
    <3>2. CASE ExecuteGet(t, j) BY <3>2 DEF ExecuteGet
    <3>3. CASE CancelJob(t, j) BY <3>3 DEF CancelJob
    <3> QED BY <2>2, <3>1, <3>2, <3>3 DEF Request
  <2>3. ASSUME NEW t \in Threads, Step(t) PROVE FilesAreOwned'
    <3> USE DEF JobInv, UnknownIsUntouched
    <3>1. CASE UploadPrepare(t) BY <3>1 DEF UploadPrepare
    <3>2. CASE UploadOpen(t) BY <3>2 DEF UploadOpen
    <3>3. CASE UploadReceive(t) BY <3>3 DEF UploadReceive
    <3>4. CASE UploadReplace(t) BY <3>4 DEF UploadReplace
    <3>5. CASE UploadUpdate(t) BY <3>5 DEF UploadUpdate
    <3>6. CASE UploadUndo(t) BY <3>6 DEF UploadUndo
    <3>7. CASE FindWorker(t) BY <3>7 DEF FindWorker
    <3>8. CASE RefuseJob(t) BY <3>8 DEF RefuseJob
    <3>9. CASE StartJob(t) BY <3>9 DEF StartJob
    <3>10. CASE CallHandler(t) BY <3>10 DEF CallHandler
    <3>11. CASE BeginRaises(t) BY <3>11 DEF BeginRaises
    <3>12. CASE HandlerDone(t) BY <3>12 DEF HandlerDone
    <3>13. CASE FailJob(t) BY <3>13 DEF FailJob
    <3>14. CASE EndActivity(t) BY <3>14 DEF EndActivity
    <3>15. CASE CompleteJob(t) BY <3>15 DEF CompleteJob
    <3>16. CASE CleanupInput(t) BY <3>16 DEF CleanupInput, RemoveFolder
    <3> QED
      BY <2>3, <3>1, <3>2, <3>3, <3>4, <3>5, <3>6, <3>7, <3>8, <3>9, <3>10,
         <3>11, <3>12, <3>13, <3>14, <3>15, <3>16 DEF Step
  <2>4. ASSUME ReloadBegin \/ ReloadEnd PROVE FilesAreOwned'
    BY <2>4 DEF ReloadBegin, ReloadEnd
  <2>5. ASSUME Restart PROVE FilesAreOwned'
    <3>1. PICK locked \in SUBSET {j \in Jobs : folder[j]} :
             /\ part' = [j \in Jobs |-> part[j] /\ j \in locked]
             /\ target' = [j \in Jobs |-> target[j] /\ j \in locked]
             /\ leftovers' = leftovers \cup locked
      BY <2>5 DEF Restart
    <3>2. ASSUME NEW j \in Jobs, j \notin leftovers'
          PROVE  part'[j] = FALSE /\ target'[j] = FALSE
      <4>1. j \notin locked
        BY <3>1, <3>2
      <4>2. part'[j] = (part[j] /\ j \in locked)
        BY <3>1
      <4>3. target'[j] = (target[j] /\ j \in locked)
        BY <3>1
      <4> QED
        BY <4>1, <4>2, <4>3
    <3> QED
      BY <3>2
  <2>6. CASE UNCHANGED vars
    BY <2>6 DEF vars
  <2> QED
    BY <2>1, <2>2, <2>3, <2>4, <2>5, <2>6 DEF Next
<1> QED
  BY <1>1, <1>2, TypeCorrect, JobInvariant, PTL DEF Spec

(* The input of a job that is over is gone once its last request is. *)
THEOREM InputsAreReleased == Spec => []InputsReleased
<1>1. TypeOK /\ FilesAreOwned => InputsReleased
  BY DEF TypeOK, FilesAreOwned, InputsReleased
<1> QED
  BY <1>1, TypeCorrect, FilesInvariant, PTL

-----------------------------------------------------------------------------
(* begin_job() and end_job() are paired. *)
Counted == {t \in Threads : counted[t]}

(* The number of counted threads is a natural number. *)
LEMMA CountedFinite == IsFiniteSet(Counted) /\ Cardinality(Counted) \in Nat
  BY ThreadsAssumption, FS_Subset, FS_CardinalityType DEF Counted

\* The count of the activity controller is the number of counted threads.
ActivityCount == activeJobs = Cardinality(Counted)

\* Who owes an end_job(), and who runs without one: a thread that holds the
\* dispatcher being set up got its request during that reload.
ActivityPlaces ==
    \A t \in Threads :
        /\ counted[t] =>
              pc[t] \in {"handler", "end", "fail", "cleanup", "endFailed"}
        /\ pc[t] \in {"handler", "end"} => counted[t] \/ inReload[t]
        /\ newDispatcher[t] => inReload[t]

(* begin_job() and end_job() are paired: every counted execution is on its way
   to its end_job(), and only a request that came during a reload runs a
   handler uncounted. *)
THEOREM ActivityIsPaired == Spec => []ActivityPaired
<1>1. Init => ActivityCount /\ ActivityPlaces
  <2> SUFFICES ASSUME Init PROVE ActivityCount /\ ActivityPlaces
    OBVIOUS
  <2>1. Counted = {}
    BY DEF Init, Counted
  <2> QED
    BY <2>1, FS_EmptySet DEF Init, ActivityCount, ActivityPlaces, Counted
<1>2. TypeOK /\ ActivityCount /\ ActivityPlaces /\ [Next]_vars
        => ActivityCount' /\ ActivityPlaces'
  <2> SUFFICES ASSUME TypeOK, ActivityCount, ActivityPlaces, [Next]_vars
               PROVE  ActivityCount' /\ ActivityPlaces'
    OBVIOUS
  <2> USE DEF TypeOK, Goto, Accept, activityVars, jobVars, reloadVars
  <2>0. ASSUME activeJobs' = activeJobs, counted' = counted
        PROVE  ActivityCount'
    BY <2>0 DEF ActivityCount, Counted
  <2>1. ASSUME NEW j \in Jobs, CreateJob(j)
        PROVE  ActivityCount' /\ ActivityPlaces'
    BY <2>1, <2>0 DEF CreateJob, ActivityPlaces
  <2>2. ASSUME NEW t \in Threads, NEW j \in Jobs, Request(t, j)
        PROVE  ActivityCount' /\ ActivityPlaces'
    BY <2>2, <2>0 DEF Request, UploadCheck, ExecuteGet, CancelJob, ActivityPlaces
  <2>3. ASSUME NEW t \in Threads, Step(t), ~CallHandler(t), ~EndActivity(t)
        PROVE  ActivityCount' /\ ActivityPlaces'
    BY <2>3, <2>0 DEF Step, UploadPrepare, UploadOpen, UploadReceive,
       UploadReplace, UploadUpdate, UploadUndo, FindWorker, RefuseJob, StartJob,
       BeginRaises, HandlerDone, FailJob, CompleteJob, CleanupInput, RemoveFolder, ActivityPlaces
  <2>4. ASSUME NEW t \in Threads, CallHandler(t)
        PROVE  ActivityCount' /\ ActivityPlaces'
    <3>1. pc[t] = "begin" /\ pc' = [pc EXCEPT ![t] = "handler"]
      BY <2>4 DEF CallHandler
    <3>2. \A s \in Threads \ {t} : counted'[s] = counted[s]
      BY <2>4 DEF CallHandler
    <3>3. ActivityPlaces'
      BY <2>4, <3>1, <3>2 DEF CallHandler, ActivityPlaces
    <3>4. t \notin Counted
      BY <3>1 DEF Counted, ActivityPlaces
    <3>5. CASE newDispatcher[t] /\ reloading
      <4>1. activeJobs' = activeJobs /\ ~counted'[t]
        BY <2>4, <3>5 DEF CallHandler
      <4>2. Counted' = Counted
        BY <3>2, <3>4, <4>1 DEF Counted
      <4> QED
        BY <3>3, <4>1, <4>2 DEF ActivityCount, Counted
    <3>6. CASE ~(newDispatcher[t] /\ reloading)
      <4>1. activeJobs' = activeJobs + 1 /\ counted'[t]
        BY <2>4, <3>6 DEF CallHandler
      <4>2. Counted' = Counted \cup {t}
        BY <3>2, <4>1 DEF Counted
      <4>3. Cardinality(Counted \cup {t}) = Cardinality(Counted) + 1
        BY <3>4, CountedFinite, FS_AddElement
      <4> QED
        BY <3>3, <4>1, <4>2, <4>3 DEF ActivityCount, Counted
    <3> QED BY <3>5, <3>6
  <2>5. ASSUME NEW t \in Threads, EndActivity(t)
        PROVE  ActivityCount' /\ ActivityPlaces'
    <3>1. /\ pc[t] \in {"end", "endFailed"}
          /\ counted' = [counted EXCEPT ![t] = FALSE]
          /\ \E l \in {"complete", "idle"} : pc' = [pc EXCEPT ![t] = l]
      BY <2>5 DEF EndActivity
    <3>2. ActivityPlaces'
      BY <2>5, <3>1 DEF EndActivity, ActivityPlaces
    <3>3. Counted' = Counted \ {t}
      BY <3>1 DEF Counted
    <3>4. CASE counted[t]
      <4>1. t \in Counted
        BY <3>4 DEF Counted
      <4>2. Cardinality(Counted \ {t}) = Cardinality(Counted) - 1
        BY <4>1, CountedFinite, FS_RemoveElement
      <4>3. Counted # {}
        BY <4>1
      <4>4. Cardinality(Counted) > 0
        BY <4>3, CountedFinite, FS_EmptySet
      <4>5. activeJobs' = activeJobs - 1
        BY <2>5, <3>4, <4>4 DEF EndActivity, ActivityCount, Counted
      <4> QED
        BY <3>2, <3>3, <4>2, <4>5 DEF ActivityCount, Counted
    <3>5. CASE ~counted[t]
      <4>1. Counted \ {t} = Counted
        BY <3>5 DEF Counted
      <4>2. activeJobs' = activeJobs
        BY <2>5, <3>5 DEF EndActivity
      <4> QED
        BY <3>2, <3>3, <4>1, <4>2 DEF ActivityCount, Counted
    <3> QED BY <3>4, <3>5
  <2>6. ASSUME Restart PROVE ActivityCount' /\ ActivityPlaces'
    <3>1. activeJobs' = 0 /\ \A t \in Threads : ~counted'[t]
      BY <2>6 DEF Restart
    <3>2. Counted' = {}
      BY <3>1 DEF Counted
    <3>3. ActivityCount'
      BY <3>1, <3>2, FS_EmptySet DEF ActivityCount, Counted
    <3>4. ActivityPlaces'
      BY <2>6 DEF Restart, ActivityPlaces
    <3> QED
      BY <3>3, <3>4
  <2>7. CASE ReloadBegin \/ ReloadEnd \/ UNCHANGED vars
    BY <2>7, <2>0 DEF ReloadBegin, ReloadEnd, vars, ActivityPlaces
  <2> QED
    BY <2>1, <2>2, <2>3, <2>4, <2>5, <2>6, <2>7 DEF Next
<1>3. ActivityCount /\ ActivityPlaces => ActivityPaired
  BY DEF ActivityCount, ActivityPlaces, ActivityPaired, Counted
<1> QED
  BY <1>1, <1>2, <1>3, TypeCorrect, PTL DEF Spec

-----------------------------------------------------------------------------
(* The refinement of JobLifecycle. *)

\* Unless requests about a job overlapped, one thread works on it, and its
\* record says how far that thread has come.
LoneRequests ==
    \A j \in Jobs \ overlapped :
        /\ \A s, t \in Threads : Working(s, j) /\ Working(t, j) => s = t
        /\ \A t \in Threads : Working(t, j) =>
              /\ pc[t] \in {"find", "refuse", "start"} => status[j] = "queued"
              /\ pc[t] = "begin" => status[j] = "running" /\ calls[j] = 0
              /\ pc[t] \in {"handler", "end", "complete"} =>
                    status[j] = "running" /\ calls[j] = 1
              /\ pc[t] = "fail" => status[j] = "running"

(* A job without overlapping requests is worked on by one of them. *)
THEOREM LoneRequestsInvariant == Spec => []LoneRequests
<1> USE DEF LoneRequests, Working
<1>1. Init => LoneRequests
  BY DEF Init
<1>2. TypeOK /\ JobInv /\ LoneRequests /\ [Next]_vars => LoneRequests'
  <2> SUFFICES ASSUME TypeOK, JobInv, LoneRequests, [Next]_vars
               PROVE  LoneRequests'
    OBVIOUS
  <2> USE DEF TypeOK, Goto, SetStatus, Accept, queueVars, jobVars, fileVars,
              activityVars, reloadVars, callVars, UploadPCs, ExecutePCs, PCs, Terminal,
              JobInv, QueuedIsUntouched, UnknownIsUntouched
  <2>1. ASSUME NEW j \in Jobs, CreateJob(j) PROVE LoneRequests'
    BY <2>1 DEF CreateJob
  <2>2. ASSUME NEW t \in Threads, NEW j \in Jobs, Request(t, j)
        PROVE  LoneRequests'
    <3>1. CASE UploadCheck(t, j) BY <3>1 DEF UploadCheck
    <3>2. CASE ExecuteGet(t, j) BY <3>2, SMTT(60) DEF ExecuteGet
    <3>3. CASE CancelJob(t, j) BY <3>3 DEF CancelJob
    <3> QED BY <2>2, <3>1, <3>2, <3>3 DEF Request
  <2>3. ASSUME NEW t \in Threads, Step(t) PROVE LoneRequests'
    <3>1. CASE UploadPrepare(t)
      <4>1. /\ pc' = [pc EXCEPT ![t] = "open"] \/ pc' = [pc EXCEPT ![t] = "idle"]
            /\ pc[t] = "upload"
            /\ UNCHANGED <<status, calls, job, overlapped>>
        BY <3>1 DEF UploadPrepare
      <4> QED BY <4>1, SMTT(60)
    <3>2. CASE UploadOpen(t) BY <3>2, SMTT(60) DEF UploadOpen
    <3>3. CASE UploadReceive(t) BY <3>3 DEF UploadReceive
    <3>4. CASE UploadReplace(t) BY <3>4 DEF UploadReplace
    <3>5. CASE UploadUpdate(t) BY <3>5, SMTT(60) DEF UploadUpdate
    <3>6. CASE UploadUndo(t) BY <3>6 DEF UploadUndo
    <3>7. CASE FindWorker(t) BY <3>7 DEF FindWorker
    <3>8. CASE RefuseJob(t) BY <3>8 DEF RefuseJob
    <3>9. CASE StartJob(t) BY <3>9 DEF StartJob
    <3>10. CASE CallHandler(t) BY <3>10 DEF CallHandler
    <3>11. CASE BeginRaises(t) BY <3>11 DEF BeginRaises
    <3>12. CASE HandlerDone(t) BY <3>12 DEF HandlerDone
    <3>13. CASE FailJob(t) BY <3>13 DEF FailJob
    <3>14. CASE EndActivity(t) BY <3>14 DEF EndActivity
    <3>15. CASE CompleteJob(t) BY <3>15 DEF CompleteJob
    <3>16. CASE CleanupInput(t) BY <3>16 DEF CleanupInput, RemoveFolder
    <3> QED
      BY <2>3, <3>1, <3>2, <3>3, <3>4, <3>5, <3>6, <3>7, <3>8, <3>9, <3>10,
         <3>11, <3>12, <3>13, <3>14, <3>15, <3>16 DEF Step
  <2>4. ASSUME ReloadBegin \/ ReloadEnd PROVE LoneRequests'
    BY <2>4 DEF ReloadBegin, ReloadEnd
  <2>5. ASSUME Restart PROVE LoneRequests'
    BY <2>5 DEF Restart
  <2>6. CASE UNCHANGED vars
    BY <2>6 DEF vars
  <2> QED
    BY <2>1, <2>2, <2>3, <2>4, <2>5, <2>6 DEF Next
<1> QED
  BY <1>1, <1>2, TypeCorrect, JobInvariant, PTL DEF Spec

\* What JobLifecycle sees of the queue.
State == [j \in Jobs |-> IF Tracked(j) THEN status[j] ELSE "lost"]
Starts == [j \in Jobs |-> IF Tracked(j) THEN calls[j] ELSE 0]

(* KeepsLifecycle: the queue and the dispatcher implement JobLifecycle
   (jobs/queue.py, jobs/dispatcher.py). *)
THEOREM LifecycleIsKept == Spec => KeepsLifecycle
<1>1. Init => Lifecycle!LifecycleInit
  BY DEF Init, Lifecycle!LifecycleInit, Tracked
<1>2. TypeOK /\ JobInv /\ LoneRequests /\ [Next]_vars
        => [Lifecycle!LifecycleNext]_(Lifecycle!lifecycleVars)
  <2> SUFFICES ASSUME TypeOK, JobInv, LoneRequests, [Next]_vars
               PROVE  Lifecycle!LifecycleNext \/ (State' = State /\ Starts' = Starts)
    BY DEF Lifecycle!lifecycleVars, State, Starts
  <2> USE DEF TypeOK, Tracked, State, Starts, callVars
  \* A step that touches neither a status nor a call count.
  <2>1. ASSUME UNCHANGED <<status, calls, overlapped>>
        PROVE  State' = State /\ Starts' = Starts
    BY <2>1
  \* A request that overlaps with another one about its job.
  <2>2. ASSUME NEW j \in Jobs, overlapped' = overlapped \cup {j}, UNCHANGED calls,
               \A i \in Jobs \ {j} : status'[i] = status[i]
        PROVE  Lifecycle!LifecycleNext
    <3>1. Lifecycle!Lose({j})
      BY <2>2 DEF Lifecycle!Lose
    <3> QED BY <3>1 DEF Lifecycle!LifecycleNext
  \* One job changes its status, which nobody is told when its requests overlapped.
  <2>3. ASSUME NEW j \in Jobs, NEW to \in Statuses \ {"lost"}, status[j] # "lost",
               status' = [status EXCEPT ![j] = to], UNCHANGED <<calls, overlapped>>
        PROVE  /\ Starts' = Starts
               /\ j \in overlapped => State' = State
               /\ j \notin overlapped => State' = [State EXCEPT ![j] = to]
                                         /\ State[j] = status[j]
    BY <2>3
  <2>0. ASSUME NEW j \in Jobs,
               \/ Lifecycle!Submit(j) \/ Lifecycle!Withdraw(j) \/ Lifecycle!Start(j)
               \/ Lifecycle!Call(j) \/ Lifecycle!Finish(j)
        PROVE  Lifecycle!LifecycleNext
    BY <2>0 DEF Lifecycle!LifecycleNext
  <2>4. ASSUME NEW j \in Jobs, CreateJob(j)
        PROVE  Lifecycle!LifecycleNext \/ (State' = State /\ Starts' = Starts)
    <3>1. /\ status[j] = "absent" /\ status' = [status EXCEPT ![j] = "queued"]
          /\ UNCHANGED <<calls, overlapped>>
      BY <2>4 DEF CreateJob, SetStatus, jobVars
    <3>2. j \notin overlapped => Lifecycle!Submit(j)
      BY <2>3, <3>1 DEF Lifecycle!Submit, Lifecycle!Move, Statuses, Terminal
    <3> QED BY <2>0, <2>3, <3>1, <3>2 DEF Statuses, Terminal
  <2>5. ASSUME NEW t \in Threads, NEW j \in Jobs, Request(t, j)
        PROVE  Lifecycle!LifecycleNext \/ (State' = State /\ Starts' = Starts)
    <3>1. /\ UNCHANGED calls
          /\ overlapped' = overlapped \cup {j} \/ overlapped' = overlapped
          /\ (\E s \in Threads : Working(s, j)) => overlapped' = overlapped \cup {j}
          /\ \A i \in Jobs \ {j} : status'[i] = status[i]
      BY <2>5 DEF Request, UploadCheck, ExecuteGet, CancelJob, Accept, Working, queueVars,
                  SetStatus
    <3>2. CASE overlapped' = overlapped \cup {j}
      BY <2>2, <3>1, <3>2
    <3>3. CASE overlapped' = overlapped /\ status' = status
      BY <2>1, <3>1, <3>3
    <3>4. CASE overlapped' = overlapped /\ status' # status
      <4>1. /\ CancelJob(t, j) /\ status[j] \notin Terminal \cup {"absent", "lost"}
            /\ status' = [status EXCEPT ![j] = "cancelled"]
        BY <2>5, <3>4 DEF Request, UploadCheck, ExecuteGet, CancelJob, queueVars, SetStatus
      <4>2. CASE j \in overlapped
        BY <2>3, <3>1, <3>4, <4>1, <4>2 DEF Statuses, Terminal
      <4>3. CASE j \notin overlapped
        <5>1. \A s \in Threads : ~Working(s, j)
          BY <3>1, <3>4, <4>3
        <5>2. status[j] = "queued"
          BY <4>1, <5>1 DEF JobInv, RunningIsOwned, Statuses
        <5>3. Lifecycle!Withdraw(j)
          BY <2>3, <3>1, <3>4, <4>1, <4>3, <5>2
             DEF Lifecycle!Withdraw, Lifecycle!Move, Statuses, Terminal
        <5> QED BY <2>0, <5>3
      <4> QED BY <4>2, <4>3
    <3> QED BY <3>1, <3>2, <3>3, <3>4
  <2>6. ASSUME NEW t \in Threads, Step(t)
        PROVE  Lifecycle!LifecycleNext \/ (State' = State /\ Starts' = Starts)
    <3>0. PICK j \in Jobs : j = job[t]
      OBVIOUS
    <3>1. CASE UNCHANGED <<status, calls, overlapped>>
      BY <2>1, <3>1
    <3>2. CASE RefuseJob(t)
      <4>1. /\ pc[t] = "refuse" /\ status' = [status EXCEPT ![j] = "failed"]
            /\ UNCHANGED <<calls, overlapped>>
        BY <3>0, <3>2 DEF RefuseJob, SetStatus, jobVars
      <4>2. status[j] # "lost" /\ Working(t, j)
        BY <3>0, <4>1 DEF JobInv, UnknownIsUntouched, Working
      <4>3. j \notin overlapped => status[j] = "queued"
        BY <3>0, <4>1, <4>2 DEF LoneRequests
      <4>4. j \notin overlapped => Lifecycle!Withdraw(j)
        BY <2>3, <4>1, <4>2, <4>3 DEF Lifecycle!Withdraw, Lifecycle!Move, Statuses, Terminal
      <4> QED BY <2>0, <2>3, <4>1, <4>2, <4>4 DEF Statuses, Terminal
    <3>3. CASE StartJob(t)
      <4>1. /\ pc[t] = "start" /\ status' = [status EXCEPT ![j] = "running"]
            /\ UNCHANGED <<calls, overlapped>>
        BY <3>0, <3>3 DEF StartJob, SetStatus, jobVars
      <4>2. status[j] # "lost" /\ Working(t, j)
        BY <3>0, <4>1 DEF JobInv, UnknownIsUntouched, Working
      <4>3. j \notin overlapped => status[j] = "queued"
        BY <3>0, <4>1, <4>2 DEF LoneRequests
      <4>4. j \notin overlapped => Lifecycle!Start(j)
        BY <2>3, <4>1, <4>2, <4>3 DEF Lifecycle!Start, Lifecycle!Move, Statuses, Terminal
      <4> QED BY <2>0, <2>3, <4>1, <4>2, <4>4 DEF Statuses, Terminal
    <3>4. CASE CallHandler(t)
      <4>1. /\ pc[t] = "begin" /\ calls' = [calls EXCEPT ![j] = @ + 1]
            /\ UNCHANGED <<status, overlapped>>
        BY <3>0, <3>4 DEF CallHandler, queueVars, jobVars
      <4>2. status[j] # "lost" /\ Working(t, j)
        BY <3>0, <4>1 DEF JobInv, UnknownIsUntouched, Working
      <4>3. CASE j \in overlapped
        BY <4>1, <4>3
      <4>4. CASE j \notin overlapped
        <5>1. status[j] = "running" /\ calls[j] = 0
          BY <3>0, <4>1, <4>2, <4>4 DEF LoneRequests
        <5>2. State' = State /\ State[j] = "running" /\ Starts[j] = 0
          BY <4>1, <4>4, <5>1
        <5>3. Starts' = [Starts EXCEPT ![j] = 1]
          <6>1. calls' = [calls EXCEPT ![j] = 1]
            BY <3>0, <4>1, <5>1
          <6>2. Starts'[j] = 1
            BY <4>1, <4>4, <5>1, <6>1
          <6>3. \A i \in Jobs \ {j} : Starts'[i] = Starts[i]
            BY <4>1, <6>1
          <6> QED BY <6>2, <6>3
        <5>4. Lifecycle!Call(j)
          BY <5>2, <5>3 DEF Lifecycle!Call
        <5> QED BY <2>0, <5>4
      <4> QED BY <4>3, <4>4
    <3>5. CASE FailJob(t)
      <4>1. /\ pc[t] = "fail" /\ status' = [status EXCEPT ![j] = "failed"]
            /\ UNCHANGED <<calls, overlapped>>
        BY <3>0, <3>5 DEF FailJob, SetStatus, jobVars
      <4>2. status[j] # "lost" /\ Working(t, j)
        BY <3>0, <4>1 DEF JobInv, UnknownIsUntouched, Working
      <4>3. j \notin overlapped => status[j] = "running"
        BY <3>0, <4>1, <4>2 DEF LoneRequests
      <4>4. j \notin overlapped => Lifecycle!Finish(j)
        BY <2>3, <4>1, <4>2, <4>3 DEF Lifecycle!Finish, Lifecycle!Move, Statuses, Terminal
      <4> QED BY <2>0, <2>3, <4>1, <4>2, <4>4 DEF Statuses, Terminal
    <3>6. CASE CompleteJob(t)
      <4>1. /\ pc[t] = "complete" /\ status' = [status EXCEPT ![j] = "completed"]
            /\ UNCHANGED <<calls, overlapped>>
        BY <3>0, <3>6 DEF CompleteJob, SetStatus, jobVars
      <4>2. status[j] # "lost" /\ Working(t, j)
        BY <3>0, <4>1 DEF JobInv, UnknownIsUntouched, Working
      <4>3. j \notin overlapped => status[j] = "running" /\ calls[j] = 1
        BY <3>0, <4>1, <4>2 DEF LoneRequests
      <4>4. j \notin overlapped => Lifecycle!Finish(j)
        BY <2>3, <4>1, <4>2, <4>3 DEF Lifecycle!Finish, Lifecycle!Move, Statuses, Terminal
      <4> QED BY <2>0, <2>3, <4>1, <4>2, <4>4 DEF Statuses, Terminal
    <3> QED
      BY <2>6, <3>1, <3>2, <3>3, <3>4, <3>5, <3>6
         DEF Step, UploadPrepare, UploadOpen, UploadReceive, UploadReplace, UploadUpdate,
             UploadUndo, FindWorker, BeginRaises, HandlerDone, EndActivity, CleanupInput, RemoveFolder,
             queueVars, jobVars
  <2>7. ASSUME Restart
        PROVE  Lifecycle!LifecycleNext
    <3>0. PICK gone \in SUBSET Jobs : gone = {j \in Jobs : status[j] # "absent"}
      OBVIOUS
    <3>1. Lifecycle!Lose(gone)
      BY <2>7, <3>0 DEF Restart, Lifecycle!Lose, jobVars
    <3> QED BY <3>1 DEF Lifecycle!LifecycleNext
  <2>8. CASE ReloadBegin \/ ReloadEnd \/ UNCHANGED vars
    BY <2>1, <2>8 DEF ReloadBegin, ReloadEnd, vars, queueVars, jobVars
  <2> QED
    BY <2>4, <2>5, <2>6, <2>7, <2>8 DEF Next
<1> QED
  BY <1>1, <1>2, TypeCorrect, JobInvariant, LoneRequestsInvariant, PTL
     DEF Spec, KeepsLifecycle, Lifecycle!LifecycleSpec
=============================================================================
