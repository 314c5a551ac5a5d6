------------------------- MODULE NodeActivityProofs -------------------------
(* Proofs about NodeActivity, for every set of clients and every timeout. *)
EXTENDS NodeActivity, FiniteSetTheorems, TLAPS

-----------------------------------------------------------------------------
(* Every variable of the controller keeps its type. *)
LEMMA AgesClosed == \A age \in Ages : Older(age) \in Ages
  BY TimeoutAssumption DEF Ages, Older, NoActivity

(* The state of the controller is well typed in every reachable state. *)
THEOREM TypeCorrect == Spec => []TypeOK
<1>1. Init => TypeOK
  <2> SUFFICES ASSUME Init PROVE TypeOK
    OBVIOUS
  <2>1. NoActivity \in Ages
    BY DEF Ages
  <2> QED
    BY <2>1 DEF Init, TypeOK, ClientPCs, Operations, WatcherPCs
<1>2. TypeOK /\ [Next]_vars => TypeOK'
  <2> SUFFICES ASSUME TypeOK, [Next]_vars PROVE TypeOK'
    OBVIOUS
  <2> 0 \in Ages
    BY TimeoutAssumption DEF Ages
  <2>1. ASSUME NEW t \in Clients, Call(t) PROVE TypeOK'
    BY <2>1 DEF Call, CallWake, Note, Goto, TypeOK, ClientPCs, Operations,
                watcherVars
  <2>2. ASSUME NEW t \in Clients, Step(t) PROVE TypeOK'
    <3> USE DEF TypeOK, ClientPCs, Goto, AfterWake, watcherVars
    <3>1. CASE WakeSkip(t) BY <3>1 DEF WakeSkip
    <3>2. CASE WakeClaim(t) BY <3>2 DEF WakeClaim
    <3>3. CASE WakeCallback(t) BY <3>3 DEF WakeCallback
    <3>4. CASE WakeCallbackRaises(t) BY <3>4 DEF WakeCallbackRaises
    <3>5. CASE WakeAwake(t) BY <3>5 DEF WakeAwake
    <3>6. CASE WakeError(t) BY <3>6 DEF WakeError
    <3>7. CASE WakeFinally(t) BY <3>7 DEF WakeFinally
    <3>8. CASE BeginJob(t) BY <3>8 DEF BeginJob
    <3>9. CASE EndJob(t) BY <3>9 DEF EndJob
    <3> QED
      BY <2>2, <3>1, <3>2, <3>3, <3>4, <3>5, <3>6, <3>7, <3>8, <3>9 DEF Step
  <2>3. ASSUME WatcherStep PROVE TypeOK'
    BY <2>3 DEF WatcherStep, WatcherExit, CheckIdle, CompareIdle, SleepCheck,
                SleepCallback, SleepCallbackRaises, SleepCommit, SleepError,
                WatcherGoto, TypeOK, WatcherPCs, clientVars
  <2>4. ASSUME StartWatcher \/ StopWatcher PROVE TypeOK'
    BY <2>4 DEF StartWatcher, StopWatcher, WatcherGoto, TypeOK, WatcherPCs,
                clientVars
  <2>5. ASSUME Tick PROVE TypeOK'
    BY <2>5, AgesClosed DEF Tick, TypeOK, clientVars
  <2>6. CASE UNCHANGED vars
    BY <2>6 DEF vars, clientVars, watcherVars, TypeOK
  <2> QED
    BY <2>1, <2>2, <2>3, <2>4, <2>5, <2>6 DEF Next
<1> QED
  BY <1>1, <1>2, PTL DEF Spec

-----------------------------------------------------------------------------
(* The flags _sleeping and _waking are owned by one thread at a time. *)
THEOREM WakeOwnershipInvariant == Spec => []WakeOwnership
<1>1. Init => WakeOwnership
  BY DEF Init, WakeOwnership, InWakeSection, WatcherInSleepSection
<1>2. TypeOK /\ WakeOwnership /\ [Next]_vars => WakeOwnership'
  <2> SUFFICES ASSUME TypeOK, WakeOwnership, [Next]_vars PROVE WakeOwnership'
    OBVIOUS
  <2> USE DEF TypeOK, WakeOwnership, InWakeSection, WatcherInSleepSection
  <2>1. ASSUME NEW t \in Clients, Call(t) PROVE WakeOwnership'
    BY <2>1 DEF Call, CallWake, Note, Goto, watcherVars
  <2>2. ASSUME NEW t \in Clients, Step(t) PROVE WakeOwnership'
    <3> USE DEF Goto, AfterWake, watcherVars
    <3>1. CASE WakeSkip(t) BY <3>1 DEF WakeSkip
    <3>2. CASE WakeClaim(t) BY <3>2 DEF WakeClaim
    <3>3. CASE WakeCallback(t) BY <3>3 DEF WakeCallback
    <3>4. CASE WakeCallbackRaises(t) BY <3>4 DEF WakeCallbackRaises
    <3>5. CASE WakeAwake(t) BY <3>5 DEF WakeAwake
    <3>6. CASE WakeError(t) BY <3>6 DEF WakeError
    <3>7. CASE WakeFinally(t) BY <3>7 DEF WakeFinally
    <3>8. CASE BeginJob(t) BY <3>8 DEF BeginJob
    <3>9. CASE EndJob(t) BY <3>9 DEF EndJob
    <3> QED
      BY <2>2, <3>1, <3>2, <3>3, <3>4, <3>5, <3>6, <3>7, <3>8, <3>9 DEF Step
  <2>3. ASSUME WatcherStep PROVE WakeOwnership'
    <3> USE DEF WatcherGoto, clientVars
    <3>1. CASE WatcherExit BY <3>1 DEF WatcherExit
    <3>2. CASE CheckIdle BY <3>2 DEF CheckIdle
    <3>3. CASE CompareIdle BY <3>3 DEF CompareIdle
    <3>4. CASE SleepCheck BY <3>4 DEF SleepCheck
    <3>5. CASE SleepCallback BY <3>5 DEF SleepCallback
    <3>6. CASE SleepCallbackRaises BY <3>6 DEF SleepCallbackRaises
    <3>7. CASE SleepCommit BY <3>7 DEF SleepCommit
    <3>8. CASE SleepError BY <3>8 DEF SleepError
    <3> QED
      BY <2>3, <3>1, <3>2, <3>3, <3>4, <3>5, <3>6, <3>7, <3>8 DEF WatcherStep
  <2>4. ASSUME StartWatcher \/ StopWatcher \/ Tick PROVE WakeOwnership'
    BY <2>4 DEF StartWatcher, StopWatcher, Tick, WatcherGoto, clientVars
  <2>5. CASE UNCHANGED vars
    BY <2>5 DEF vars, clientVars, watcherVars
  <2> QED
    BY <2>1, <2>2, <2>3, <2>4, <2>5 DEF Next
<1> QED
  BY <1>1, <1>2, TypeCorrect, PTL DEF Spec

(* At most one callback runs at a time, whatever the threads do. *)
THEOREM CallbacksNeverOverlap == Spec => []CallbacksExclusive
<1>1. TypeOK /\ WakeOwnership => CallbacksExclusive
  BY DEF TypeOK, WakeOwnership, CallbacksExclusive, InWakeSection
<1> QED
  BY <1>1, TypeCorrect, WakeOwnershipInvariant, PTL

(* A node that reports "ready" outside sleep() has its plugins loaded. *)
THEOREM ReadyNodeIsLoaded == Spec => []ReadyMeansLoaded
<1>1. TypeOK /\ WakeOwnership => ReadyMeansLoaded
  BY DEF TypeOK, WakeOwnership, ReadyMeansLoaded, StatusState
<1> QED
  BY <1>1, TypeCorrect, WakeOwnershipInvariant, PTL

-----------------------------------------------------------------------------
(* _active_jobs counts the running jobs exactly. *)
Running == {t \in Clients : pc[t] = "running"}

(* The number of running clients is a natural number. *)
LEMMA RunningFinite == IsFiniteSet(Running) /\ Cardinality(Running) \in Nat
  BY ClientsAssumption, FS_Subset, FS_CardinalityType DEF Running

(* begin_job() and end_job() keep _active_jobs equal to the jobs in between. *)
THEOREM JobsCountedInvariant == Spec => []JobsCounted
<1>1. Init => JobsCounted
  <2> SUFFICES ASSUME Init PROVE JobsCounted
    OBVIOUS
  <2>1. Running = {}
    BY DEF Init, Running
  <2> QED
    BY <2>1, FS_EmptySet DEF Init, JobsCounted, Running
<1>2. TypeOK /\ JobsCounted /\ [Next]_vars => JobsCounted'
  <2> SUFFICES ASSUME TypeOK, JobsCounted, [Next]_vars PROVE JobsCounted'
    OBVIOUS
  <2>0. ASSUME activeJobs' = activeJobs, Running' = Running
        PROVE  JobsCounted'
    BY <2>0 DEF JobsCounted, Running
  <2>1. ASSUME NEW t \in Clients, BeginJob(t) PROVE JobsCounted'
    <3>1. Running' = Running \cup {t} /\ t \notin Running
      BY <2>1 DEF BeginJob, Goto, TypeOK, Running
    <3>2. Cardinality(Running \cup {t}) = Cardinality(Running) + 1
      BY <3>1, RunningFinite, FS_AddElement
    <3> QED
      BY <2>1, <3>1, <3>2 DEF JobsCounted, BeginJob, Running
  <2>2. ASSUME NEW t \in Clients, EndJob(t) PROVE JobsCounted'
    <3>1. Running' = Running \ {t} /\ t \in Running
      BY <2>2 DEF EndJob, Goto, TypeOK, Running
    <3>2. Cardinality(Running \ {t}) = Cardinality(Running) - 1
      BY <3>1, RunningFinite, FS_RemoveElement
    <3>3. Running # {}
      BY <3>1
    <3>4. Cardinality(Running) > 0
      BY <3>3, RunningFinite, FS_EmptySet
    <3> QED
      BY <2>2, <3>1, <3>2, <3>4, RunningFinite DEF JobsCounted, EndJob, Running
  <2>3. ASSUME NEW t \in Clients, Call(t) PROVE JobsCounted'
    <3>1. Running' = Running /\ activeJobs' = activeJobs
      BY <2>3 DEF Call, CallWake, Note, Goto, TypeOK, Running
    <3> QED BY <3>1, <2>0
  <2>4. ASSUME NEW t \in Clients, Step(t), ~BeginJob(t), ~EndJob(t)
        PROVE  JobsCounted'
    <3>1. Running' = Running /\ activeJobs' = activeJobs
      BY <2>4 DEF Step, WakeSkip, WakeClaim, WakeCallback, WakeCallbackRaises,
                  WakeAwake, WakeError, WakeFinally, Goto, AfterWake, TypeOK,
                  Running
    <3> QED BY <3>1, <2>0
  <2>5. ASSUME WatcherStep \/ StartWatcher \/ StopWatcher \/ Tick
        PROVE  JobsCounted'
    <3>1. pc' = pc /\ activeJobs' = activeJobs
      BY <2>5 DEF WatcherStep, WatcherExit, CheckIdle, CompareIdle, SleepCheck,
                  SleepCallback, SleepCallbackRaises, SleepCommit, SleepError,
                  StartWatcher, StopWatcher, Tick, clientVars
    <3> QED BY <3>1, <2>0 DEF Running
  <2>6. CASE UNCHANGED vars
    BY <2>6, <2>0 DEF vars, clientVars, Running
  <2> QED
    BY <2>1, <2>2, <2>3, <2>4, <2>5, <2>6 DEF Next
<1> QED
  BY <1>1, <1>2, TypeCorrect, PTL DEF Spec
=============================================================================
