----------------------------- MODULE PiJobsProofs -----------------------------
(* Proofs about PiJobs, for every number of jobs, uploads, file names,      *)
(* restarts and database errors.                                            *)
EXTENDS PiJobs, TLAPS

\* Whoever is at work has something to work on.
AtWork ==
    /\ wpc # "poll" => wjob \in Jobs
    /\ \A u \in Uploads : pc[u] # "idle" => upload[u] \in Jobs \X Names

(* Closing the files of an upload keeps the type of a set of files. *)
LEMMA ClosedType ==
    ASSUME NEW f \in [Jobs \X Names -> Files], NEW u \in Uploads, NEW as \in Files
    PROVE  Closed(u, f, as) \in [Jobs \X Names -> Files]
  BY DEF Closed

-----------------------------------------------------------------------------
(* The job table, the files and the two kinds of threads are always well
   typed. *)
THEOREM TypeCorrect == Spec => [](TypeOK /\ AtWork)
<1>1. Init => TypeOK /\ AtWork
  <2> SUFFICES ASSUME Init PROVE TypeOK /\ AtWork
    OBVIOUS
  <2> QED BY DEF Init, TypeOK, AtWork, Statuses, Reports, Files
<1>2. TypeOK /\ AtWork /\ [Next]_vars => TypeOK' /\ AtWork'
  <2> SUFFICES ASSUME TypeOK, AtWork, [Next]_vars PROVE TypeOK' /\ AtWork'
    OBVIOUS
  <2> USE DEF TypeOK, AtWork, Statuses, UploadPCs, WorkPCs, SetRow, GotoU, Answer, NextJob,
              DbRaises, rowVars, fileVars, jobVars, uploadVars, workerVars, boundVars
  <2>1. ASSUME NEW j \in Jobs, CreateJob(j) PROVE TypeOK' /\ AtWork'
    BY <2>1 DEF CreateJob
  <2>2. ASSUME NEW u \in Uploads, NEW j \in Jobs, NEW n \in Names,
               UploadBegin(u, j, n)
        PROVE  TypeOK' /\ AtWork'
    <3>1. overlapped' \in SUBSET Jobs BY <2>2 DEF UploadBegin
    <3>2. part' \in [Jobs \X Names -> Files] BY <2>2 DEF UploadBegin, Files
    <3> QED BY <2>2, <3>1, <3>2 DEF UploadBegin
  <2>3. ASSUME NEW u \in Uploads, UploadStep(u) PROVE TypeOK' /\ AtWork'
    <3> USE DEF Files
    <3>1. CASE UploadReplace(u)
      <4>1. upload[u] \in Jobs \X Names BY <3>1 DEF UploadReplace
      <4>2. Closed(u, part, "whole") \in [Jobs \X Names -> Files]
        BY ClosedType
      <4>3. Closed(u, target, "whole") \in [Jobs \X Names -> Files]
        BY ClosedType
      <4>4. Closed(u, part, "whole")[upload[u]] \in Files
        BY <4>1, <4>2
      <4>5. part' \in [Jobs \X Names -> Files]
        BY <3>1, <4>2 DEF UploadReplace
      <4>6. target' \in [Jobs \X Names -> Files]
        BY <3>1, <4>3, <4>4, ZenonT(60) DEF UploadReplace
      <4> QED BY <3>1, <4>5, <4>6 DEF UploadReplace
    <3>2. CASE UploadBreaks(u)
      BY <3>2, ClosedType DEF UploadBreaks
    <3>3. CASE UploadFinalize(u)
      <4>1. upload[u][1] \in Jobs /\ upload[u][2] \in Names
        BY <3>3 DEF UploadFinalize
      <4>2. /\ status' \in [Jobs -> Statuses]
            /\ input' \in [Jobs -> {"none"} \cup Names]
        BY <3>3, <4>1 DEF UploadFinalize
      <4>3. AtWork' /\ undone' \in SUBSET Jobs
        BY <3>3, <4>1 DEF UploadFinalize
      <4>4. pc' \in [Uploads -> {"idle"} \cup UploadPCs]
        BY <3>3 DEF UploadFinalize
      <4>5. upload' \in [Uploads -> (Jobs \X Names) \cup {None}]
        BY <3>3 DEF UploadFinalize
      <4>6. errors' \in Nat /\ restarts' \in Nat
        BY <3>3 DEF UploadFinalize
      <4> QED BY <3>3, <4>2, <4>3, <4>4, <4>5, <4>6 DEF UploadFinalize
    <3>4. CASE UploadUndo(u) BY <3>4 DEF UploadUndo
    <3> QED BY <2>3, <3>1, <3>2, <3>3, <3>4 DEF UploadStep
  <2>4. ASSUME WorkerStep PROVE TypeOK' /\ AtWork'
    <3> USE DEF Reports
    <3>1. CASE PollQueue BY <3>1 DEF PollQueue, Queued, Jobs
    <3>2. CASE MarkRunning
      <4>1. status' \in [Jobs -> Statuses] BY <3>2 DEF MarkRunning
      <4>2. progress' \in [Jobs -> Reports \cup {100}] BY <3>2 DEF MarkRunning
      <4>3. error' \in [Jobs -> BOOLEAN] BY <3>2 DEF MarkRunning
      <4> QED BY <3>2, <4>1, <4>2, <4>3 DEF MarkRunning
    <3>3. CASE RequireHandler BY <3>3 DEF RequireHandler
    <3>4. CASE HandlerDone BY <3>4 DEF HandlerDone
    <3>5. CASE MarkCompleted
      <4>1. status' \in [Jobs -> Statuses] BY <3>5 DEF MarkCompleted
      <4>2. progress' \in [Jobs -> Reports \cup {100}] BY <3>5 DEF MarkCompleted
      <4>3. error' \in [Jobs -> BOOLEAN] BY <3>5 DEF MarkCompleted
      <4>4. result' \in [Jobs -> BOOLEAN] BY <3>5 DEF MarkCompleted
      <4> QED BY <3>5, <4>1, <4>2, <4>3, <4>4 DEF MarkCompleted
    <3>6. CASE MarkFailed
      <4>1. status' \in [Jobs -> Statuses] BY <3>6 DEF MarkFailed
      <4>2. progress' \in [Jobs -> Reports \cup {100}] BY <3>6 DEF MarkFailed
      <4>3. error' \in [Jobs -> BOOLEAN] BY <3>6 DEF MarkFailed
      <4>4. stranded' \in SUBSET Jobs BY <3>6 DEF MarkFailed, Strand
      <4> QED BY <3>6, <4>1, <4>2, <4>3, <4>4 DEF MarkFailed
    <3>7. CASE MarkFailedRefused BY <3>7 DEF MarkFailedRefused, Strand
    <3> QED BY <2>4, <3>1, <3>2, <3>3, <3>4, <3>5, <3>6, <3>7 DEF WorkerStep
  <2>5. ASSUME ReportProgress PROVE TypeOK' /\ AtWork'
    BY <2>5 DEF ReportProgress
  <2>6. ASSUME Restart PROVE TypeOK' /\ AtWork'
    BY <2>6 DEF Restart, Files
  <2>7. CASE UNCHANGED vars
    BY <2>7 DEF vars
  <2> QED
    BY <2>1, <2>2, <2>3, <2>4, <2>5, <2>6, <2>7 DEF Next
<1> QED
  BY <1>1, <1>2, PTL DEF Spec

-----------------------------------------------------------------------------
(* Running jobs and recorded outcomes, whatever clients do. *)

\* A handler at work has been counted.
HandlersAreCounted == wpc \in {"handler", "complete"} => calls[wjob] > 0

RowInv == RunningIsOwned /\ OutcomeRecorded /\ HandlersAreCounted

(* The inductive invariant behind the two theorems below. *)
THEOREM RowsInvariant == Spec => []RowInv
<1> USE DEF RowInv, RunningIsOwned, OutcomeRecorded, HandlersAreCounted
<1>1. Init => RowInv
  BY DEF Init
<1>2. TypeOK /\ AtWork /\ RowInv /\ [Next]_vars => RowInv'
  <2> SUFFICES ASSUME TypeOK, AtWork, RowInv, [Next]_vars PROVE RowInv'
    OBVIOUS
  <2> USE DEF TypeOK, AtWork, WorkPCs, SetRow, GotoU, Answer, NextJob, DbRaises,
              rowVars, fileVars, jobVars, uploadVars, workerVars, boundVars
  <2>1. ASSUME NEW j \in Jobs, CreateJob(j) PROVE RowInv'
    BY <2>1 DEF CreateJob
  <2>2. ASSUME NEW u \in Uploads, NEW j \in Jobs, NEW n \in Names,
               UploadBegin(u, j, n)
        PROVE  RowInv'
    BY <2>2 DEF UploadBegin
  <2>3. ASSUME NEW u \in Uploads, UploadStep(u) PROVE RowInv'
    <3>1. CASE UploadReplace(u) BY <3>1 DEF UploadReplace
    <3>2. CASE UploadBreaks(u) BY <3>2 DEF UploadBreaks
    <3>3. CASE UploadFinalize(u) BY <3>3 DEF UploadFinalize
    <3>4. CASE UploadUndo(u) BY <3>4 DEF UploadUndo
    <3> QED BY <2>3, <3>1, <3>2, <3>3, <3>4 DEF UploadStep
  <2>4. ASSUME WorkerStep PROVE RowInv'
    <3>1. CASE PollQueue BY <3>1 DEF PollQueue
    <3>2. CASE MarkRunning
      <4>1. RunningIsOwned' BY <3>2 DEF MarkRunning
      <4>2. OutcomeRecorded' BY <3>2 DEF MarkRunning
      <4> QED BY <3>2, <4>1, <4>2 DEF MarkRunning
    <3>3. CASE RequireHandler BY <3>3 DEF RequireHandler
    <3>4. CASE HandlerDone BY <3>4 DEF HandlerDone
    <3>5. CASE MarkCompleted
      <4>1. RunningIsOwned' BY <3>5 DEF MarkCompleted
      <4>2. OutcomeRecorded' BY <3>5 DEF MarkCompleted
      <4> QED BY <3>5, <4>1, <4>2 DEF MarkCompleted
    <3>6. CASE MarkFailed
      <4>1. RunningIsOwned' BY <3>6 DEF MarkFailed, Strand
      <4>2. OutcomeRecorded' BY <3>6 DEF MarkFailed
      <4> QED BY <3>6, <4>1, <4>2 DEF MarkFailed
    <3>7. CASE MarkFailedRefused BY <3>7 DEF MarkFailedRefused, Strand
    <3> QED BY <2>4, <3>1, <3>2, <3>3, <3>4, <3>5, <3>6, <3>7 DEF WorkerStep
  <2>5. ASSUME ReportProgress PROVE RowInv'
    BY <2>5 DEF ReportProgress
  <2>6. ASSUME Restart PROVE RowInv'
    BY <2>6 DEF Restart
  <2>7. CASE UNCHANGED vars
    BY <2>7 DEF vars
  <2> QED
    BY <2>1, <2>2, <2>3, <2>4, <2>5, <2>6, <2>7 DEF Next
<1> QED
  BY <1>1, <1>2, TypeCorrect, PTL DEF Spec

(* A running job is the worker's or was stranded: nothing else can happen to
   it between mark_job_running and its outcome. *)
THEOREM RunningJobsAreOwned == Spec => []RunningIsOwned
<1>1. RowInv => RunningIsOwned
  BY DEF RowInv
<1> QED
  BY <1>1, RowsInvariant, PTL

(* An outcome comes with its evidence. *)
THEOREM OutcomesAreRecorded == Spec => []OutcomeRecorded
<1>1. RowInv => OutcomeRecorded
  BY DEF RowInv
<1> QED
  BY <1>1, RowsInvariant, PTL

-----------------------------------------------------------------------------
(* What a client that waits for its answers is promised: input files and
   progress. *)

\* An upload that met no other one about its job owns the job, which waits for
\* it, and the two files it writes.
UploadOwnsJob ==
    \A u \in Uploads :
        /\ pc[u] = "idle" => upload[u] = None
        /\ upload[u][1] \in Jobs \ overlapped =>
              /\ status[upload[u][1]] # "preparing" =>
                    pc[u] = "undo" /\ upload[u][1] \in undone
              /\ \A v \in Uploads : upload[v][1] = upload[u][1] => v = u
              /\ pc[u] = "receive" => part[upload[u]] = u
              /\ pc[u] = "finalize" => target[upload[u]] = "whole"

\* The row of the worker's job says what the worker is doing.
WorkerOwnsJob ==
    wjob \in Jobs \ overlapped =>
        /\ wpc = "start" => status[wjob] = "queued"
        /\ wpc \in WorkPCs =>
              \/ status[wjob] = "running"
              \/ status[wjob] = "completed" /\ wpc = "fail" /\ wjob \in revised

OwnInv == UploadOwnsJob /\ WorkerOwnsJob /\ InputIsWhole /\ ProgressAgrees

(* The inductive invariant behind the two theorems below. *)
THEOREM OwnersInvariant == Spec => []OwnInv
<1> USE DEF OwnInv
<1>1. Init => OwnInv
  <2> SUFFICES ASSUME Init PROVE OwnInv
    OBVIOUS
  <2> QED BY DEF Init, UploadOwnsJob, WorkerOwnsJob, InputIsWhole, ProgressAgrees, WorkPCs,
             None, Jobs
<1>2. TypeOK /\ AtWork /\ OwnInv /\ [Next]_vars => OwnInv'
  <2> SUFFICES ASSUME TypeOK, AtWork, OwnInv, [Next]_vars PROVE OwnInv'
    OBVIOUS
  <2>a. None[1] \notin Jobs
    BY DEF None, Jobs
  <2> USE <2>a, UploadAssumption DEF TypeOK, AtWork, SetRow, GotoU, Answer, NextJob, DbRaises,
              rowVars, fileVars, jobVars, uploadVars, workerVars, boundVars
  <2>1. ASSUME NEW j \in Jobs, CreateJob(j) PROVE OwnInv'
    <3>1. UploadOwnsJob' BY <2>1 DEF CreateJob, UploadOwnsJob
    <3>2. WorkerOwnsJob' BY <2>1 DEF CreateJob, WorkerOwnsJob, WorkPCs
    <3>3. InputIsWhole' BY <2>1 DEF CreateJob, InputIsWhole
    <3>4. ProgressAgrees' BY <2>1 DEF CreateJob, ProgressAgrees, Finished
    <3> QED BY <3>1, <3>2, <3>3, <3>4
  <2>2. ASSUME NEW u \in Uploads, NEW j \in Jobs, NEW n \in Names,
               UploadBegin(u, j, n)
        PROVE  OwnInv'
    <3>1. UploadOwnsJob'
      <4>1. /\ upload' = [upload EXCEPT ![u] = <<j, n>>]
            /\ part' = [part EXCEPT ![<<j, n>>] = u]
            /\ pc' = [pc EXCEPT ![u] = "receive"]
            /\ pc[u] = "idle" /\ upload[u] = None /\ status[j] = "preparing"
            /\ UNCHANGED <<status, target, undone>>
        BY <2>2 DEF UploadBegin, UploadOwnsJob
      <4>2. overlapped \subseteq overlapped'
        BY <2>2 DEF UploadBegin
      <4>3. j \notin overlapped' => \A v \in Uploads : upload[v][1] # j
        BY <2>2 DEF UploadBegin
      <4>4. ASSUME NEW v \in Uploads, v # u, upload[v][1] \in Jobs \ overlapped'
            PROVE  upload[v] # <<j, n>> /\ part'[upload[v]] = part[upload[v]]
        <5>1. upload[v][1] # j
          BY <4>3, <4>4
        <5>2. upload[v] # <<j, n>>
          BY <5>1
        <5> QED BY <4>1, <5>2
      <4>5. ASSUME NEW v \in Uploads, v # u
            PROVE  /\ pc'[v] = "idle" => upload'[v] = None
                   /\ upload'[v][1] \in Jobs \ overlapped' =>
                         /\ status'[upload'[v][1]] # "preparing" =>
                               pc'[v] = "undo" /\ upload'[v][1] \in undone'
                         /\ \A w \in Uploads : upload'[w][1] = upload'[v][1] => w = v
                         /\ pc'[v] = "receive" => part'[upload'[v]] = v
                         /\ pc'[v] = "finalize" => target'[upload'[v]] = "whole"
        BY <4>1, <4>2, <4>3, <4>4, <4>5 DEF UploadOwnsJob
      <4>6. /\ upload'[u] = <<j, n>> /\ pc'[u] = "receive" /\ part'[<<j, n>>] = u
            /\ status'[j] = "preparing"
        BY <4>1
      <4>7. j \notin overlapped' => \A w \in Uploads : upload'[w][1] = j => w = u
        BY <4>1, <4>3
      <4>8. /\ pc'[u] # "idle" /\ pc'[u] # "finalize"
            /\ upload'[u][1] = j /\ part'[upload'[u]] = u
        BY <4>6
      <4>9. ASSUME NEW v \in Uploads
            PROVE  /\ pc'[v] = "idle" => upload'[v] = None
                   /\ upload'[v][1] \in Jobs \ overlapped' =>
                         /\ status'[upload'[v][1]] # "preparing" =>
                               pc'[v] = "undo" /\ upload'[v][1] \in undone'
                         /\ \A w \in Uploads : upload'[w][1] = upload'[v][1] => w = v
                         /\ pc'[v] = "receive" => part'[upload'[v]] = v
                         /\ pc'[v] = "finalize" => target'[upload'[v]] = "whole"
        <5>1. CASE v = u BY <5>1, <4>6, <4>7, <4>8
        <5>2. CASE v # u BY <5>2, <4>5
        <5> QED BY <5>1, <5>2
      <4> QED BY <4>9 DEF UploadOwnsJob
    <3>2. WorkerOwnsJob' BY <2>2 DEF UploadBegin, WorkerOwnsJob
    <3>3. InputIsWhole' BY <2>2 DEF UploadBegin, InputIsWhole
    <3>4. ProgressAgrees' BY <2>2 DEF UploadBegin, ProgressAgrees
    <3> QED BY <3>1, <3>2, <3>3, <3>4
  <2>3. ASSUME NEW u \in Uploads, UploadStep(u) PROVE OwnInv'
    <3>1. CASE UploadReplace(u)
      <4>1. upload[u] \in Jobs \X Names BY <3>1 DEF UploadReplace
      <4>2. /\ part' = [Closed(u, part, "whole") EXCEPT ![upload[u]] = "none"]
            /\ target' = [Closed(u, target, "whole") EXCEPT
                             ![upload[u]] = Closed(u, part, "whole")[upload[u]]]
            /\ pc' = [pc EXCEPT ![u] = "finalize"]
            \/ /\ part[upload[u]] = "none"
               /\ part' = Closed(u, part, "whole")
               /\ target' = Closed(u, target, "whole")
               /\ pc' = [pc EXCEPT ![u] = "undo"]
        BY <3>1 DEF UploadReplace
      <4>3. /\ Closed(u, part, "whole") \in [Jobs \X Names -> Files]
            /\ Closed(u, target, "whole") \in [Jobs \X Names -> Files]
        BY ClosedType DEF Files
      <4>4. \A i \in Jobs \X Names : target[i] = "whole" /\ i # upload[u] => target'[i] = "whole"
        BY <4>2, <4>3, ZenonT(60) DEF Closed
      <4>5. \A i \in Jobs \X Names : part[i] # u /\ i # upload[u] => part'[i] = part[i]
        BY <4>2, <4>3, ZenonT(60) DEF Closed
      <4>6. upload[u][1] \in Jobs \ overlapped =>
               part[upload[u]] = u /\ target'[upload[u]] = "whole"
        <5>1. upload[u][1] \in Jobs \ overlapped => part[upload[u]] = u
          BY <3>1 DEF UploadReplace, UploadOwnsJob
        <5>2. part[upload[u]] = u => Closed(u, part, "whole")[upload[u]] = "whole"
          BY <4>1 DEF Closed
        <5> QED BY <4>1, <4>2, <4>3, <5>1, <5>2
      <4>7. UNCHANGED <<upload, status, overlapped, undone>> /\ pc[u] = "receive"
        BY <3>1 DEF UploadReplace
      <4>8. UploadOwnsJob'
        <5>1. ASSUME NEW v \in Uploads, v # u, upload[v][1] \in Jobs \ overlapped
              PROVE  /\ pc[v] = "receive" => part'[upload[v]] = v
                     /\ pc[v] = "finalize" => target'[upload[v]] = "whole"
          <6>1. upload[v] \in Jobs \X Names /\ upload[v] # upload[u]
            BY <4>1, <5>1 DEF UploadOwnsJob
          <6> QED BY <4>4, <4>5, <5>1, <6>1 DEF UploadOwnsJob
        <5>2. \A v \in Uploads \ {u} : pc'[v] = pc[v]
          BY <4>2
        <5>3. pc'[u] \in {"finalize", "undo"}
          BY <4>2
        <5> QED BY <4>6, <4>7, <5>1, <5>2, <5>3 DEF UploadOwnsJob
      <4>9. InputIsWhole'
        <5>1. ASSUME NEW j \in Jobs \ (overlapped \cup undone), prepared[j], input[j] # "none",
                     status[j] \notin {"absent", "preparing"}
              PROVE  target'[<<j, input[j]>>] = "whole"
          <6>1. upload[u][1] # j
            BY <4>1, <5>1 DEF UploadOwnsJob
          <6>2. <<j, input[j]>> \in Jobs \X Names /\ <<j, input[j]>> # upload[u]
            BY <5>1, <6>1
          <6>3. target[<<j, input[j]>>] = "whole"
            BY <5>1 DEF InputIsWhole
          <6> QED BY <4>4, <6>2, <6>3
        <5> QED BY <3>1, <5>1 DEF InputIsWhole, UploadReplace
      <4> QED BY <3>1, <4>8, <4>9 DEF UploadReplace, WorkerOwnsJob, ProgressAgrees
    <3>2. CASE UploadBreaks(u)
      <4>1. upload[u] \in Jobs \X Names BY <3>2 DEF UploadBreaks
      <4>2. \A i \in Jobs \X Names : target[i] = "whole" => target'[i] = "whole"
        BY <3>2 DEF UploadBreaks, Closed
      <4>3. \A i \in Jobs \X Names : part[i] # u => part'[i] = part[i]
        BY <3>2 DEF UploadBreaks, Closed
      <4>4. /\ UNCHANGED <<upload, status, overlapped, undone, input, prepared>>
            /\ pc' = [pc EXCEPT ![u] = "undo"]
        BY <3>2 DEF UploadBreaks
      <4>5. UploadOwnsJob'
        <5>1. ASSUME NEW v \in Uploads, v # u, upload[v][1] \in Jobs \ overlapped
              PROVE  /\ pc[v] = "receive" => part'[upload[v]] = v
                     /\ pc[v] = "finalize" => target'[upload[v]] = "whole"
          <6>1. upload[v] \in Jobs \X Names
            BY <5>1
          <6> QED BY <4>2, <4>3, <5>1, <6>1 DEF UploadOwnsJob
        <5> QED BY <4>1, <4>4, <5>1 DEF UploadOwnsJob, UploadPCs
      <4>6. InputIsWhole'
        BY <4>2, <4>4 DEF InputIsWhole
      <4> QED BY <3>2, <4>5, <4>6 DEF UploadBreaks, WorkerOwnsJob, ProgressAgrees
    <3>3. CASE UploadFinalize(u)
      <4>1. /\ upload[u] \in Jobs \X Names
            /\ upload[u] = <<upload[u][1], upload[u][2]>>
            /\ pc[u] = "finalize"
        BY <3>3 DEF UploadFinalize
      <4>2. CASE UNCHANGED <<status, input, upload, undone>> /\ pc' = [pc EXCEPT ![u] = "undo"]
        BY <3>3, <4>2, <4>1 DEF UploadFinalize, UploadOwnsJob, WorkerOwnsJob, InputIsWhole,
                                ProgressAgrees
      <4>3. CASE /\ status' = [status EXCEPT ![upload[u][1]] = "queued"]
                 /\ input' = [input EXCEPT ![upload[u][1]] = upload[u][2]]
                 /\ \/ /\ upload' = [upload EXCEPT ![u] = None]
                       /\ pc' = [pc EXCEPT ![u] = "idle"]
                       /\ undone' = undone
                    \/ /\ upload' = upload
                       /\ pc' = [pc EXCEPT ![u] = "undo"]
                       /\ undone' = undone \cup {upload[u][1]}
        <5>1. UNCHANGED <<progress, prepared, part, target, overlapped, revised, wpc, wjob>>
          BY <3>3 DEF UploadFinalize
        <5>2. ASSUME NEW v \in Uploads, v # u, upload[v][1] \in Jobs \ overlapped
              PROVE  upload[v][1] # upload[u][1]
          BY <5>2 DEF UploadOwnsJob
        <5>3. UploadOwnsJob'
          <6>1. ASSUME NEW v \in Uploads, v # u
                PROVE  upload'[v] = upload[v] /\ pc'[v] = pc[v]
            BY <4>3, <6>1
          <6>2. ASSUME NEW j \in Jobs, j # upload[u][1]
                PROVE  status'[j] = status[j]
            BY <4>3, <6>2
          <6>3. undone \subseteq undone'
            BY <4>3
          <6>4. CASE upload'[u] = None /\ pc'[u] = "idle"
            BY <5>1, <5>2, <6>1, <6>2, <6>3, <6>4 DEF UploadOwnsJob
          <6>5. CASE upload'[u] = upload[u] /\ pc'[u] = "undo" /\ upload[u][1] \in undone'
            BY <5>1, <5>2, <6>1, <6>2, <6>3, <6>5 DEF UploadOwnsJob
          <6> QED BY <4>3, <6>4, <6>5
        <5>4. WorkerOwnsJob'
          BY <4>1, <4>3, <5>1 DEF UploadOwnsJob, WorkerOwnsJob, WorkPCs
        <5>5. InputIsWhole'
          <6>1. ASSUME NEW j \in Jobs \ overlapped, j = upload[u][1]
                PROVE  input'[j] # "none" /\ target'[<<j, input'[j]>>] = "whole"
            <7>1. input'[j] = upload[u][2] /\ upload[u][2] \in Names
              BY <4>1, <4>3, <6>1
            <7>2. target[upload[u]] = "whole"
              BY <4>1, <6>1 DEF UploadOwnsJob
            <7> QED BY <4>1, <5>1, <6>1, <7>1, <7>2, NamesAssumption
          <6>2. ASSUME NEW j \in Jobs \ overlapped, j # upload[u][1]
                PROVE  status'[j] = status[j] /\ input'[j] = input[j]
            BY <4>1, <4>3, <6>2
          <6>3. undone \subseteq undone'
            BY <4>3
          <6> QED BY <5>1, <6>1, <6>2, <6>3 DEF InputIsWhole
        <5>6. ProgressAgrees'
          BY <4>1, <4>3, <5>1 DEF UploadOwnsJob, ProgressAgrees, Finished, Reports
        <5> QED BY <5>3, <5>4, <5>5, <5>6
      <4> QED BY <3>3, <4>2, <4>3 DEF UploadFinalize
    <3>4. CASE UploadUndo(u)
      <4>1. upload[u] \in Jobs \X Names /\ pc[u] = "undo" BY <3>4 DEF UploadUndo
      <4>2. /\ part' = [part EXCEPT ![upload[u]] = "none"]
            /\ target' = [target EXCEPT ![upload[u]] = "none"]
            /\ upload' = [upload EXCEPT ![u] = None]
            /\ pc' = [pc EXCEPT ![u] = "idle"]
            /\ UNCHANGED <<status, overlapped, undone, input, prepared>>
        BY <3>4 DEF UploadUndo
      <4>3. UploadOwnsJob'
        <5>1. ASSUME NEW v \in Uploads, v # u, upload[v][1] \in Jobs \ overlapped
              PROVE  upload[v] # upload[u]
          BY <5>1 DEF UploadOwnsJob
        <5> QED BY <4>1, <4>2, <5>1 DEF UploadOwnsJob
      <4>4. InputIsWhole'
        <5>1. ASSUME NEW j \in Jobs \ (overlapped \cup undone), status[j] \notin {"absent", "preparing"}
              PROVE  <<j, input[j]>> # upload[u]
          BY <4>1, <5>1 DEF UploadOwnsJob
        <5> QED BY <4>2, <5>1 DEF InputIsWhole
      <4> QED BY <3>4, <4>3, <4>4 DEF UploadUndo, WorkerOwnsJob, ProgressAgrees
    <3> QED BY <2>3, <3>1, <3>2, <3>3, <3>4 DEF UploadStep
  <2>4. ASSUME WorkerStep PROVE OwnInv'
    <3> USE DEF WorkPCs
    <3>1. CASE PollQueue
      BY <3>1 DEF PollQueue, Queued, UploadOwnsJob, WorkerOwnsJob, InputIsWhole, ProgressAgrees
    <3>2. CASE MarkRunning
      <4>1. UploadOwnsJob' BY <3>2 DEF MarkRunning, UploadOwnsJob, WorkerOwnsJob
      <4>2. WorkerOwnsJob' BY <3>2 DEF MarkRunning, WorkerOwnsJob, Jobs
      <4>3. InputIsWhole' BY <3>2 DEF MarkRunning, WorkerOwnsJob, InputIsWhole
      <4>4. ProgressAgrees'
        BY <3>2 DEF MarkRunning, WorkerOwnsJob, ProgressAgrees, Finished
      <4> QED BY <4>1, <4>2, <4>3, <4>4
    <3>3. CASE RequireHandler
      BY <3>3 DEF RequireHandler, UploadOwnsJob, WorkerOwnsJob, InputIsWhole, ProgressAgrees
    <3>4. CASE HandlerDone
      BY <3>4 DEF HandlerDone, UploadOwnsJob, WorkerOwnsJob, InputIsWhole, ProgressAgrees
    <3>5. CASE MarkCompleted
      <4>1. UploadOwnsJob' BY <3>5 DEF MarkCompleted, UploadOwnsJob, WorkerOwnsJob
      <4>2. WorkerOwnsJob'
        <5>1. CASE wjob' = 0
          BY <5>1 DEF WorkerOwnsJob, Jobs
        <5>2. CASE wjob' = wjob /\ wpc' \in {"failFull", "broken"} /\ UNCHANGED <<status, revised>>
          BY <3>5, <5>2 DEF MarkCompleted, WorkerOwnsJob
        <5>3. CASE /\ wjob' = wjob /\ wpc' = "fail" /\ wjob \in revised'
                   /\ status' = [status EXCEPT ![wjob] = "completed"]
          BY <3>5, <5>3 DEF MarkCompleted, WorkerOwnsJob
        <5> QED BY <3>5, <5>1, <5>2, <5>3 DEF MarkCompleted
      <4>3. InputIsWhole' BY <3>5 DEF MarkCompleted, WorkerOwnsJob, InputIsWhole
      <4>4. ProgressAgrees'
        BY <3>5 DEF MarkCompleted, WorkerOwnsJob, ProgressAgrees, Finished
      <4> QED BY <4>1, <4>2, <4>3, <4>4
    <3>6. CASE MarkFailed
      <4>1. UploadOwnsJob' BY <3>6 DEF MarkFailed, UploadOwnsJob, WorkerOwnsJob
      <4>2. WorkerOwnsJob' BY <3>6 DEF MarkFailed, WorkerOwnsJob, Jobs
      <4>3. InputIsWhole' BY <3>6 DEF MarkFailed, WorkerOwnsJob, InputIsWhole
      <4>4. ProgressAgrees'
        BY <3>6 DEF MarkFailed, WorkerOwnsJob, ProgressAgrees, Finished
      <4> QED BY <4>1, <4>2, <4>3, <4>4
    <3>7. CASE MarkFailedRefused
      BY <3>7 DEF MarkFailedRefused, UploadOwnsJob, WorkerOwnsJob, InputIsWhole, ProgressAgrees,
                  Jobs
    <3> QED BY <2>4, <3>1, <3>2, <3>3, <3>4, <3>5, <3>6, <3>7 DEF WorkerStep
  <2>5. ASSUME ReportProgress PROVE OwnInv'
    <3>1. ProgressAgrees'
      BY <2>5 DEF ReportProgress, WorkerOwnsJob, ProgressAgrees, Reports, Finished, WorkPCs
    <3>2. WorkerOwnsJob'
      BY <2>5 DEF ReportProgress, WorkerOwnsJob, WorkPCs
    <3>3. UploadOwnsJob' /\ InputIsWhole'
      BY <2>5 DEF ReportProgress, UploadOwnsJob, InputIsWhole
    <3> QED BY <3>1, <3>2, <3>3
  <2>6. ASSUME Restart PROVE OwnInv'
    <3>1. \A i \in Jobs \X Names : target[i] = "whole" => target'[i] = "whole"
      BY <2>6 DEF Restart
    <3>2. InputIsWhole'
      BY <2>6, <3>1 DEF Restart, InputIsWhole
    <3> QED BY <2>6, <3>2 DEF Restart, UploadOwnsJob, WorkerOwnsJob, ProgressAgrees, WorkPCs, Jobs
  <2>7. CASE UNCHANGED vars
    BY <2>7 DEF vars, UploadOwnsJob, WorkerOwnsJob, InputIsWhole, ProgressAgrees
  <2> QED
    BY <2>1, <2>2, <2>3, <2>4, <2>5, <2>6, <2>7 DEF Next
<1> QED
  BY <1>1, <1>2, TypeCorrect, PTL DEF Spec

(* No job that needs an input file is queued, run or finished without it. *)
THEOREM InputsAreWhole == Spec => []InputIsWhole
<1>1. OwnInv => InputIsWhole
  BY DEF OwnInv
<1> QED
  BY <1>1, OwnersInvariant, PTL

(* Progress and status of a job agree. *)
THEOREM ProgressAlwaysAgrees == Spec => []ProgressAgrees
<1>1. OwnInv => ProgressAgrees
  BY DEF OwnInv
<1> QED
  BY <1>1, OwnersInvariant, PTL

-----------------------------------------------------------------------------
(* The refinement of JobLifecycle. *)

\* A job without overlapping uploads had no handler call before it was started,
\* and one between the call and the outcome.
CallsAgree ==
    \A j \in Jobs \ Untracked :
        /\ status[j] \in {"absent", "preparing", "queued"} => calls[j] = 0
        /\ wjob = j /\ wpc = "require" => calls[j] = 0
        /\ wjob = j /\ wpc \in {"handler", "complete"} => calls[j] = 1

(* The calls agree with the row and with the worker. *)
THEOREM CallsInvariant == Spec => []CallsAgree
<1> USE DEF CallsAgree, Untracked
<1>1. Init => CallsAgree
  BY DEF Init
<1>2. TypeOK /\ AtWork /\ OwnInv /\ CallsAgree /\ [Next]_vars => CallsAgree'
  <2> SUFFICES ASSUME TypeOK, AtWork, OwnInv, CallsAgree, [Next]_vars PROVE CallsAgree'
    OBVIOUS
  <2> USE DEF TypeOK, AtWork, WorkPCs, SetRow, GotoU, Answer, NextJob, DbRaises,
              rowVars, fileVars, jobVars, uploadVars, workerVars, boundVars
  <2>1. ASSUME NEW j \in Jobs, CreateJob(j) PROVE CallsAgree'
    BY <2>1 DEF CreateJob
  <2>2. ASSUME NEW u \in Uploads, NEW j \in Jobs, NEW n \in Names, UploadBegin(u, j, n)
        PROVE  CallsAgree'
    BY <2>2 DEF UploadBegin
  <2>3. ASSUME NEW u \in Uploads, UploadStep(u) PROVE CallsAgree'
    <3>1. CASE UploadReplace(u) BY <3>1 DEF UploadReplace
    <3>2. CASE UploadBreaks(u) BY <3>2 DEF UploadBreaks
    <3>3. CASE UploadFinalize(u)
      <4>1. upload[u] \in Jobs \X Names BY <3>3 DEF UploadFinalize
      <4>2. upload[u][1] \in Jobs \ Untracked => status[upload[u][1]] = "preparing"
        BY <3>3 DEF UploadFinalize, OwnInv, UploadOwnsJob
      <4> QED BY <3>3, <4>1, <4>2 DEF UploadFinalize
    <3>4. CASE UploadUndo(u) BY <3>4 DEF UploadUndo
    <3> QED BY <2>3, <3>1, <3>2, <3>3, <3>4 DEF UploadStep
  <2>4. ASSUME WorkerStep PROVE CallsAgree'
    <3> USE DEF OwnInv, WorkerOwnsJob
    <3>1. CASE PollQueue BY <3>1 DEF PollQueue
    <3>2. CASE MarkRunning BY <3>2 DEF MarkRunning
    <3>3. CASE RequireHandler BY <3>3 DEF RequireHandler
    <3>4. CASE HandlerDone BY <3>4 DEF HandlerDone
    <3>5. CASE MarkCompleted BY <3>5 DEF MarkCompleted
    <3>6. CASE MarkFailed BY <3>6 DEF MarkFailed
    <3>7. CASE MarkFailedRefused BY <3>7 DEF MarkFailedRefused
    <3> QED BY <2>4, <3>1, <3>2, <3>3, <3>4, <3>5, <3>6, <3>7 DEF WorkerStep
  <2>5. ASSUME ReportProgress PROVE CallsAgree'
    BY <2>5 DEF ReportProgress
  <2>6. ASSUME Restart PROVE CallsAgree'
    BY <2>6 DEF Restart
  <2>7. CASE UNCHANGED vars
    BY <2>7 DEF vars
  <2> QED
    BY <2>1, <2>2, <2>3, <2>4, <2>5, <2>6, <2>7 DEF Next
<1> QED
  BY <1>1, <1>2, TypeCorrect, OwnersInvariant, PTL DEF Spec

\* What JobLifecycle sees of the table.
State == [j \in Jobs |-> IF j \in Untracked THEN "lost" ELSE status[j]]
Starts == [j \in Jobs |-> IF j \in Untracked THEN 0 ELSE calls[j]]

(* KeepsLifecycle: the job table, the uploads and the worker implement
   JobLifecycle (services/job_service.py, jobs/worker.py). *)
THEOREM LifecycleIsKept == Spec => KeepsLifecycle
<1>1. Init => Lifecycle!LifecycleInit
  BY DEF Init, Lifecycle!LifecycleInit, Untracked
<1>2. TypeOK /\ AtWork /\ OwnInv /\ CallsAgree /\ [Next]_vars
        => [Lifecycle!LifecycleNext]_(Lifecycle!lifecycleVars)
  <2> SUFFICES ASSUME TypeOK, AtWork, OwnInv, CallsAgree, [Next]_vars
               PROVE  Lifecycle!LifecycleNext \/ (State' = State /\ Starts' = Starts)
    BY DEF Lifecycle!lifecycleVars, State, Starts
  <2> USE DEF TypeOK, State, Starts, Untracked
  \* A step that touches neither a status nor a call count.
  <2>a. ASSUME UNCHANGED <<status, calls, overlapped, revised>>
        PROVE  State' = State /\ Starts' = Starts
    BY <2>a
  \* One job changes its status, which nobody is told when it is not tracked.
  <2>b. ASSUME NEW j \in Jobs, NEW to \in Statuses,
               status' = [status EXCEPT ![j] = to], UNCHANGED <<calls, overlapped, revised>>
        PROVE  /\ Starts' = Starts
               /\ j \in Untracked => State' = State
               /\ j \notin Untracked => State' = [State EXCEPT ![j] = to]
                                         /\ State[j] = status[j] /\ Starts[j] = calls[j]
    <3>1. status'[j] = to /\ \A i \in Jobs \ {j} : status'[i] = status[i]
      BY <2>b
    <3>2. Starts' = Starts
      BY <2>b
    <3>3. ASSUME j \in Untracked PROVE State' = State
      BY <2>b, <3>1, <3>3
    <3>4. ASSUME j \notin Untracked
          PROVE  State' = [State EXCEPT ![j] = to] /\ State[j] = status[j] /\ Starts[j] = calls[j]
      <4>1. State'[j] = to /\ \A i \in Jobs \ {j} : State'[i] = State[i]
        BY <2>b, <3>1, <3>4
      <4>2. State[j] = status[j] /\ Starts[j] = calls[j]
        BY <3>4
      <4>3. State' = [i \in Jobs |-> State'[i]] /\ State = [i \in Jobs |-> State[i]]
        OBVIOUS
      <4> HIDE DEF State
      <4>4. State' = [State EXCEPT ![j] = to]
        BY <4>1, <4>3
      <4> QED BY <4>2, <4>4
    <3> QED BY <3>2, <3>3, <3>4
  <2>c. ASSUME NEW j \in Jobs,
               \/ Lifecycle!Submit(j) \/ Lifecycle!Withdraw(j) \/ Lifecycle!Start(j)
               \/ Lifecycle!Call(j) \/ Lifecycle!Finish(j)
        PROVE  Lifecycle!LifecycleNext
    BY <2>c DEF Lifecycle!LifecycleNext
  <2>1. ASSUME NEW j \in Jobs, CreateJob(j)
        PROVE  Lifecycle!LifecycleNext \/ (State' = State /\ Starts' = Starts)
    <3>1. PICK to \in {"preparing", "queued"} :
             /\ status[j] = "absent" /\ status' = [status EXCEPT ![j] = to]
             /\ UNCHANGED <<calls, overlapped, revised>>
      BY <2>1 DEF CreateJob, SetRow, uploadVars, jobVars, workerVars
    <3>2. j \notin Untracked => Lifecycle!Submit(j)
      BY <2>b, <3>1 DEF Lifecycle!Submit, Lifecycle!Move, Statuses
    <3> QED BY <2>b, <2>c, <3>1, <3>2 DEF Statuses
  <2>2. ASSUME NEW u \in Uploads, NEW j \in Jobs, NEW n \in Names, UploadBegin(u, j, n)
        PROVE  Lifecycle!LifecycleNext \/ (State' = State /\ Starts' = Starts)
    <3>1. /\ UNCHANGED <<status, calls>>
          /\ UNCHANGED revised
          /\ overlapped' = overlapped \cup {j} \/ overlapped' = overlapped
      BY <2>2 DEF UploadBegin, rowVars, workerVars
    <3>2. CASE overlapped' = overlapped \cup {j}
      <4>1. Lifecycle!Lose({j})
        BY <3>1, <3>2 DEF Lifecycle!Lose
      <4> QED BY <4>1 DEF Lifecycle!LifecycleNext
    <3> QED BY <2>a, <3>1, <3>2
  <2>3. ASSUME NEW u \in Uploads, UploadStep(u)
        PROVE  Lifecycle!LifecycleNext \/ (State' = State /\ Starts' = Starts)
    <3>1. CASE UNCHANGED <<status, calls, overlapped, revised>>
      BY <2>a, <3>1
    <3>2. CASE UploadFinalize(u) /\ status' # status
      <4>0. upload[u] \in Jobs \X Names
        BY <3>2 DEF UploadFinalize, AtWork
      <4>1. PICK j \in Jobs : j = upload[u][1]
        BY <4>0
      <4>2. status' = [status EXCEPT ![j] = "queued"] /\ UNCHANGED <<calls, overlapped, revised>>
        BY <3>2, <4>1 DEF UploadFinalize, SetRow, workerVars
      <4>3. j \notin Untracked => status[j] = "preparing"
        BY <3>2, <4>1 DEF UploadFinalize, OwnInv, UploadOwnsJob
      <4>4. j \notin Untracked => Lifecycle!Submit(j)
        BY <2>b, <4>2, <4>3 DEF Lifecycle!Submit, Lifecycle!Move, Statuses
      <4> QED BY <2>b, <2>c, <4>2, <4>4 DEF Statuses
    <3> QED
      BY <2>3, <3>1, <3>2 DEF UploadStep, UploadReplace, UploadBreaks, UploadFinalize, UploadUndo,
                              rowVars, jobVars, workerVars
  <2>4. ASSUME WorkerStep
        PROVE  Lifecycle!LifecycleNext \/ (State' = State /\ Starts' = Starts)
    <3>1. CASE UNCHANGED <<status, calls, overlapped, revised>>
      BY <2>a, <3>1
    <3>2. CASE MarkRunning /\ status' # status
      <4>1. PICK j \in Jobs : j = wjob
        BY <3>2 DEF MarkRunning, AtWork
      <4>2. /\ status' = [status EXCEPT ![j] = "running"] /\ UNCHANGED <<calls, overlapped, revised>>
            /\ wpc = "start"
        BY <3>2, <4>1 DEF MarkRunning, SetRow, uploadVars, jobVars
      <4>3. j \notin Untracked => status[j] = "queued"
        BY <4>1, <4>2 DEF OwnInv, WorkerOwnsJob
      <4>4. j \notin Untracked => Lifecycle!Start(j)
        BY <2>b, <4>2, <4>3 DEF Lifecycle!Start, Lifecycle!Move, Statuses
      <4> QED BY <2>b, <2>c, <4>2, <4>4 DEF Statuses
    <3>3. CASE RequireHandler /\ calls' # calls
      <4>1. PICK j \in Jobs : j = wjob
        BY <3>3 DEF RequireHandler, AtWork
      <4>2. /\ wpc = "require" /\ calls' = [calls EXCEPT ![j] = @ + 1]
            /\ UNCHANGED <<status, overlapped, revised>>
        BY <3>3, <4>1 DEF RequireHandler, rowVars, uploadVars, jobVars
      <4>3. CASE j \in Untracked
        BY <4>2, <4>3
      <4>4. CASE j \notin Untracked
        <5>1. status[j] = "running" /\ calls[j] = 0
          BY <4>1, <4>2, <4>4 DEF OwnInv, WorkerOwnsJob, WorkPCs, CallsAgree
        <5>2. State' = State /\ State[j] = "running" /\ Starts[j] = 0
          BY <4>2, <4>4, <5>1
        <5>3. calls' = [calls EXCEPT ![j] = 1]
          BY <4>2, <5>1
        <5>4. Starts'[j] = 1 /\ \A i \in Jobs \ {j} : Starts'[i] = Starts[i]
          BY <4>2, <4>4, <5>3
        <5>5. Starts' = [Starts EXCEPT ![j] = 1]
          BY <5>4
        <5>6. Lifecycle!Call(j)
          BY <5>2, <5>5 DEF Lifecycle!Call
        <5> QED BY <2>c, <5>6
      <4> QED BY <4>3, <4>4
    <3>4. CASE MarkCompleted /\ revised' = revised /\ status' # status
      <4>1. PICK j \in Jobs : j = wjob
        BY <3>4 DEF MarkCompleted, AtWork
      <4>2. /\ status' = [status EXCEPT ![j] = "completed"]
            /\ UNCHANGED <<calls, overlapped, revised>>
            /\ wpc = "complete"
        BY <3>4, <4>1 DEF MarkCompleted, SetRow, uploadVars, jobVars
      <4>3. j \notin Untracked => status[j] = "running" /\ calls[j] = 1
        BY <4>1, <4>2 DEF OwnInv, WorkerOwnsJob, WorkPCs, CallsAgree
      <4>4. j \notin Untracked => Lifecycle!Finish(j)
        BY <2>b, <4>2, <4>3 DEF Lifecycle!Finish, Lifecycle!Move, Statuses
      <4> QED BY <2>b, <2>c, <4>2, <4>4 DEF Statuses
    <3>5. CASE MarkFailed /\ status' # status
      <4>1. PICK j \in Jobs : j = wjob
        BY <3>5 DEF MarkFailed, AtWork
      <4>2. /\ status' = [status EXCEPT ![j] = "failed"] /\ UNCHANGED <<calls, overlapped, revised>>
            /\ wpc \in {"fail", "failFull"}
        BY <3>5, <4>1 DEF MarkFailed, SetRow, uploadVars, jobVars
      <4>3. j \notin Untracked => status[j] = "running"
        BY <4>1, <4>2 DEF OwnInv, WorkerOwnsJob, WorkPCs
      <4>4. j \notin Untracked => Lifecycle!Finish(j)
        BY <2>b, <4>2, <4>3 DEF Lifecycle!Finish, Lifecycle!Move, Statuses
      <4> QED BY <2>b, <2>c, <4>2, <4>4 DEF Statuses
    <3>6. CASE MarkCompleted /\ revised' # revised
      <4>1. PICK j \in Jobs : j = wjob
        BY <3>6 DEF MarkCompleted, AtWork
      <4>2. /\ status' = [status EXCEPT ![j] = "completed"]
            /\ revised' = revised \cup {j} /\ UNCHANGED <<calls, overlapped>>
        BY <3>6, <4>1 DEF MarkCompleted, SetRow, uploadVars, jobVars
      <4>3. Lifecycle!Lose({j})
        BY <4>2 DEF Lifecycle!Lose
      <4> QED BY <4>3 DEF Lifecycle!LifecycleNext
    <3> QED
      BY <2>4, <3>1, <3>2, <3>3, <3>4, <3>5, <3>6
         DEF WorkerStep, PollQueue, MarkRunning, RequireHandler, HandlerDone, MarkCompleted,
             MarkFailed, MarkFailedRefused, rowVars, uploadVars, jobVars
  <2>5. CASE ReportProgress \/ Restart \/ UNCHANGED vars
    BY <2>a, <2>5 DEF ReportProgress, Restart, vars, rowVars, uploadVars, jobVars, workerVars
  <2> QED
    BY <2>1, <2>2, <2>3, <2>4, <2>5 DEF Next
<1> QED
  BY <1>1, <1>2, TypeCorrect, OwnersInvariant, CallsInvariant, PTL
     DEF Spec, KeepsLifecycle, Lifecycle!LifecycleSpec
=============================================================================
