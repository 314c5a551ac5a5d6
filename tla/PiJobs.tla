-------------------------------- MODULE PiJobs --------------------------------
(***************************************************************************)
(* The jobs of the AI node: the job table (app/services/job_service.py),   *)
(* the endpoints of app/api/jobs.py and the worker thread of               *)
(* app/jobs/worker.py.  The table is an SQLite file: it survives a         *)
(* restart, and a commit, or reading the row back after it, may raise.     *)
(* The upload endpoint is a coroutine: uploads give way to each other only *)
(* while they wait for body data, and hold the Job object they loaded at   *)
(* the start.  The worker is a thread of its own and meets the uploads     *)
(* only in the table and in the files.                                     *)
(***************************************************************************)
EXTENDS Naturals, FiniteSets

CONSTANTS
    JobCount,       \* bound on the number of jobs; ids are 1 .. JobCount
    Uploads,        \* upload requests under way at once
    Names,          \* file names an upload may announce (X-Filename)
    MaxRestarts,    \* bound on restarts of the service
    MaxErrors       \* bound on commits and reads after a commit that raise

ASSUME CountAssumption  == JobCount \in Nat
ASSUME BoundAssumption  == MaxRestarts \in Nat /\ MaxErrors \in Nat

Jobs == 1 .. JobCount

None == <<0, "none">>

ASSUME UploadAssumption == Uploads \cap {"none", "whole", "cut"} = {}
ASSUME NamesAssumption  == "none" \notin Names

VARIABLES
    status,     \* jobs.status, "absent" before POST /jobs
    progress,   \* jobs.progress
    result,     \* jobs.result is not NULL
    error,      \* jobs.error is not NULL
    prepared,   \* the job was created with preparing=true
    input,      \* jobs.payload: the name of the input file, or "none"
    part,       \* job_inputs/<id>/<name>.part: who writes it, or what it is
    target,     \* job_inputs/<id>/<name>, in the same way
    pc,         \* what each upload does next
    upload,     \* the job it is about and the file name, None if there is none
    overlapped, \* jobs an upload arrived for during another one (history)
    wpc,        \* what the worker thread does next
    wjob,       \* the job it has loaded, 0 if there is none
    calls,      \* handler calls so far, per job
    stranded,   \* jobs left "running" by a crash or by an error outside the
                \* worker's inner try block
    undone,     \* jobs an upload queued and then answered with an error (history)
    revised,    \* jobs the worker completed and then marked failed (history)
    restarts,
    errors

rowVars    == <<status, progress, result, error, prepared, input>>
fileVars   == <<part, target>>
jobVars    == <<upload, overlapped, undone>>
uploadVars == <<pc, jobVars>>
workerVars == <<wpc, wjob, calls, stranded, revised>>
boundVars  == <<restarts, errors>>
vars == <<rowVars, fileVars, uploadVars, workerVars, boundVars>>

Statuses == {"absent", "preparing", "queued", "running", "completed", "failed"}
Finished == {"completed", "failed"}

\* The values of progress the code tells apart: 0 at creation, 1 at the start,
\* and whatever handlers report, clamped to 0 .. 99 (0 and 99 stand for it); 100
\* at the end.
Reports == {0, 1, 99}

\* A file that is there is complete, cut short, or still open in an upload.
Files == {"none", "whole", "cut"} \cup Uploads

UploadPCs == {"receive", "finalize", "undo"}
WorkPCs   == {"require", "handler", "complete", "fail", "failFull", "broken"}

TypeOK ==
    /\ status \in [Jobs -> Statuses]
    /\ progress \in [Jobs -> Reports \cup {100}]
    /\ result \in [Jobs -> BOOLEAN]
    /\ error \in [Jobs -> BOOLEAN]
    /\ prepared \in [Jobs -> BOOLEAN]
    /\ input \in [Jobs -> {"none"} \cup Names]
    /\ part \in [Jobs \X Names -> Files]
    /\ target \in [Jobs \X Names -> Files]
    /\ pc \in [Uploads -> {"idle"} \cup UploadPCs]
    /\ upload \in [Uploads -> (Jobs \X Names) \cup {None}]
    /\ overlapped \in SUBSET Jobs
    /\ wpc \in {"poll", "start"} \cup WorkPCs
    /\ wjob \in Nat
    /\ calls \in [Jobs -> Nat]
    /\ stranded \in SUBSET Jobs
    /\ undone \in SUBSET Jobs
    /\ revised \in SUBSET Jobs
    /\ restarts \in Nat
    /\ errors \in Nat

Init ==
    /\ status = [j \in Jobs |-> "absent"]
    /\ progress = [j \in Jobs |-> 0]
    /\ result = [j \in Jobs |-> FALSE]
    /\ error = [j \in Jobs |-> FALSE]
    /\ prepared = [j \in Jobs |-> FALSE]
    /\ input = [j \in Jobs |-> "none"]
    /\ part = [i \in Jobs \X Names |-> "none"]
    /\ target = [i \in Jobs \X Names |-> "none"]
    /\ pc = [u \in Uploads |-> "idle"]
    /\ upload = [u \in Uploads |-> None]
    /\ overlapped = {}
    /\ wpc = "poll"
    /\ wjob = 0
    /\ calls = [j \in Jobs |-> 0]
    /\ stranded = {}
    /\ undone = {}
    /\ revised = {}
    /\ restarts = 0
    /\ errors = 0

SetRow(j, s) == status' = [status EXCEPT ![j] = s]
GotoU(u, label) == pc' = [pc EXCEPT ![u] = label]
Answer(u) == GotoU(u, "idle") /\ upload' = [upload EXCEPT ![u] = None]

NextJob == wpc' = "poll" /\ wjob' = 0

\* db.commit raises and nothing is written, or db.refresh raises after a commit.
DbRaises ==
    /\ errors < MaxErrors
    /\ errors' = errors + 1
    /\ UNCHANGED restarts

-----------------------------------------------------------------------------
(* POST /jobs: create_job.  SQLite gives the next id; rows are never deleted. *)

CreateJob(j) ==
    /\ status[j] = "absent"
    /\ \A i \in Jobs : i < j => status[i] # "absent"
    /\ \E p \in BOOLEAN :
          /\ prepared' = [prepared EXCEPT ![j] = p]
          /\ SetRow(j, IF p THEN "preparing" ELSE "queued")
    /\ UNCHANGED <<progress, result, error, input, fileVars, uploadVars,
                   workerVars, boundVars>>

-----------------------------------------------------------------------------
(* PUT /jobs/{id}/input.  No other upload runs between the end of the body
   and the answer. *)

LoopFree(u) == \A v \in Uploads \ {u} : pc[v] \notin {"finalize", "undo"}

\* Once u has stopped writing, the files it has open are what they are.
Closed(u, f, as) == [i \in Jobs \X Names |-> IF f[i] = u THEN as ELSE f[i]]

UploadBegin(u, j, n) ==
    /\ pc[u] = "idle" /\ LoopFree(u)
    /\ status[j] = "preparing"
    /\ overlapped' = IF \E v \in Uploads : upload[v][1] = j
                     THEN overlapped \cup {j} ELSE overlapped
    /\ upload' = [upload EXCEPT ![u] = <<j, n>>]
    /\ part' = [part EXCEPT ![<<j, n>>] = u]
    /\ GotoU(u, "receive")
    /\ UNCHANGED <<rowVars, target, undone, workerVars, boundVars>>

\* All of the body has arrived: the temporary file, which may be another
\* upload's by now, becomes the input file.
UploadReplace(u) ==
    LET closed == Closed(u, part, "whole") IN
    /\ pc[u] = "receive" /\ LoopFree(u)
    /\ IF part[upload[u]] # "none"
       THEN /\ target' = [Closed(u, target, "whole") EXCEPT ![upload[u]] = closed[upload[u]]]
            /\ part' = [closed EXCEPT ![upload[u]] = "none"]
            /\ GotoU(u, "finalize")
       ELSE /\ target' = Closed(u, target, "whole")
            /\ part' = closed
            /\ GotoU(u, "undo")
    /\ UNCHANGED <<rowVars, jobVars, workerVars, boundVars>>

\* Mutant: the size of the body is not compared.
UploadBreaksUnseen(u) ==
    /\ pc[u] = "receive" /\ LoopFree(u)
    /\ part' = [part EXCEPT ![upload[u]] = "none"]
    /\ target' = [target EXCEPT ![upload[u]] = "cut"]
    /\ GotoU(u, "finalize")
    /\ UNCHANGED <<rowVars, jobVars, workerVars, boundVars>>

\* The body is shorter than announced, or the client is gone.
UploadBreaks(u) ==
    /\ pc[u] = "receive" /\ LoopFree(u)
    /\ part' = Closed(u, part, "cut")
    /\ target' = Closed(u, target, "cut")
    /\ GotoU(u, "undo")
    /\ UNCHANGED <<rowVars, jobVars, workerVars, boundVars>>

\* finalize_preparing_job: the status it tests is the one loaded before the
\* body arrived, so the test passes; payload and status are written, progress
\* and error are unchanged values of the loaded object and stay as they are.
\* When only reading the row back raises, the job stays queued.
UploadFinalize(u) ==
    LET j == upload[u][1]
        Commit == SetRow(j, "queued") /\ input' = [input EXCEPT ![j] = upload[u][2]] IN
    /\ pc[u] = "finalize"
    /\ \/ /\ Commit /\ Answer(u)
          /\ UNCHANGED <<undone, boundVars>>
       \/ /\ Commit /\ DbRaises
          /\ undone' = undone \cup {j}
          /\ GotoU(u, "undo")
          /\ UNCHANGED upload
       \/ /\ DbRaises
          /\ GotoU(u, "undo")
          /\ UNCHANGED <<status, input, upload, undone>>
    /\ UNCHANGED <<progress, result, error, prepared, fileVars, overlapped, workerVars>>

UploadUndo(u) ==
    /\ pc[u] = "undo"
    /\ part' = [part EXCEPT ![upload[u]] = "none"]
    /\ target' = [target EXCEPT ![upload[u]] = "none"]
    /\ Answer(u)
    /\ UNCHANGED <<rowVars, overlapped, undone, workerVars, boundVars>>

-----------------------------------------------------------------------------
(* worker_loop *)

Queued == {j \in Jobs : status[j] = "queued"}

PollQueue ==
    /\ wpc = "poll"
    /\ \E j \in Queued : (\A i \in Queued : j <= i) /\ wjob' = j
    /\ wpc' = "start"
    /\ UNCHANGED <<rowVars, fileVars, uploadVars, calls, stranded, revised, boundVars>>

\* mark_job_running stands outside the inner try block: what raises there ends
\* this turn of the loop, also after the commit.
MarkRunning ==
    LET Commit == /\ SetRow(wjob, "running")
                  /\ progress' = [progress EXCEPT ![wjob] = 1]
                  /\ error' = [error EXCEPT ![wjob] = FALSE] IN
    /\ wpc = "start"
    /\ \/ /\ Commit
          /\ wpc' = "require"
          /\ UNCHANGED <<wjob, stranded, boundVars>>
       \/ /\ Commit /\ DbRaises /\ NextJob
          /\ stranded' = stranded \cup {wjob}
       \/ /\ DbRaises /\ NextJob
          /\ UNCHANGED <<status, progress, error, stranded>>
    /\ UNCHANGED <<result, prepared, input, fileVars, uploadVars, calls, revised>>

\* Mutant: the lookup stands before the inner try block.
RequireOutside ==
    /\ wpc = "require"
    /\ \/ wpc' = "handler" /\ calls' = [calls EXCEPT ![wjob] = @ + 1] /\ UNCHANGED wjob
       \/ NextJob /\ UNCHANGED calls
    /\ UNCHANGED <<rowVars, fileVars, uploadVars, stranded, revised, boundVars>>

\* process_job: the handler is looked up (its plugin may be asleep, disabled
\* or gone), begin_job() may raise, then the handler is called.
RequireHandler ==
    /\ wpc = "require"
    /\ \/ wpc' = "handler" /\ calls' = [calls EXCEPT ![wjob] = @ + 1]
       \/ wpc' = "fail" /\ UNCHANGED calls
    /\ UNCHANGED <<rowVars, fileVars, uploadVars, wjob, stranded, revised, boundVars>>

\* Mutant: reports are clamped to 0 .. 100.
ReportUpTo100 ==
    /\ wpc = "handler"
    /\ \E r \in Reports \cup {100} : progress' = [progress EXCEPT ![wjob] = r]
    /\ UNCHANGED <<status, result, error, prepared, input, fileVars, uploadVars,
                   workerVars, boundVars>>

\* report_progress: max(0, min(int(progress), 99)); an error ends the handler,
\* and a commit that raised leaves the session in need of a rollback.
ReportProgress ==
    LET Commit == \E r \in Reports : progress' = [progress EXCEPT ![wjob] = r] IN
    /\ wpc = "handler"
    /\ \/ /\ Commit
          /\ UNCHANGED <<wpc, boundVars>>
       \/ /\ Commit /\ DbRaises
          /\ wpc' = "fail"
       \/ /\ DbRaises
          /\ wpc' = "broken"
          /\ UNCHANGED progress
    /\ UNCHANGED <<status, result, error, prepared, input, fileVars, uploadVars, wjob,
                   calls, stranded, revised>>

HandlerDone ==
    /\ wpc = "handler"
    /\ wpc' \in {"complete", "fail"}
    /\ UNCHANGED <<rowVars, fileVars, uploadVars, wjob, calls, stranded, revised,
                   boundVars>>

\* mark_job_completed sets status and progress on the object before it
\* serializes the result; a result that is no JSON raises there, and the
\* progress is still on the object when mark_job_failed commits it.  When only
\* reading the row back raises, mark_job_failed turns the completed job around.
MarkCompleted ==
    LET Commit == /\ SetRow(wjob, "completed")
                  /\ progress' = [progress EXCEPT ![wjob] = 100]
                  /\ result' = [result EXCEPT ![wjob] = TRUE]
                  /\ error' = [error EXCEPT ![wjob] = FALSE] IN
    /\ wpc = "complete"
    /\ \/ /\ Commit /\ NextJob
          /\ UNCHANGED <<revised, boundVars>>
       \/ /\ Commit /\ DbRaises
          /\ revised' = revised \cup {wjob}
          /\ wpc' = "fail"
          /\ UNCHANGED wjob
       \/ /\ wpc' = "failFull"
          /\ UNCHANGED <<status, progress, result, error, wjob, revised, boundVars>>
       \/ /\ DbRaises
          /\ wpc' = "broken"
          /\ UNCHANGED <<status, progress, result, error, wjob, revised>>
    /\ UNCHANGED <<prepared, input, fileVars, uploadVars, calls, stranded>>

Strand == stranded' = stranded \cup {j \in {wjob} : status[j] = "running"}

\* mark_job_failed; when it raises itself, before or after its commit, the loop
\* rolls back and goes on.
MarkFailed ==
    /\ wpc \in {"fail", "failFull"}
    /\ \/ /\ SetRow(wjob, "failed")
          /\ error' = [error EXCEPT ![wjob] = TRUE]
          /\ progress' = IF wpc = "failFull" THEN [progress EXCEPT ![wjob] = 100]
                                            ELSE progress
          /\ UNCHANGED <<stranded, boundVars>>
       \/ /\ DbRaises /\ Strand
          /\ UNCHANGED <<status, error, progress>>
    /\ NextJob
    /\ UNCHANGED <<result, prepared, input, fileVars, uploadVars, calls, revised>>

\* After a commit that raised, mark_job_failed raises in any case: SQLAlchemy
\* refuses the session until the rollback, which comes after it.
MarkFailedRefused ==
    /\ wpc = "broken"
    /\ Strand
    /\ NextJob
    /\ UNCHANGED <<rowVars, fileVars, uploadVars, calls, revised, boundVars>>

-----------------------------------------------------------------------------
(* The process ends at any point (the worker is a daemon thread, stop_worker
   waits five seconds) and starts again: the table and the files are what
   they were, and nothing looks at them. *)

\* Mutant: the start puts running jobs back into the queue.
RestartRequeues ==
    /\ restarts < MaxRestarts
    /\ restarts' = restarts + 1
    /\ status' = [j \in Jobs |-> IF status[j] = "running" THEN "queued" ELSE status[j]]
    /\ pc' = [u \in Uploads |-> "idle"]
    /\ upload' = [u \in Uploads |-> None]
    /\ wpc' = "poll" /\ wjob' = 0
    /\ UNCHANGED <<progress, result, error, prepared, input, fileVars, overlapped,
                   undone, calls, stranded, revised, errors>>

Restart ==
    /\ restarts < MaxRestarts
    /\ restarts' = restarts + 1
    /\ part' = [i \in Jobs \X Names |-> IF part[i] \in Uploads THEN "cut" ELSE part[i]]
    /\ target' = [i \in Jobs \X Names |-> IF target[i] \in Uploads THEN "cut" ELSE target[i]]
    /\ pc' = [u \in Uploads |-> "idle"]
    /\ upload' = [u \in Uploads |-> None]
    /\ stranded' = stranded \cup {j \in Jobs : status[j] = "running"}
    /\ wpc' = "poll" /\ wjob' = 0
    /\ UNCHANGED <<rowVars, overlapped, undone, calls, revised, errors>>

UploadStep(u) ==
    \/ UploadReplace(u)
    \/ UploadBreaks(u)
    \/ UploadFinalize(u)
    \/ UploadUndo(u)

WorkerStep ==
    \/ PollQueue
    \/ MarkRunning
    \/ RequireHandler
    \/ HandlerDone
    \/ MarkCompleted
    \/ MarkFailed
    \/ MarkFailedRefused

Next ==
    \/ \E j \in Jobs : CreateJob(j)
    \/ \E u \in Uploads, j \in Jobs, n \in Names : UploadBegin(u, j, n)
    \/ \E u \in Uploads : UploadStep(u)
    \/ WorkerStep
    \/ ReportProgress
    \/ Restart

Spec == Init /\ [][Next]_vars

\* The worker thread is scheduled and handlers return; a client sends its body
\* or closes the connection.
Fairness == WF_vars(WorkerStep) /\ \A u \in Uploads : WF_vars(UploadStep(u))

FairSpec == Spec /\ Fairness

-----------------------------------------------------------------------------
(* Properties *)

\* A job is never "running" without being the one the worker will still store
\* an outcome for; only a crash in between, an error after the commit of
\* mark_job_running, or mark_job_failed itself raising leaves one behind
\* (nothing picks such a job up again).
RunningIsOwned ==
    \A j \in Jobs : status[j] = "running" =>
        j \in stranded \/ (wjob = j /\ wpc \in WorkPCs)

\* An outcome comes with its evidence and without that of the other outcome's
\* error, whatever uploads re-queue the job and whichever commits raise.
OutcomeRecorded ==
    \A j \in Jobs :
        /\ status[j] = "completed" => result[j] /\ ~error[j] /\ calls[j] > 0
        /\ status[j] = "failed" => error[j]

\* Unless two uploads of it overlapped, a job that needs an input file is
\* queued, run and finished with that file complete: no break of an upload,
\* raising commit or crash queues it without, or takes the file away later.
\* The exception is an upload that commits and cannot read the row back: it
\* deletes the file of the job it has queued.
InputIsWhole ==
    \A j \in Jobs \ (overlapped \cup undone) :
        prepared[j] /\ status[j] \notin {"absent", "preparing"}
            => input[j] # "none" /\ target[<<j, input[j]>>] = "whole"

\* Without such an overlap a client sees a progress that agrees with the status: 100
\* means the job is over (a failed one can show it too, see MarkCompleted),
\* and nothing but a started job has any.
ProgressAgrees ==
    \A j \in Jobs \ overlapped :
        /\ status[j] = "completed" => progress[j] = 100
        /\ progress[j] = 100 => status[j] \in Finished
        /\ progress[j] > 0 => status[j] \notin {"absent", "preparing", "queued"}

\* A queued job is worked on to its end, in the order of the ids, unless the
\* node strands it.
QueuedIsFinished ==
    \A j \in Jobs :
        status[j] = "queued" ~> status[j] \in Finished \/ j \in stranded

\* Without such an overlap the job table keeps the promise of JobLifecycle,
\* but for a job that was completed by a commit nobody could read back.
Untracked == overlapped \cup revised

Lifecycle == INSTANCE JobLifecycle WITH
    state  <- [j \in Jobs |-> IF j \in Untracked THEN "lost" ELSE status[j]],
    starts <- [j \in Jobs |-> IF j \in Untracked THEN 0 ELSE calls[j]]
KeepsLifecycle == Lifecycle!LifecycleSpec

\* app/services/job_service.py:114: only a job in status "preparing" is
\* finalized; one that is running or over does not return to the queue.
QueuedOnlyFromPreparing ==
    [][\A j \in Jobs : status'[j] = "queued" =>
          status[j] \in {"absent", "preparing", "queued"}]_vars
=============================================================================
