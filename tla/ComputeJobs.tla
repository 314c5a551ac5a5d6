----------------------------- MODULE ComputeJobs -----------------------------
(***************************************************************************)
(* The jobs of the Windows Compute Node: JobQueue, JobDispatcher,          *)
(* JobInputCleanup and the HTTP handlers of service/api_server.py that     *)
(* call them.  ThreadingHTTPServer runs every request in a thread of its   *)
(* own; JobQueue locks each of its operations, and nothing locks the       *)
(* handlers.  An action is one operation on the queue, one file operation, *)
(* or one call out of the dispatcher.                                      *)
(***************************************************************************)
EXTENDS Naturals, FiniteSets

CONSTANTS
    Threads,        \* request threads
    Jobs,           \* job ids (uuid4: never used twice)
    MaxRestarts     \* bound on restarts of the node

ASSUME ThreadsAssumption == IsFiniteSet(Threads)
ASSUME RestartAssumption == MaxRestarts \in Nat

VARIABLES
    status,         \* JobQueue: status of each job, "absent" before POST /jobs
    hasInput,       \* JobQueue: the payload names an uploaded input
    result,         \* JobQueue: result is not None
    error,          \* JobQueue: error is not None
    part,           \* job_inputs/<id>/<name>.part exists
    target,         \* job_inputs/<id>/<name> exists
    folder,         \* job_inputs/<id> exists
    activeJobs,     \* the activity controller's count of running jobs
    reloading,      \* reload_plugins() is under way
    pc,             \* what each request thread does next
    job,            \* the job its request is about
    overlapped,     \* jobs a request arrived for while another one about them
                    \* was unanswered (history)
    counted,        \* execute(): activity_started and end_job() still due
    newDispatcher,  \* execute() runs on the dispatcher being set up
    inReload,       \* the request to execute came during a reload (history)
    calls,          \* handler calls so far, per job
    unstored,       \* jobs whose result could not be copied (history)
    leftovers,      \* jobs that left files behind: a failed rmtree or unlink,
                    \* or a result that could not be copied (history)
    restarts

queueVars    == <<status, hasInput, result, error>>
fileVars     == <<part, target, folder, leftovers>>
activityVars == <<activeJobs, counted>>
reloadVars   == <<reloading, newDispatcher, inReload>>
jobVars      == <<job, overlapped>>
callVars     == <<calls, unstored>>
vars == <<queueVars, fileVars, activityVars, reloadVars, pc, jobVars, callVars,
          restarts>>

Terminal == {"completed", "failed", "cancelled"}
Statuses == {"absent", "queued", "running", "lost"} \cup Terminal

UploadPCs  == {"upload", "open", "receive", "replace", "update", "undo"}
ExecutePCs == {"find", "refuse", "start", "begin", "handler", "fail", "end",
               "complete"}
PCs == {"idle", "cleanup", "endFailed"} \cup UploadPCs \cup ExecutePCs

TypeOK ==
    /\ status \in [Jobs -> Statuses]
    /\ hasInput \in [Jobs -> BOOLEAN]
    /\ result \in [Jobs -> BOOLEAN]
    /\ error \in [Jobs -> BOOLEAN]
    /\ part \in [Jobs -> BOOLEAN]
    /\ target \in [Jobs -> BOOLEAN]
    /\ folder \in [Jobs -> BOOLEAN]
    /\ activeJobs \in Nat
    /\ reloading \in BOOLEAN
    /\ pc \in [Threads -> PCs]
    /\ job \in [Threads -> Jobs]
    /\ overlapped \in SUBSET Jobs
    /\ counted \in [Threads -> BOOLEAN]
    /\ newDispatcher \in [Threads -> BOOLEAN]
    /\ inReload \in [Threads -> BOOLEAN]
    /\ calls \in [Jobs -> Nat]
    /\ unstored \in SUBSET Jobs
    /\ leftovers \in SUBSET Jobs
    /\ restarts \in Nat

Init ==
    /\ status = [j \in Jobs |-> "absent"]
    /\ hasInput = [j \in Jobs |-> FALSE]
    /\ result = [j \in Jobs |-> FALSE]
    /\ error = [j \in Jobs |-> FALSE]
    /\ part = [j \in Jobs |-> FALSE]
    /\ target = [j \in Jobs |-> FALSE]
    /\ folder = [j \in Jobs |-> FALSE]
    /\ activeJobs = 0
    /\ reloading = FALSE
    /\ pc = [t \in Threads |-> "idle"]
    /\ job \in [Threads -> Jobs]
    /\ overlapped = {}
    /\ counted = [t \in Threads |-> FALSE]
    /\ newDispatcher = [t \in Threads |-> FALSE]
    /\ inReload = [t \in Threads |-> FALSE]
    /\ calls = [j \in Jobs |-> 0]
    /\ unstored = {}
    /\ leftovers = {}
    /\ restarts = 0

Goto(t, label) == pc' = [pc EXCEPT ![t] = label]

\* A request about job j arrives and is given to the idle thread t.
Accept(t, j, label) ==
    /\ pc[t] = "idle"
    /\ overlapped' = IF \E s \in Threads : pc[s] # "idle" /\ job[s] = j
                     THEN overlapped \cup {j} ELSE overlapped
    /\ job' = [job EXCEPT ![t] = j]
    /\ Goto(t, label)

\* Windows refuses to delete or to rename a file another thread holds open,
\* and rmtree fails on a folder another thread is writing to.
InUse(t) ==
    \E s \in Threads \ {t} :
        job[s] = job[t] /\ pc[s] \in UploadPCs \cup {"handler"}

SetStatus(j, s) == status' = [status EXCEPT ![j] = s]

-----------------------------------------------------------------------------
(* POST /jobs: JobQueue.create *)

CreateJob(j) ==
    /\ status[j] = "absent"
    /\ SetStatus(j, "queued")
    /\ UNCHANGED <<hasInput, result, error, fileVars, activityVars, reloadVars,
                   pc, jobVars, callVars, restarts>>

-----------------------------------------------------------------------------
(* POST /jobs/{id}/input *)

UploadCheck(t, j) ==
    /\ status[j] = "queued"
    /\ Accept(t, j, "upload")
    /\ UNCHANGED <<queueVars, fileVars, activityVars, reloadVars, callVars,
                   restarts>>

\* mkdir, and a stale .part is removed; outside the try block, so a .part
\* another upload holds open ends the request.
UploadPrepare(t) ==
    LET j == job[t] IN
    /\ pc[t] = "upload"
    /\ folder' = [folder EXCEPT ![j] = TRUE]
    /\ \/ /\ part' = [part EXCEPT ![j] = FALSE]
          /\ Goto(t, "open")
       \/ /\ part[j] /\ InUse(t)
          /\ UNCHANGED part
          /\ Goto(t, "idle")
    /\ UNCHANGED <<queueVars, target, leftovers, activityVars, reloadVars,
                   jobVars, callVars, restarts>>

UploadOpen(t) ==
    LET j == job[t] IN
    /\ pc[t] = "open"
    /\ IF folder[j]
       THEN part' = [part EXCEPT ![j] = TRUE] /\ Goto(t, "receive")
       ELSE Goto(t, "undo") /\ UNCHANGED part
    /\ UNCHANGED <<queueVars, target, folder, leftovers, activityVars,
                   reloadVars, jobVars, callVars, restarts>>

\* All of the body arrives, or the connection ends early (ValueError).
UploadReceive(t) ==
    /\ pc[t] = "receive"
    /\ \/ Goto(t, "replace")
       \/ Goto(t, "undo")
    /\ UNCHANGED <<queueVars, fileVars, activityVars, reloadVars, jobVars,
                   callVars, restarts>>

UploadReplace(t) ==
    LET j == job[t] IN
    /\ pc[t] = "replace"
    /\ \/ /\ part[j]
          /\ part' = [part EXCEPT ![j] = FALSE]
          /\ target' = [target EXCEPT ![j] = TRUE]
          /\ Goto(t, "update")
       \/ /\ ~part[j] \/ InUse(t)
          /\ Goto(t, "undo")
          /\ UNCHANGED <<part, target>>
    /\ UNCHANGED <<queueVars, folder, leftovers, activityVars, reloadVars,
                   jobVars, callVars, restarts>>

\* Mutant: a refused payload update is ignored.
UploadUpdateIgnored(t) ==
    LET j == job[t] IN
    /\ pc[t] = "update"
    /\ hasInput' = [hasInput EXCEPT ![j] = status[j] = "queued"]
    /\ Goto(t, "idle")
    /\ UNCHANGED <<status, result, error, fileVars, activityVars, reloadVars,
                   jobVars, callVars, restarts>>

\* JobQueue.update_payload: refused with ValueError unless still queued.
UploadUpdate(t) ==
    LET j == job[t] IN
    /\ pc[t] = "update"
    /\ IF status[j] = "queued"
       THEN hasInput' = [hasInput EXCEPT ![j] = TRUE] /\ Goto(t, "idle")
       ELSE Goto(t, "undo") /\ UNCHANGED hasInput
    /\ UNCHANGED <<status, result, error, fileVars, activityVars, reloadVars,
                   jobVars, callVars, restarts>>

\* The except block: the temporary file and then the target are unlinked; a
\* file in use raises and leaves the rest.
UploadUndo(t) ==
    LET j == job[t] IN
    /\ pc[t] = "undo"
    /\ \/ /\ part' = [part EXCEPT ![j] = FALSE]
          /\ target' = [target EXCEPT ![j] = FALSE]
          /\ UNCHANGED leftovers
       \/ /\ InUse(t) /\ (part[j] \/ target[j])
          /\ \/ UNCHANGED part
             \/ part' = [part EXCEPT ![j] = FALSE]
          /\ leftovers' = leftovers \cup {j}
          /\ UNCHANGED target
    /\ Goto(t, "idle")
    /\ UNCHANGED <<queueVars, folder, activityVars, reloadVars, jobVars,
                   callVars, restarts>>

-----------------------------------------------------------------------------
(* POST /jobs/{id}/execute: JobDispatcher.execute *)

\* Mutant: the status of the job is not tested.
ExecuteGetAny(t, j) ==
    /\ status[j] \notin {"absent", "lost"}
    /\ Accept(t, j, "find")
    /\ newDispatcher' = [newDispatcher EXCEPT ![t] = reloading]
    /\ inReload' = [inReload EXCEPT ![t] = reloading]
    /\ UNCHANGED <<queueVars, fileVars, activityVars, reloading, callVars,
                   restarts>>

\* The copy from JobQueue.get decides; the job of any other status is only
\* returned, which changes nothing.
ExecuteGet(t, j) ==
    /\ \/ status[j] = "queued" /\ Accept(t, j, "find")
       \/ status[j] = "cancelled" /\ Accept(t, j, "cleanup")
    /\ newDispatcher' = [newDispatcher EXCEPT ![t] = reloading]
    /\ inReload' = [inReload EXCEPT ![t] = reloading]
    /\ UNCHANGED <<queueVars, fileVars, activityVars, reloading, callVars,
                   restarts>>

\* WorkerRegistry.find_for_job: the registry in force has a fitting worker or
\* has none (never installed, disabled, unhealthy, or not yet reloaded).
FindWorker(t) ==
    /\ pc[t] = "find"
    /\ \/ Goto(t, "start")
       \/ Goto(t, "refuse")
    /\ UNCHANGED <<queueVars, fileVars, activityVars, reloadVars, jobVars,
                   callVars, restarts>>

RefuseJob(t) ==
    LET j == job[t] IN
    /\ pc[t] = "refuse"
    /\ SetStatus(j, "failed")
    /\ error' = [error EXCEPT ![j] = TRUE]
    /\ Goto(t, "cleanup")
    /\ UNCHANGED <<hasInput, result, fileVars, activityVars, reloadVars,
                   jobVars, callVars, restarts>>

StartJob(t) ==
    /\ pc[t] = "start"
    /\ SetStatus(job[t], "running")
    /\ Goto(t, "begin")
    /\ UNCHANGED <<hasInput, result, error, fileVars, activityVars, reloadVars,
                   jobVars, callVars, restarts>>

\* begin_job(), unless the dispatcher has no activity controller yet; then
\* the handler is called.
CallHandler(t) ==
    LET uncounted == newDispatcher[t] /\ reloading IN
    /\ pc[t] = "begin"
    /\ activeJobs' = IF uncounted THEN activeJobs ELSE activeJobs + 1
    /\ counted' = [counted EXCEPT ![t] = ~uncounted]
    /\ calls' = [calls EXCEPT ![job[t]] = @ + 1]
    /\ Goto(t, "handler")
    /\ UNCHANGED <<queueVars, fileVars, reloadVars, jobVars, unstored,
                   restarts>>

\* Mutant: begin_job() stands before the try block.
BeginRaisesOutside(t) ==
    /\ pc[t] = "begin"
    /\ ~(newDispatcher[t] /\ reloading)
    /\ Goto(t, "idle")
    /\ UNCHANGED <<queueVars, fileVars, activityVars, reloadVars, jobVars,
                   callVars, restarts>>

\* begin_job() raises: waking the plugins failed.
BeginRaises(t) ==
    /\ pc[t] = "begin"
    /\ ~(newDispatcher[t] /\ reloading)
    /\ Goto(t, "fail")
    /\ UNCHANGED <<queueVars, fileVars, activityVars, reloadVars, jobVars,
                   callVars, restarts>>

HandlerDone(t) ==
    /\ pc[t] = "handler"
    /\ \/ Goto(t, "end")
       \/ Goto(t, "fail")
    /\ UNCHANGED <<queueVars, fileVars, activityVars, reloadVars, jobVars,
                   callVars, restarts>>

FailJob(t) ==
    LET j == job[t] IN
    /\ pc[t] = "fail"
    /\ SetStatus(j, "failed")
    /\ error' = [error EXCEPT ![j] = TRUE]
    /\ Goto(t, "cleanup")
    /\ UNCHANGED <<hasInput, result, fileVars, activityVars, reloadVars,
                   jobVars, callVars, restarts>>

\* The finally block: after a success it runs before the result is stored,
\* after an exception it runs last.
EndActivity(t) ==
    /\ pc[t] \in {"end", "endFailed"}
    /\ activeJobs' = IF counted[t] /\ activeJobs > 0 THEN activeJobs - 1
                                                    ELSE activeJobs
    /\ counted' = [counted EXCEPT ![t] = FALSE]
    /\ Goto(t, IF pc[t] = "end" THEN "complete" ELSE "idle")
    /\ UNCHANGED <<queueVars, fileVars, reloadVars, jobVars, callVars,
                   restarts>>

\* set_status("completed") stores the status before it copies the result; a
\* result that cannot be copied raises out of execute(), past the cleanup.
CompleteJob(t) ==
    LET j == job[t] IN
    /\ pc[t] = "complete"
    /\ SetStatus(j, "completed")
    /\ \/ /\ result' = [result EXCEPT ![j] = TRUE]
          /\ Goto(t, "cleanup")
          /\ UNCHANGED <<unstored, leftovers>>
       \/ /\ unstored' = unstored \cup {j}
          /\ leftovers' = leftovers \cup {j}
          /\ Goto(t, "idle")
          /\ UNCHANGED result
    /\ UNCHANGED <<hasInput, error, part, target, folder, activityVars,
                   reloadVars, jobVars, calls, restarts>>

\* The rmtree of _cleanup_input: an OSError is swallowed and leaves any of
\* the files.
RemoveFolder(t) ==
    LET j == job[t] IN
    /\ pc[t] = "cleanup"
    /\ \/ /\ part' = [part EXCEPT ![j] = FALSE]
          /\ target' = [target EXCEPT ![j] = FALSE]
          /\ folder' = [folder EXCEPT ![j] = FALSE]
          /\ UNCHANGED leftovers
       \/ /\ InUse(t)
          /\ \E p \in {FALSE, part[j]} : part' = [part EXCEPT ![j] = p]
          /\ \E g \in {FALSE, target[j]} : target' = [target EXCEPT ![j] = g]
          /\ leftovers' = leftovers \cup {j}
          /\ UNCHANGED folder
    /\ UNCHANGED <<queueVars, activityVars, reloadVars, jobVars, callVars,
                   restarts>>

\* Mutant: end_job() is not called after an exception.
CleanupForgetsEnd(t) ==
    /\ RemoveFolder(t)
    /\ Goto(t, "idle")

\* _cleanup_input; after an exception the finally block follows.
CleanupInput(t) ==
    /\ RemoveFolder(t)
    /\ Goto(t, IF counted[t] THEN "endFailed" ELSE "idle")

-----------------------------------------------------------------------------
(* DELETE /jobs/{id}: JobQueue.cancel, then _cleanup_input *)

CancelJob(t, j) ==
    /\ status[j] \notin {"absent", "lost"}
    /\ IF status[j] \in Terminal THEN UNCHANGED status
                                 ELSE SetStatus(j, "cancelled")
    /\ Accept(t, j, "cleanup")
    /\ UNCHANGED <<hasInput, result, error, fileVars, activityVars, reloadVars,
                   callVars, restarts>>

-----------------------------------------------------------------------------
(* reload_plugins() and a restart of the node *)

\* A new dispatcher is published before its activity controller is set.
ReloadBegin ==
    /\ ~reloading
    /\ reloading' = TRUE
    /\ newDispatcher' = [t \in Threads |-> FALSE]
    /\ UNCHANGED <<queueVars, fileVars, activityVars, inReload, pc, jobVars,
                   callVars, restarts>>

ReloadEnd ==
    /\ reloading
    /\ reloading' = FALSE
    /\ UNCHANGED <<queueVars, fileVars, activityVars, newDispatcher, inReload,
                   pc, jobVars, callVars, restarts>>

\* The process ends at any point; the next one starts with an empty queue and
\* cleanup_orphans() over job_inputs, which skips what it cannot remove.
Restart ==
    /\ restarts < MaxRestarts
    /\ restarts' = restarts + 1
    /\ status' = [j \in Jobs |-> IF status[j] = "absent" THEN "absent" ELSE "lost"]
    /\ hasInput' = [j \in Jobs |-> FALSE]
    /\ result' = [j \in Jobs |-> FALSE]
    /\ error' = [j \in Jobs |-> FALSE]
    /\ \E locked \in SUBSET {j \in Jobs : folder[j]} :
          /\ folder' = [j \in Jobs |-> j \in locked]
          /\ part' = [j \in Jobs |-> part[j] /\ j \in locked]
          /\ target' = [j \in Jobs |-> target[j] /\ j \in locked]
          /\ leftovers' = leftovers \cup locked
    /\ activeJobs' = 0
    /\ reloading' = FALSE
    /\ pc' = [t \in Threads |-> "idle"]
    /\ counted' = [t \in Threads |-> FALSE]
    /\ newDispatcher' = [t \in Threads |-> FALSE]
    /\ inReload' = [t \in Threads |-> FALSE]
    /\ UNCHANGED <<jobVars, callVars>>

Request(t, j) == UploadCheck(t, j) \/ ExecuteGet(t, j) \/ CancelJob(t, j)

Step(t) ==
    \/ UploadPrepare(t)
    \/ UploadOpen(t)
    \/ UploadReceive(t)
    \/ UploadReplace(t)
    \/ UploadUpdate(t)
    \/ UploadUndo(t)
    \/ FindWorker(t)
    \/ RefuseJob(t)
    \/ StartJob(t)
    \/ CallHandler(t)
    \/ BeginRaises(t)
    \/ HandlerDone(t)
    \/ FailJob(t)
    \/ EndActivity(t)
    \/ CompleteJob(t)
    \/ CleanupInput(t)

Next ==
    \/ \E j \in Jobs : CreateJob(j)
    \/ \E t \in Threads, j \in Jobs : Request(t, j)
    \/ \E t \in Threads : Step(t)
    \/ ReloadBegin
    \/ ReloadEnd
    \/ Restart

Spec == Init /\ [][Next]_vars

\* A request that was accepted is carried on: threads are scheduled, worker
\* handlers and file operations return, a client sends its body or closes.
Fairness == \A t \in Threads : WF_vars(Step(t))

FairSpec == Spec /\ Fairness

-----------------------------------------------------------------------------
(* Properties *)

Working(t, j) == pc[t] # "idle" /\ job[t] = j

ExecutingPCs == {"begin", "handler", "fail", "end", "complete"}

\* A job is never left in status "running" with nobody to finish it: whatever
\* executions, cancellations and reloads overlap, some thread that will still
\* store a final status is inside JobDispatcher.execute for it.
RunningIsOwned ==
    \A j \in Jobs : status[j] = "running" =>
        \E t \in Threads : Working(t, j) /\ pc[t] \in ExecutingPCs

\* A job that is still "queued" was never handed to a worker: no thread is
\* beyond the point of starting it, no handler was called for it, and it
\* carries no outcome.  Nothing puts a job back into the queue.
QueuedIsUntouched ==
    \A j \in Jobs : status[j] = "queued" =>
        /\ calls[j] = 0 /\ ~result[j] /\ ~error[j]
        /\ \A t \in Threads : Working(t, j) =>
              pc[t] \in UploadPCs \cup {"find", "refuse", "start"}

\* A final status comes with its evidence, also when two executions of one
\* job overwrite each other's outcome: "completed" with a result a handler
\* returned (unless that result could not be copied), "failed" with an error
\* text.
OutcomeRecorded ==
    \A j \in Jobs :
        /\ status[j] = "completed" => calls[j] > 0 /\ (result[j] \/ j \in unstored)
        /\ status[j] = "failed" => error[j]

\* The parts of the inductive invariant that are no goals of their own: jobs
\* nobody may touch, and handler calls that were counted.
UnknownIsUntouched ==
    \A j \in Jobs :
        /\ status[j] = "absent" => calls[j] = 0 /\ ~result[j] /\ ~error[j]
        /\ status[j] \in {"absent", "lost"} => \A t \in Threads : ~Working(t, j)

CallsAreCounted ==
    \A t \in Threads :
        pc[t] \in {"handler", "end", "complete"} => calls[job[t]] > 0

\* Every file of a job outside the leftovers has a thread that will remove
\* it, or belongs to a job that is not over.
FilesAreOwned ==
    \A j \in Jobs \ leftovers :
        /\ part[j] => \E t \in Threads :
              Working(t, j) /\ pc[t] \in {"receive", "replace", "undo"}
        /\ target[j] /\ status[j] \in Terminal \cup {"lost"} =>
              \E t \in Threads :
                 Working(t, j) /\ pc[t] \in {"update", "undo", "cleanup"}

\* begin_job() and end_job() are paired on every path through execute(), with
\* exceptions from begin_job(), from the handler, and around a reload: the
\* count is the number of executions that still owe an end_job(), each of them
\* is on its way to one, and a handler runs uncounted only for a request that
\* came while a reload was setting the dispatcher up.
ActivityPaired ==
    /\ activeJobs = Cardinality({t \in Threads : counted[t]})
    /\ \A t \in Threads :
          /\ counted[t] =>
                pc[t] \in {"handler", "end", "fail", "cleanup", "endFailed"}
          /\ pc[t] \in {"handler", "end"} => counted[t] \/ inReload[t]

\* Once a job is over (or the process that knew it is gone) and no request
\* about it is under way, none of its input files is left, unless Windows
\* refused to delete one or the result could not be copied: an upload that
\* loses the race against the end of the job removes what it wrote after the
\* job's own cleanup.
InputsReleased ==
    \A j \in Jobs \ leftovers :
        /\ status[j] \in Terminal \cup {"lost"}
        /\ \A t \in Threads : ~Working(t, j)
        => ~part[j] /\ ~target[j]

\* A job that was started reaches a final status (or is lost in a restart).
JobsFinish ==
    \A j \in Jobs : (status[j] = "running") ~> (status[j] # "running")

\* For a job whose requests never overlapped and that no restart has lost, the
\* queue and the dispatcher keep the promise of JobLifecycle: one handler call
\* per job, final is final.
Tracked(j) == status[j] # "lost" /\ j \notin overlapped

Lifecycle == INSTANCE JobLifecycle WITH
    state  <- [j \in Jobs |-> IF Tracked(j) THEN status[j] ELSE "lost"],
    starts <- [j \in Jobs |-> IF Tracked(j) THEN calls[j] ELSE 0]
KeepsLifecycle == Lifecycle!LifecycleSpec

\* tests/windows_compute_node/test_job_dispatcher.py:223: a cancelled job is
\* not executed and stays cancelled.
CancelledStaysCancelled ==
    [][\A j \in Jobs : status[j] = "cancelled"
          => status'[j] \in {"cancelled", "lost"}]_vars
=============================================================================
