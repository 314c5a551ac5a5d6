------------------------------ MODULE PlanStore ------------------------------
(***************************************************************************)
(* The installation plans of the AI node: PluginPlanStore                  *)
(* (app/plugins/plan_store.py), in memory and as one folder per plan, and  *)
(* the endpoints that create, execute, confirm and cancel a plan           *)
(* (app/api/plugin_plans.py, app/api/plugin_plan_execution.py).            *)
(*                                                                         *)
(* confirm, cancel and execute are sync endpoints: each request runs in a  *)
(* thread of the pool.  create is an async endpoint that never awaits once *)
(* it has its body: one at a time, but beside the threads.  Nothing locks  *)
(* the store; an action is one dict or file operation.                     *)
(***************************************************************************)
EXTENDS Naturals, FiniteSets

CONSTANTS
    Threads,        \* requests under way at once
    Plans,          \* plan ids (token_urlsafe: never used twice)
    NoThread,       \* no create() under way
    MaxRestarts     \* bound on restarts of the service

ASSUME NoThreadAssumption == NoThread \notin Threads
ASSUME RestartAssumption  == MaxRestarts \in Nat

VARIABLES
    mem,        \* _plans: the plan's content, or "none"
    folder,     \* <storage_root>/<plan_id> exists
    archive,    \* plugin.zip: "none", "partial" or "whole"
    meta,       \* plan.json: "none", "empty", "damaged" or the plan's content
    tmp,        \* plan.tmp, in the same way
    expired,    \* plans whose expires_at has passed
    pc,         \* what each request does next
    plan,       \* the plan it works on
    overlapped, \* plans a request arrived for while another one about them was
                \* unanswered (history)
    content,    \* the plan content it is about to store
    file,       \* which file of the plan it has open for writing
    todo,       \* rmtree: entries listed and not yet unlinked
    doomed,     \* cleanup(): expired ids found and not yet deleted
    creating,   \* the request that runs create()
    broken,     \* folders a create() that raised left behind
    removed,    \* plans whose files a request has finished deleting
    used,       \* how often each plan's package was activated
    restarts

diskVars == <<folder, archive, meta, tmp>>
loopVars == <<todo, doomed, creating>>
pastVars == <<broken, removed, used, restarts>>
planVars == <<plan, overlapped>>
vars == <<mem, diskVars, expired, pc, planVars, content, file, loopVars, pastVars>>

\* What the endpoints tell apart in a plan: confirm refuses "pending" (open
\* requirements or no licence) and accepts "ready".
Contents == {"pending", "ready"}
Metadata == {"none", "empty", "damaged"} \cup Contents
Entries  == {"archive", "meta", "tmp"}

CreatePCs  == {"cleanup", "mkdir", "copy", "remember"}
UpdatePCs  == {"pip", "updateGet", "updateSet"}
WritePCs   == {"open", "write", "replace"}
ConfirmPCs == {"consume", "pop", "extract", "activate", "refresh"}
RemovePCs  == {"list", "unlink"}
PCs == {"idle", "delete"} \cup CreatePCs \cup UpdatePCs \cup WritePCs
         \cup ConfirmPCs \cup RemovePCs

TypeOK ==
    /\ mem \in [Plans -> {"none"} \cup Contents]
    /\ folder \in [Plans -> BOOLEAN]
    /\ archive \in [Plans -> {"none", "partial", "whole"}]
    /\ meta \in [Plans -> Metadata]
    /\ tmp \in [Plans -> Metadata]
    /\ expired \in SUBSET Plans
    /\ pc \in [Threads -> PCs]
    /\ plan \in [Threads -> Plans]
    /\ overlapped \in SUBSET Plans
    /\ content \in [Threads -> Contents]
    /\ file \in [Threads -> {"tmp", "meta", "gone"}]
    /\ todo \in [Threads -> SUBSET Entries]
    /\ doomed \in SUBSET Plans
    /\ creating \in Threads \cup {NoThread}
    /\ broken \in SUBSET Plans
    /\ removed \in SUBSET Plans
    /\ used \in [Plans -> Nat]
    /\ restarts \in Nat

Init ==
    /\ mem = [p \in Plans |-> "none"]
    /\ folder = [p \in Plans |-> FALSE]
    /\ archive = [p \in Plans |-> "none"]
    /\ meta = [p \in Plans |-> "none"]
    /\ tmp = [p \in Plans |-> "none"]
    /\ expired = {}
    /\ pc = [t \in Threads |-> "idle"]
    /\ plan \in [Threads -> Plans]
    /\ overlapped = {}
    /\ content = [t \in Threads |-> "pending"]
    /\ file = [t \in Threads |-> "gone"]
    /\ todo = [t \in Threads |-> {}]
    /\ doomed = {}
    /\ creating = NoThread
    /\ broken = {}
    /\ removed = {}
    /\ used = [p \in Plans |-> 0]
    /\ restarts = 0

Goto(t, label) == pc' = [pc EXCEPT ![t] = label]

Working(t, p) == pc[t] \notin {"idle", "cleanup"} /\ plan[t] = p

\* A request about plan p arrives and is given to the idle thread t.
Accept(t, p, label) ==
    /\ pc[t] = "idle"
    /\ overlapped' = IF \E s \in Threads : Working(s, p)
                     THEN overlapped \cup {p} ELSE overlapped
    /\ plan' = [plan EXCEPT ![t] = p]
    /\ Goto(t, label)

Forget(p) == mem' = [mem EXCEPT ![p] = "none"]

\* The end of a request, an answer or an exception that leaves the endpoint:
\* what was local to it is gone.
Return(t) ==
    /\ Goto(t, "idle")
    /\ content' = [content EXCEPT ![t] = "pending"]
    /\ file' = [file EXCEPT ![t] = "gone"]
    /\ creating' = IF creating = t THEN NoThread ELSE creating

\* get() of a plan that is in memory: an expired one is deleted, a valid one
\* lets the caller go on at label.
AfterGet(p, label) == IF p \in expired THEN "list" ELSE label

Get(t, p, label) ==
    /\ IF p \in expired THEN Forget(p) ELSE UNCHANGED mem
    /\ Goto(t, AfterGet(p, label))

\* A request whose endpoint starts with get(); of a plan that is not in
\* memory it answers 404 and changes nothing.
Arrive(t, p, label) ==
    /\ mem[p] # "none"
    /\ Accept(t, p, AfterGet(p, label))
    /\ IF p \in expired THEN Forget(p) ELSE UNCHANGED mem

-----------------------------------------------------------------------------
(* create(): first cleanup(), then the folder, the package, plan.json and
   the entry in memory *)

\* Ids are drawn anew for each plan; the model has a finite supply of them.
Fresh(p) == ~folder[p] /\ p \notin removed

CreateBegin(t) ==
    /\ pc[t] = "idle"
    /\ creating = NoThread
    /\ creating' = t
    /\ doomed' = {p \in Plans : mem[p] # "none" /\ p \in expired}
    /\ Goto(t, "cleanup")
    /\ UNCHANGED <<mem, diskVars, expired, planVars, content, file, todo, pastVars>>

\* The comprehension over _plans raises when another thread changes the dict.
CleanupRaises(t) ==
    /\ pc[t] = "cleanup"
    /\ \E s \in Threads \ {t} : pc[s] # "idle"
    /\ Return(t)
    /\ doomed' = {}
    /\ UNCHANGED <<mem, diskVars, expired, planVars, todo, pastVars>>

CleanupDelete(t, p) ==
    /\ pc[t] = "cleanup" /\ p \in doomed
    /\ doomed' = doomed \ {p}
    /\ plan' = [plan EXCEPT ![t] = p]
    /\ Forget(p)
    /\ Goto(t, "list")
    /\ UNCHANGED <<diskVars, expired, overlapped, content, file, todo, creating,
                   pastVars>>

MakeFolder(t, p) ==
    /\ pc[t] = "cleanup" /\ doomed = {}
    /\ Fresh(p)
    /\ plan' = [plan EXCEPT ![t] = p]
    /\ folder' = [folder EXCEPT ![p] = TRUE]
    /\ \E c \in Contents : content' = [content EXCEPT ![t] = c]
    /\ Goto(t, "mkdir")
    /\ UNCHANGED <<mem, archive, meta, tmp, expired, overlapped, file, loopVars,
                   pastVars>>

MakeFolderRaises(t) ==
    /\ pc[t] = "cleanup" /\ doomed = {}
    /\ Return(t)
    /\ UNCHANGED <<mem, diskVars, expired, planVars, todo, doomed, pastVars>>

\* copy2 opens plugin.zip, then fills it; a full disk raises.
CopyBegin(t) ==
    /\ pc[t] = "mkdir"
    /\ archive' = [archive EXCEPT ![plan[t]] = "partial"]
    /\ Goto(t, "copy")
    /\ UNCHANGED <<mem, folder, meta, tmp, expired, planVars, content, file,
                   loopVars, pastVars>>

CopyEnd(t) ==
    /\ pc[t] = "copy"
    /\ \/ /\ archive' = [archive EXCEPT ![plan[t]] = "whole"]
          /\ Goto(t, "open")
          /\ UNCHANGED <<content, file, creating, broken>>
       \/ /\ Return(t)
          /\ broken' = broken \cup {plan[t]}
          /\ UNCHANGED archive
    /\ UNCHANGED <<mem, folder, meta, tmp, expired, planVars, todo, doomed,
                   removed, used, restarts>>

Remember(t) ==
    /\ pc[t] = "remember"
    /\ mem' = [mem EXCEPT ![plan[t]] = content[t]]
    /\ Return(t)
    /\ UNCHANGED <<diskVars, expired, planVars, todo, doomed, pastVars>>

-----------------------------------------------------------------------------
(* _write_metadata(): plan.tmp is written and then renamed to plan.json *)

\* write_text opens (and truncates) plan.tmp.  A missing folder raises, which
\* happens to update_plan() only: nobody else knows the folder of a create().
OpenTmp(t) ==
    LET p == plan[t] IN
    /\ pc[t] = "open"
    /\ \/ /\ folder[p]
          /\ tmp' = [tmp EXCEPT ![p] = "empty"]
          /\ file' = [file EXCEPT ![t] = "tmp"]
          /\ Goto(t, "write")
          /\ UNCHANGED <<content, creating>>
       \/ /\ ~folder[p]
          /\ Return(t)
          /\ UNCHANGED tmp
    /\ UNCHANGED <<mem, folder, archive, meta, expired, planVars, todo, doomed,
                   pastVars>>

\* A text goes into an empty file as it is; over the text another writer put
\* there meanwhile it may leave the end of that one.
Over(old, new) == IF old = "empty" THEN {new} ELSE {new, "damaged"}

Text(t) == CASE file[t] = "tmp" -> tmp[plan[t]]
             [] file[t] = "meta" -> meta[plan[t]]
             [] file[t] = "gone" -> "none"

StoreText(t, c) ==
    /\ tmp' = IF file[t] = "tmp" THEN [tmp EXCEPT ![plan[t]] = c] ELSE tmp
    /\ meta' = IF file[t] = "meta" THEN [meta EXCEPT ![plan[t]] = c] ELSE meta

WriteTmp(t) ==
    /\ pc[t] = "write"
    /\ \/ /\ \E c \in Over(Text(t), content[t]) : StoreText(t, c)
          /\ Goto(t, "replace")
          /\ file' = [file EXCEPT ![t] = "gone"]
          /\ UNCHANGED <<content, creating, broken>>
       \/ /\ \E c \in {Text(t), "damaged"} : StoreText(t, c)
          /\ Return(t)
          /\ broken' = IF creating = t THEN broken \cup {plan[t]} ELSE broken
    /\ UNCHANGED <<mem, folder, archive, expired, planVars, todo, doomed,
                   removed, used, restarts>>

\* A file that another writer has open keeps its place in the new name.
Renamed(p, s) ==
    IF plan[s] # p \/ file[s] = "gone" THEN file[s]
    ELSE IF file[s] = "tmp" THEN "meta" ELSE "gone"

ReplaceTmp(t) ==
    LET p == plan[t] IN
    /\ pc[t] = "replace"
    /\ IF tmp[p] # "none"
       THEN /\ meta' = [meta EXCEPT ![p] = tmp[p]]
            /\ tmp' = [tmp EXCEPT ![p] = "none"]
            /\ file' = [s \in Threads |-> Renamed(p, s)]
            /\ IF creating = t THEN Goto(t, "remember") /\ UNCHANGED content
               ELSE Goto(t, "idle") /\ content' = [content EXCEPT ![t] = "pending"]
            /\ UNCHANGED creating
       ELSE /\ Return(t)
            /\ UNCHANGED <<meta, tmp>>
    /\ UNCHANGED <<mem, folder, archive, expired, planVars, todo, doomed,
                   pastVars>>

-----------------------------------------------------------------------------
(* shutil.rmtree(plan_dir, ignore_errors=True), as delete() and
   finalize_consumed() end *)

Present(p) ==
    {e \in Entries : \/ e = "archive" /\ archive[p] # "none"
                     \/ e = "meta" /\ meta[p] # "none"
                     \/ e = "tmp" /\ tmp[p] # "none"}

\* Mutant: only the metadata is deleted.
ListMetadata(t) ==
    /\ pc[t] = "list"
    /\ todo' = [todo EXCEPT ![t] = Present(plan[t]) \ {"archive"}]
    /\ Goto(t, "unlink")
    /\ UNCHANGED <<mem, diskVars, expired, planVars, content, file, doomed,
                   creating, pastVars>>

ListFolder(t) ==
    /\ pc[t] = "list"
    /\ todo' = [todo EXCEPT ![t] = Present(plan[t])]
    /\ Goto(t, "unlink")
    /\ UNCHANGED <<mem, diskVars, expired, planVars, content, file, doomed,
                   creating, pastVars>>

UnlinkEntry(t, e) ==
    LET p == plan[t]
        Without(f, name) == IF e = name THEN [f EXCEPT ![p] = "none"] ELSE f
    IN
    /\ pc[t] = "unlink" /\ e \in todo[t]
    /\ todo' = [todo EXCEPT ![t] = @ \ {e}]
    /\ archive' = Without(archive, "archive")
    /\ meta' = Without(meta, "meta")
    /\ tmp' = Without(tmp, "tmp")
    /\ file' = [s \in Threads |-> IF plan[s] = p /\ file[s] = e THEN "gone"
                                                               ELSE file[s]]
    /\ UNCHANGED <<mem, folder, expired, pc, planVars, content, doomed, creating,
                   pastVars>>

\* rmdir fails, unnoticed, when a writer has put a file there meanwhile.
RemoveFolder(t) ==
    LET p == plan[t] IN
    /\ pc[t] = "unlink" /\ todo[t] = {}
    /\ folder' = [folder EXCEPT ![p] = @ /\ Present(p) # {}]
    /\ removed' = removed \cup {p}
    /\ Goto(t, IF creating = t THEN "cleanup" ELSE "idle")
    /\ UNCHANGED <<mem, archive, meta, tmp, expired, planVars, content, file,
                   loopVars, broken, used, restarts>>

-----------------------------------------------------------------------------
(* POST /plugins/plan/{id}/confirm *)

ConfirmGet(t, p) ==
    /\ Arrive(t, p, "consume")
    /\ p \in expired \/ mem[p] = "ready"
    /\ UNCHANGED <<diskVars, expired, content, file, loopVars, pastVars>>

\* consume(): get() again; a plan that is gone is an uncaught KeyError.
ConsumeGet(t) ==
    LET p == plan[t] IN
    /\ pc[t] = "consume"
    /\ IF mem[p] = "none" THEN Goto(t, "idle") /\ UNCHANGED mem
                          ELSE Get(t, p, "pop")
    /\ UNCHANGED <<diskVars, expired, planVars, content, file, loopVars, pastVars>>

ConsumePop(t) ==
    /\ pc[t] = "pop"
    /\ Forget(plan[t])
    /\ Goto(t, "extract")
    /\ UNCHANGED <<diskVars, expired, planVars, content, file, loopVars, pastVars>>

\* install(): the package is validated and unpacked (or the installation
\* fails), later activated (or fails); finalize_consumed() in any case.
ExtractPackage(t) ==
    /\ pc[t] = "extract"
    /\ \/ archive[plan[t]] = "whole" /\ Goto(t, "activate")
       \/ Goto(t, "list")
    /\ UNCHANGED <<mem, diskVars, expired, planVars, content, file, loopVars, pastVars>>

\* Mutant: finalize_consumed() only after a success.
ActivateWithoutFinally(t) ==
    /\ pc[t] = "activate"
    /\ \/ /\ used' = [used EXCEPT ![plan[t]] = @ + 1]
          /\ Goto(t, "refresh")
       \/ /\ Goto(t, "idle")
          /\ UNCHANGED used
    /\ UNCHANGED <<mem, diskVars, expired, planVars, content, file, loopVars,
                   broken, removed, restarts>>

ActivatePackage(t) ==
    /\ pc[t] = "activate"
    /\ \/ /\ used' = [used EXCEPT ![plan[t]] = @ + 1]
          /\ Goto(t, "refresh")
       \/ /\ Goto(t, "list")
          /\ UNCHANGED used
    /\ UNCHANGED <<mem, diskVars, expired, planVars, content, file, loopVars,
                   broken, removed, restarts>>

\* _refresh_plugins() and verify_activated_plugin()
RefreshPlugins(t) ==
    /\ pc[t] = "refresh"
    /\ Goto(t, "list")
    /\ UNCHANGED <<mem, diskVars, expired, planVars, content, file, loopVars, pastVars>>

-----------------------------------------------------------------------------
(* DELETE /plugins/plan/{id} *)

CancelGet(t, p) ==
    /\ Arrive(t, p, "delete")
    /\ UNCHANGED <<diskVars, expired, content, file, loopVars, pastVars>>

DeletePlan(t) ==
    /\ pc[t] = "delete"
    /\ Forget(plan[t])
    /\ Goto(t, "list")
    /\ UNCHANGED <<diskVars, expired, planVars, content, file, loopVars, pastVars>>

-----------------------------------------------------------------------------
(* POST /plugins/plan/{id}/execute, with update_plan() *)

ExecuteGet(t, p) ==
    /\ Arrive(t, p, "pip")
    /\ UNCHANGED <<diskVars, expired, content, file, loopVars, pastVars>>

\* The pip runs, then the package is inspected again.
ExecutePlan(t) ==
    /\ pc[t] = "pip"
    /\ \/ /\ archive[plan[t]] = "whole"
          /\ \E c \in Contents : content' = [content EXCEPT ![t] = c]
          /\ Goto(t, "updateGet")
       \/ /\ archive[plan[t]] # "whole"
          /\ Goto(t, "idle")
          /\ UNCHANGED content
    /\ UNCHANGED <<mem, diskVars, expired, planVars, file, loopVars, pastVars>>

UpdateGet(t) ==
    LET p == plan[t] IN
    /\ pc[t] = "updateGet"
    /\ IF mem[p] # "none" /\ p \notin expired
       THEN /\ Goto(t, "updateSet")
            /\ UNCHANGED <<mem, content>>
       ELSE /\ Goto(t, IF mem[p] = "none" THEN "idle" ELSE "list")
            /\ Forget(p)
            /\ content' = [content EXCEPT ![t] = "pending"]
    /\ UNCHANGED <<diskVars, expired, planVars, file, loopVars, pastVars>>

UpdateSet(t) ==
    /\ pc[t] = "updateSet"
    /\ mem' = [mem EXCEPT ![plan[t]] = content[t]]
    /\ Goto(t, "open")
    /\ UNCHANGED <<diskVars, expired, planVars, content, file, loopVars, pastVars>>

-----------------------------------------------------------------------------
(* The clock, and a crash with the load() of the next start *)

Expire(p) ==
    /\ folder[p] /\ p \notin expired
    /\ expired' = expired \cup {p}
    /\ UNCHANGED <<mem, diskVars, pc, planVars, content, file, loopVars, pastVars>>

\* Mutant: load() looks at plan.json alone.
LoadableByMetadata ==
    {p \in Plans : folder[p] /\ meta[p] \in Contents /\ p \notin expired}

\* Mutant: load() takes a folder with a plan.tmp for damaged.
LoadableWithoutTmp ==
    {p \in Plans : /\ folder[p] /\ meta[p] \in Contents /\ tmp[p] = "none"
                   /\ archive[p] # "none" /\ p \notin expired}

Loadable == {p \in Plans : /\ folder[p] /\ meta[p] \in Contents
                           /\ archive[p] # "none" /\ p \notin expired}

Restart ==
    /\ restarts < MaxRestarts
    /\ restarts' = restarts + 1
    /\ mem' = [p \in Plans |-> IF p \in Loadable THEN meta[p] ELSE "none"]
    /\ folder' = [p \in Plans |-> p \in Loadable]
    /\ archive' = [p \in Plans |-> IF p \in Loadable THEN archive[p] ELSE "none"]
    /\ meta' = [p \in Plans |-> IF p \in Loadable THEN meta[p] ELSE "none"]
    /\ tmp' = [p \in Plans |-> IF p \in Loadable THEN tmp[p] ELSE "none"]
    /\ removed' = removed \cup {p \in Plans : folder[p] /\ p \notin Loadable}
    /\ pc' = [t \in Threads |-> "idle"]
    /\ content' = [t \in Threads |-> "pending"]
    /\ file' = [t \in Threads |-> "gone"]
    /\ todo' = [t \in Threads |-> {}]
    /\ doomed' = {}
    /\ creating' = NoThread
    /\ broken' = {}
    /\ UNCHANGED <<expired, planVars, used>>

-----------------------------------------------------------------------------

Request(t) ==
    \/ CreateBegin(t)
    \/ \E p \in Plans : ConfirmGet(t, p) \/ CancelGet(t, p) \/ ExecuteGet(t, p)

Step(t) ==
    \/ CleanupRaises(t)
    \/ \E p \in Plans : CleanupDelete(t, p) \/ MakeFolder(t, p)
    \/ MakeFolderRaises(t)
    \/ CopyBegin(t)
    \/ CopyEnd(t)
    \/ Remember(t)
    \/ OpenTmp(t)
    \/ WriteTmp(t)
    \/ ReplaceTmp(t)
    \/ ListFolder(t)
    \/ \E e \in Entries : UnlinkEntry(t, e)
    \/ RemoveFolder(t)
    \/ ConsumeGet(t)
    \/ ConsumePop(t)
    \/ ExtractPackage(t)
    \/ ActivatePackage(t)
    \/ RefreshPlugins(t)
    \/ DeletePlan(t)
    \/ ExecutePlan(t)
    \/ UpdateGet(t)
    \/ UpdateSet(t)

Next ==
    \/ \E t \in Threads : Request(t) \/ Step(t)
    \/ \E p \in Plans : Expire(p)
    \/ Restart

Spec == Init /\ [][Next]_vars

-----------------------------------------------------------------------------
(* Properties *)

Removing(t, p) == Working(t, p) /\ pc[t] \in RemovePCs

\* What a request has deleted stays deleted: once any request has come to the
\* end of deleting a plan's folder (a cancellation, a confirmation with
\* whatever outcome, an expiry), its package never exists again.  No later
\* confirm can install it, even when a racing update_plan() puts the plan
\* back into memory and no restart offers it again.
RemovedIsFinal == \A p \in removed : archive[p] = "none"

\* t will either put plan p into memory or delete its files.
Owns(t, p) ==
    /\ Working(t, p)
    /\ creating = t \/ pc[t] \in {"extract", "activate", "refresh"} \cup RemovePCs

\* No package of up to 512 MB stays on the disk unnoticed while the service
\* runs: it belongs to a plan in memory, to a request that will delete it or
\* offer it, or to a create() that raised.
NoPackageLeaks ==
    \A p \in Plans : archive[p] # "none" =>
        mem[p] # "none" \/ p \in broken \/ \E t \in Threads : Owns(t, p)

\* A plan that can be confirmed has its complete package, unless a request is
\* deleting it or has deleted it; a restart offers nothing half-written.
OfferedIsWhole ==
    \A p \in Plans : mem[p] # "none" =>
        \/ archive[p] = "whole"
        \/ p \in removed
        \/ \E t \in Threads : Removing(t, p)

\* The promise that a plan is used once, as far as it holds: unless requests
\* about it overlapped, each run of the service activates a plan's package at
\* most once.
UsedOncePerRun == \A p \in Plans \ overlapped : used[p] <= 1 + restarts

\* What holds of the store at any moment: its types, that what it offers is
\* whole, and that nothing of it is used twice in one run.
Consistent == TypeOK /\ OfferedIsWhole /\ UsedOncePerRun

\* docs/PERSISTENT_PLUGIN_PLANS.md: a plan nobody is working on survives a
\* restart as long as it has not expired.
OfferedSurvivesRestart ==
    [][\A p \in Plans \ overlapped :
          /\ restarts' # restarts
          /\ mem[p] # "none" /\ p \notin expired
          /\ \A t \in Threads : ~Working(t, p)
          => mem'[p] # "none"]_vars

\* docs/PLUGIN_PLAN_CONFIRMATION.md:25 and docs/PERSISTENT_PLUGIN_PLANS.md:37:
\* a plan can be confirmed once only.
ConfirmedOnce == \A p \in Plans : used[p] <= 1
=============================================================================
