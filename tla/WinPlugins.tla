----------------------------- MODULE WinPlugins -----------------------------
(***************************************************************************)
(* Plugins of the Windows compute node: install plans                      *)
(* (service/api_server.py), their dependencies (plugins/dependency_plan.py) *)
(* the installer (plugins/installer.py) and what the loader makes of the   *)
(* result (plugins/loader.py).                                             *)
(*                                                                         *)
(* Creating, cancelling and confirming a plan hold one lock; uninstalling  *)
(* takes none, so it runs between any two steps of a confirmation.  Plans  *)
(* live in memory, their packages in a directory each; the old version of  *)
(* a plugin waits in a temporary directory while the new one takes its     *)
(* place, and goes with it.                                                *)
(*                                                                         *)
(* A package names its id, its version (a sequence of numbers), what it    *)
(* needs (in the order of its manifest), the Python environment it is run  *)
(* in and whether it comes with a model.                                   *)
(***************************************************************************)
EXTENDS Naturals, Sequences, FiniteSets, SequencesExt

CONSTANTS
  Callers, PlanIds,
  Packages,   \* every package there is
  Uploads,    \* those clients send in
  Worlds,     \* what may be there at the start: [installed, catalog], sets of packages
  Fragile,    \* the plugins whose own code or Python may keep them from loading
  NoCaller, NoPlan, NoPackage, NoRuntime,
  MaxCalls, MaxMishaps

Part(v, i) == IF i <= Len(v) THEN v[i] ELSE 0
Longer(v, w) == IF Len(v) > Len(w) THEN Len(v) ELSE Len(w)

\* The plan compares with the shorter version filled up with zeros.
Compatible(v, min) ==
  \/ \A i \in 1..Longer(v, min) : Part(v, i) = Part(min, i)
  \/ \E i \in 1..Longer(v, min) :
       Part(v, i) > Part(min, i) /\ \A j \in 1..(i - 1) : Part(v, j) = Part(min, j)

\* install() and the loader compare tuples: of two versions with a common start the longer is newer.
Older(v, w) ==
  \/ \E i \in 1..Len(v) : i <= Len(w) /\ v[i] < w[i] /\ \A j \in 1..(i - 1) : v[j] = w[j]
  \/ Len(v) < Len(w) /\ \A j \in 1..Len(v) : v[j] = w[j]

\* What install() is to do for one package; a plan that waits to be confirmed.
InstallStep == [pkg : Packages, replace : BOOLEAN]
Plan == [steps : Seq(InstallStep), expired : BOOLEAN, fresh : BOOLEAN]

ASSUME CallersAssumption == NoCaller \notin Callers
ASSUME PlansAssumption == NoPlan \notin PlanIds /\ NoPlan \notin Plan
ASSUME PackagesAssumption == NoPackage \notin Packages /\ Uploads \subseteq Packages
\* A package has a version, numbers, and needs with the least version that will do.
Versions == Seq(Nat)
ASSUME ManifestsAssumption == \A k \in Packages :
  /\ k.ver \in Versions
  /\ k.needs \in Seq(Range(k.needs))
  /\ \A n \in Range(k.needs) : n.min \in Versions
\* A world is one the installer can have left: every plugin has what it needs.
ASSUME WorldsAssumption == \A w \in Worlds :
  /\ w.installed \union w.catalog \subseteq Packages
  /\ \A k, l \in w.installed : k.id = l.id => k = l
  /\ \A k \in w.installed : \A i \in 1..Len(k.needs) : \E l \in w.installed :
       l.id = k.needs[i].id /\ ~Older(l.ver, k.needs[i].min)
ASSUME BoundsAssumption == MaxCalls \in Nat /\ MaxMishaps \in Nat

Plugins == {k.id : k \in Packages} \union UNION {{n.id : n \in Range(k.needs)} : k \in Packages}

VARIABLES
  folder,    \* [Plugins -> [pkg, parts]]: the folder under plugins/
  venv,      \* [Plugins -> "none", "broken" or the runtime it was built for]
  model,     \* [Plugins -> "none", "stage" or "ready"]
  catalog,   \* the packages in plugin_package_catalog
  plans,     \* _install_plans
  dirs,      \* the directories of plans that exist
  visiting,  \* resolve(): the calls of walk() that have not returned
  done,      \* resolve(): the plugins that need no more thought
  ordered,   \* resolve(): the steps so far
  lock,      \* holder of _install_plan_lock
  call,      \* [Callers -> the request being served]
  loads,     \* plugin_load_results: [Plugins -> what load_all() made of the plugin last]
  older,     \* history: a plugin was replaced by an older version
  lost,      \* history: plugins a broken move or a crash cost
  kept,      \* history: plugins installed and not asked to go
  raced,     \* history: an uninstallation overlapped another request
  calls, faults, crashes

resolving == <<visiting, done, ordered>>
system == <<folder, venv, model, catalog, plans, dirs, resolving, lock, loads>>
vars == <<system, call, older, lost, kept, raced, calls, faults, crashes>>

Absent == [pkg |-> NoPackage, parts |-> "none"]
Whole(k) == [pkg |-> k, parts |-> "whole"]
\* What is left when copying or removing a folder breaks off, with or without plugin.json.
Torn(k) == {[pkg |-> k, parts |-> "manifest"], [pkg |-> k, parts |-> "bare"]}
Readable(f) == f.parts \in {"manifest", "whole"}

Idle == [pc |-> "idle", op |-> "none", id |-> NoPlan, pkg |-> NoPackage, replace |-> FALSE,
         steps |-> <<>>, at |-> 1, saved |-> Absent, result |-> "none", fresh |-> FALSE]

Met(n) == Readable(folder[n.id]) /\ ~Older(folder[n.id].pkg.ver, n.min)
NeedsMet(k) == \A i \in 1..Len(k.needs) : Met(k.needs[i])

-----------------------------------------------------------------------------
(* resolve(): what must be installed, dependencies first.                  *)
\* The catalog of the plan: the newest package of each id, and the one that was sent in.
Offers(main, id) ==
  IF id = main.id THEN {main}
  ELSE {k \in catalog : k.id = id /\ \A l \in catalog : l.id = id => Compatible(k.ver, l.ver)}

\* walk() has begun with the package k: the need it comes to next.
Frame(k) == [pkg |-> k, replace |-> Readable(folder[k.id]), next |-> 1]
Top == visiting[Len(visiting)]
Sought == Top.pkg.needs[Top.next]
Advanced == [visiting EXCEPT ![Len(visiting)].next = @ + 1]

-----------------------------------------------------------------------------
(* load_all(): one plugin after the other; an error becomes the result of its plugin.  The needs are *)
(* looked up in the manifests of the others, whatever became of their load.  With its needs met a *)
(* plugin may still fail on its own: the managed Python is not ready, the manifest or the entry   *)
(* point is no good, the import raises, register() raises or registers no worker.                 *)
Loads == {"none", "unmet", "failed", "loaded"}
Outcome(p) ==
  IF ~Readable(folder[p]) THEN "none" ELSE IF NeedsMet(folder[p].pkg) THEN "loaded" ELSE "unmet"
LoadResults ==
  LET outcome == [p \in Plugins |-> Outcome(p)]
      mayFail == {p \in Plugins : outcome[p] = "loaded" /\ (p \in Fragile \/ folder[p].parts # "whole")}
  IN {[p \in Plugins |-> IF p \in failed THEN "failed" ELSE outcome[p]] : failed \in SUBSET mayFail}

Init ==
  /\ \E w \in Worlds : LET now == w.installed IN
       /\ catalog = w.catalog
       /\ folder = [p \in Plugins |-> IF \E k \in now : k.id = p
                                      THEN Whole(CHOOSE k \in now : k.id = p) ELSE Absent]
       /\ venv = [p \in Plugins |-> IF \E k \in now : k.id = p /\ k.runtime # NoRuntime
                                    THEN folder[p].pkg.runtime ELSE "none"]
       /\ model = [p \in Plugins |-> IF \E k \in now : k.id = p /\ k.model THEN "ready" ELSE "none"]
       /\ kept = {k.id : k \in now}
  /\ plans = [i \in PlanIds |-> NoPlan] /\ dirs = {} /\ lock = NoCaller
  /\ visiting = <<>> /\ done = {} /\ ordered = <<>>
  /\ call = [c \in Callers |-> Idle]
  /\ loads \in LoadResults
  /\ older = FALSE /\ lost = {} /\ raced = FALSE
  /\ calls = 0 /\ faults = 0 /\ crashes = 0

At(c, q) == call[c].pc = q
Active(c) == ~At(c, "idle")
Goto(c, q) == call' = [call EXCEPT ![c].pc = q]
Done(c) == call' = [call EXCEPT ![c] = Idle]
Fail(c, r) == call' = [call EXCEPT ![c].pc = "finish", ![c].result = r]
Step(c) == call[c].steps[call[c].at]
Id(c) == Step(c).pkg.id
Mishap == faults + crashes < MaxMishaps
Fault == Mishap /\ faults' = faults + 1
NoFault == UNCHANGED faults
history == <<older, lost, kept, raced, calls, crashes>>

\* History: what is about to change under plugins/ makes the plans in waiting outdated.
Outdate == plans' = [i \in PlanIds |-> IF plans[i] = NoPlan THEN NoPlan ELSE [plans[i] EXCEPT !.fresh = FALSE]]

-----------------------------------------------------------------------------
(* Requests.  A request that needs the lock waits for it.                  *)
Arrive(c, r) ==
  /\ ~Active(c) /\ calls < MaxCalls /\ calls' = calls + 1
  /\ raced' = (raced \/ \E d \in Callers : Active(d) /\ "uninstall" \in {call[d].op, r.op})
  /\ call' = [call EXCEPT ![c] = r]
  /\ UNCHANGED <<system, older, lost, faults, crashes>>

PlanRequest(c) == \E k \in Uploads, replace \in BOOLEAN :
  Arrive(c, [Idle EXCEPT !.pc = "plan", !.op = "plan", !.pkg = k, !.replace = replace]) /\ UNCHANGED kept

ConfirmRequest(c) == \E i \in PlanIds :
  /\ plans[i] # NoPlan
  /\ Arrive(c, [Idle EXCEPT !.pc = "confirm", !.op = "confirm", !.id = i])
  /\ UNCHANGED kept

CancelRequest(c) == \E i \in PlanIds :
  /\ plans[i] # NoPlan
  /\ Arrive(c, [Idle EXCEPT !.pc = "cancel", !.op = "cancel", !.id = i])
  /\ UNCHANGED kept

UninstallRequest(c) == \E k \in Packages :
  /\ Arrive(c, [Idle EXCEPT !.pc = "uninstall", !.op = "uninstall", !.pkg = k])
  /\ folder[k.id].pkg = k
  /\ UNCHANGED kept

\* _cleanup_install_plans(): the plans that are too old go, with their directories.
Expired == {i \in PlanIds : plans[i] # NoPlan /\ plans[i].expired}
Current == [i \in PlanIds |-> IF i \in Expired THEN NoPlan ELSE plans[i]]

Expire == \E i \in PlanIds :
  /\ plans[i] # NoPlan /\ ~plans[i].expired
  /\ plans' = [plans EXCEPT ![i].expired = TRUE]
  /\ UNCHANGED <<folder, venv, model, catalog, dirs, resolving, lock, loads, call, history, faults>>

-----------------------------------------------------------------------------
(* create_install_plan().                                                  *)
PlanBegins(c) ==
  /\ At(c, "plan") /\ lock = NoCaller
  /\ \E i \in PlanIds :
       /\ i \notin dirs /\ plans[i] = NoPlan
       /\ lock' = c
       /\ plans' = Current
       /\ dirs' = (dirs \ Expired) \union {i}
       /\ call' = [call EXCEPT ![c].pc = "accept", ![c].id = i]
  /\ UNCHANGED <<folder, venv, model, catalog, resolving, loads, history, faults>>

Forget == visiting' = <<>> /\ done' = {} /\ ordered' = <<>>

PlanFails(c) ==
  /\ dirs' = dirs \ {call[c].id}
  /\ lock' = NoCaller
  /\ Done(c)
  /\ Forget

\* A plugin that is there must be meant to be replaced.
Accept(c) ==
  /\ At(c, "accept")
  /\ LET main == call[c].pkg IN
     \/ folder[main.id].parts # "none" /\ ~call[c].replace /\ PlanFails(c)
     \/ /\ folder[main.id].parts = "none" \/ call[c].replace
        /\ visiting' = <<Frame(main)>>
        /\ Goto(c, "resolve")
        /\ UNCHANGED <<dirs, lock, done, ordered>>
  /\ UNCHANGED <<folder, venv, model, catalog, plans, loads, history, faults>>

\* walk() of the next need: it is refused, settled, or a package to look into.
Refused(main, n) ==
  \/ \E i \in DOMAIN visiting : visiting[i].pkg.id = n.id
  \/ n.id \in done /\ \E k \in Offers(main, n.id) : ~Compatible(k.ver, n.min)
  \/ /\ n.id \notin done
     /\ ~(Readable(folder[n.id]) /\ Compatible(folder[n.id].pkg.ver, n.min))
     /\ \A k \in Offers(main, n.id) : ~Compatible(k.ver, n.min)
Settled(n) == n.id \in done \/ (Readable(folder[n.id]) /\ Compatible(folder[n.id].pkg.ver, n.min))

Visit(c) ==
  /\ At(c, "resolve") /\ visiting # <<>> /\ Top.next <= Len(Top.pkg.needs)
  /\ \/ Refused(call[c].pkg, Sought) /\ PlanFails(c)
     \/ /\ ~Refused(call[c].pkg, Sought) /\ Settled(Sought)
        /\ done' = done \union {Sought.id}
        /\ visiting' = Advanced
        /\ UNCHANGED <<dirs, lock, call, ordered>>
     \/ /\ ~Refused(call[c].pkg, Sought) /\ ~Settled(Sought)
        /\ \E k \in Offers(call[c].pkg, Sought.id) :
             Compatible(k.ver, Sought.min) /\ visiting' = Append(Advanced, Frame(k))
        /\ UNCHANGED <<dirs, lock, call, done, ordered>>
  /\ UNCHANGED <<folder, venv, model, catalog, plans, loads, history, faults>>

\* Mutant: a package goes into the list before what it needs.
ReturnMainFirst(c) ==
  /\ At(c, "resolve") /\ visiting # <<>> /\ Top.next > Len(Top.pkg.needs)
  /\ visiting' = Front(visiting)
  /\ done' = done \union {Top.pkg.id}
  /\ ordered' = <<[pkg |-> Top.pkg, replace |-> Top.replace]>> \o ordered
  /\ UNCHANGED <<folder, venv, model, catalog, plans, dirs, lock, loads, call, history, faults>>

\* walk() has seen all needs of a package and appends it.
Return(c) ==
  /\ At(c, "resolve") /\ visiting # <<>> /\ Top.next > Len(Top.pkg.needs)
  /\ visiting' = Front(visiting)
  /\ done' = done \union {Top.pkg.id}
  /\ ordered' = Append(ordered, [pkg |-> Top.pkg, replace |-> Top.replace])
  /\ UNCHANGED <<folder, venv, model, catalog, plans, dirs, lock, loads, call, history, faults>>

PlanEnds(c) ==
  /\ At(c, "resolve") /\ visiting = <<>>
  /\ plans' = [plans EXCEPT ![call[c].id] = [steps |-> ordered, expired |-> FALSE, fresh |-> TRUE]]
  /\ lock' = NoCaller
  /\ Done(c)
  /\ Forget
  /\ UNCHANGED <<folder, venv, model, catalog, dirs, loads, history, faults>>

\* A file cannot be written, copied or read: the plan fails, wherever it is.
PlanBreaks(c) ==
  /\ At(c, "accept") \/ At(c, "resolve")
  /\ Fault
  /\ PlanFails(c)
  /\ UNCHANGED <<folder, venv, model, catalog, plans, loads, history>>

Cancel(c) ==
  /\ At(c, "cancel") /\ lock = NoCaller
  /\ plans' = [plans EXCEPT ![call[c].id] = NoPlan]
  /\ dirs' = IF plans[call[c].id] = NoPlan THEN dirs ELSE dirs \ {call[c].id}
  /\ Done(c)
  /\ UNCHANGED <<folder, venv, model, catalog, resolving, lock, loads, history, faults>>

(* confirm_install_plan(): the plan is taken, whatever becomes of it.      *)
ConfirmBegins(c) ==
  /\ At(c, "confirm") /\ lock = NoCaller
  /\ dirs' = dirs \ Expired
  /\ LET p == Current[call[c].id] IN
     \/ p = NoPlan /\ plans' = Current /\ Done(c) /\ UNCHANGED lock
     \/ /\ p # NoPlan
        /\ plans' = [Current EXCEPT ![call[c].id] = NoPlan]
        /\ lock' = c
        /\ call' = [call EXCEPT ![c].pc = "check", ![c].steps = p.steps, ![c].fresh = p.fresh]
  /\ UNCHANGED <<folder, venv, model, catalog, resolving, loads, history, faults>>

\* The finally clause; rmtree ignores its errors.
Finish(c) ==
  /\ At(c, "finish")
  /\ lock' = NoCaller
  /\ \/ dirs' = dirs \ {call[c].id} /\ NoFault
     \/ Fault /\ UNCHANGED dirs
  /\ Done(c)
  /\ UNCHANGED <<folder, venv, model, catalog, plans, resolving, loads, history>>

-----------------------------------------------------------------------------
(* install() of one step.                                                  *)
\* The dependencies are looked up in the plugin folders once more.
InstallCheck(c) ==
  /\ At(c, "check")
  /\ \/ /\ ~NeedsMet(Step(c).pkg) \/ (folder[Id(c)].parts # "none" /\ ~Step(c).replace)
        /\ Fail(c, "unmet")
     \/ /\ NeedsMet(Step(c).pkg) /\ (folder[Id(c)].parts = "none" \/ Step(c).replace)
        /\ Goto(c, "runtime")
  /\ UNCHANGED <<system, history, faults>>

\* An environment that fits is used again; one that does not is never touched.
PrepareRuntime(c) ==
  /\ At(c, "runtime")
  /\ LET wanted == Step(c).pkg.runtime IN
     \/ wanted \in {NoRuntime, venv[Id(c)]} /\ Goto(c, "model") /\ UNCHANGED venv
     \/ wanted \notin {NoRuntime, venv[Id(c)]} /\ venv[Id(c)] # "none" /\ Fail(c, "provision") /\ UNCHANGED venv
     \/ /\ wanted # NoRuntime /\ venv[Id(c)] = "none"
        /\ venv' = [venv EXCEPT ![Id(c)] = "broken"]
        /\ Goto(c, "makeRuntime")
  /\ UNCHANGED <<folder, model, catalog, plans, dirs, resolving, lock, loads, history, faults>>

\* venv, pip and the check of the packages; what was begun in vain is removed, if it can be.
MakeRuntime(c) ==
  /\ At(c, "makeRuntime")
  /\ \/ venv' = [venv EXCEPT ![Id(c)] = Step(c).pkg.runtime] /\ Goto(c, "model") /\ NoFault
     \/ venv' = [venv EXCEPT ![Id(c)] = "none"] /\ Fail(c, "provision") /\ NoFault
     \/ Fault /\ Fail(c, "provision") /\ UNCHANGED venv
  /\ UNCHANGED <<folder, model, catalog, plans, dirs, resolving, lock, loads, history>>

PrepareModel(c) ==
  /\ At(c, "model")
  /\ LET wanted == Step(c).pkg.model IN
     \/ ~wanted /\ Goto(c, "moveOld") /\ UNCHANGED model
     \/ wanted /\ model[Id(c)] = "ready" /\ (Goto(c, "moveOld") \/ Fail(c, "provision")) /\ UNCHANGED model
     \/ wanted /\ model[Id(c)] = "stage" /\ Fail(c, "provision") /\ UNCHANGED model
     \/ /\ wanted /\ model[Id(c)] = "none"
        /\ model' = [model EXCEPT ![Id(c)] = "stage"]
        /\ Goto(c, "fetchModel")
  /\ UNCHANGED <<folder, venv, catalog, plans, dirs, resolving, lock, loads, history, faults>>

\* Download, checks, rename to the final path and the checks there.
FetchModel(c) ==
  /\ At(c, "fetchModel")
  /\ \/ model' = [model EXCEPT ![Id(c)] = "ready"] /\ (Goto(c, "moveOld") \/ Fail(c, "provision")) /\ NoFault
     \/ model' = [model EXCEPT ![Id(c)] = "none"] /\ Fail(c, "provision") /\ NoFault
     \/ Fault /\ Fail(c, "provision") /\ UNCHANGED model
  /\ UNCHANGED <<folder, venv, catalog, plans, dirs, resolving, lock, loads, history>>

\* shutil.move of the old version into the temporary directory.  A file in use makes the rename
\* fail; the copy that replaces it may fail before or while the original is deleted.
MoveOld(c) ==
  /\ At(c, "moveOld")
  /\ Outdate
  /\ \/ /\ folder[Id(c)].parts = "none"
        /\ Goto(c, "moveNew") /\ NoFault /\ UNCHANGED <<folder, lost>>
     \/ /\ folder[Id(c)].parts # "none"
        /\ folder' = [folder EXCEPT ![Id(c)] = Absent]
        /\ call' = [call EXCEPT ![c].pc = "moveNew", ![c].saved = folder[Id(c)]]
        /\ NoFault /\ UNCHANGED lost
     \/ folder[Id(c)].parts # "none" /\ Fault /\ Fail(c, "failed") /\ UNCHANGED <<folder, lost>>
     \/ /\ folder[Id(c)].parts # "none" /\ Fault /\ Fail(c, "failed")
        /\ \E f \in Torn(folder[Id(c)].pkg) : folder' = [folder EXCEPT ![Id(c)] = f]
        /\ lost' = lost \union {Id(c)}
  /\ UNCHANGED <<venv, model, catalog, dirs, resolving, lock, loads, older, kept, raced, calls, crashes>>

\* shutil.move of the new version into its place.
MoveNew(c) ==
  /\ At(c, "moveNew")
  /\ Outdate
  /\ \/ /\ folder' = [folder EXCEPT ![Id(c)] = Whole(Step(c).pkg)]
        /\ kept' = kept \union {Id(c)}
        /\ older' = (older \/ (call[c].saved # Absent /\ Older(Step(c).pkg.ver, call[c].saved.pkg.ver)))
        /\ Goto(c, "reload") /\ NoFault /\ UNCHANGED lost
     \/ Fault /\ Goto(c, "moveBack") /\ UNCHANGED <<folder, kept, older, lost>>
     \/ /\ Fault /\ Fail(c, "failed")
        /\ \E f \in Torn(Step(c).pkg) : folder' = [folder EXCEPT ![Id(c)] = f]
        /\ lost' = lost \union {Id(c)}
        /\ UNCHANGED <<kept, older>>
  /\ UNCHANGED <<venv, model, catalog, dirs, resolving, lock, loads, raced, calls, crashes>>

\* Mutants: the old version stays in the temporary directory; the failure is swallowed.
MoveBackForgotten(c) ==
  /\ At(c, "moveBack")
  /\ Fail(c, "failed")
  /\ UNCHANGED <<system, history, faults>>

MoveBackSwallows(c) ==
  /\ At(c, "moveBack")
  /\ Goto(c, "reload")
  /\ folder' = [folder EXCEPT ![Id(c)] = call[c].saved]
  /\ UNCHANGED <<venv, model, catalog, plans, dirs, resolving, lock, loads, history, faults>>

\* The old version back, if nothing stands in its place; then the temporary directory goes.
MoveBack(c) ==
  /\ At(c, "moveBack")
  /\ Fail(c, "failed")
  /\ \/ folder' = [folder EXCEPT ![Id(c)] = call[c].saved] /\ NoFault /\ UNCHANGED lost
     \/ Fault /\ call[c].saved # Absent /\ lost' = lost \union {Id(c)} /\ UNCHANGED folder
  /\ UNCHANGED <<venv, model, catalog, plans, dirs, resolving, lock, loads, older, kept, raced, calls, crashes>>

Reload(c) ==
  /\ At(c, "reload")
  /\ loads' \in LoadResults
  /\ IF call[c].op = "uninstall" THEN Done(c)
     ELSE IF call[c].at = Len(call[c].steps) THEN Fail(c, "ok")
     ELSE call' = [call EXCEPT ![c].pc = "check", ![c].at = @ + 1, ![c].saved = Absent]
  /\ UNCHANGED <<folder, venv, model, catalog, plans, dirs, resolving, lock, history, faults>>

-----------------------------------------------------------------------------
(* uninstall(): no lock.                                                   *)
Target(c) == call[c].pkg.id
Needed(p) == \E q \in Plugins \ {p} : Readable(folder[q]) /\ \E i \in 1..Len(folder[q].pkg.needs) :
  folder[q].pkg.needs[i].id = p

\* Mutant: nobody asks who needs the plugin.
UninstallCheckAlone(c) ==
  /\ At(c, "uninstall")
  /\ IF folder[Target(c)].parts = "none" THEN Done(c) ELSE Goto(c, "remove")
  /\ UNCHANGED <<system, history, faults>>

UninstallCheck(c) ==
  /\ At(c, "uninstall")
  /\ \/ (folder[Target(c)].parts = "none" \/ Needed(Target(c))) /\ Done(c)
     \/ folder[Target(c)].parts # "none" /\ ~Needed(Target(c)) /\ Goto(c, "remove")
  /\ UNCHANGED <<system, history, faults>>

RemoveBegins(c) ==
  /\ At(c, "remove")
  /\ \/ /\ folder[Target(c)].parts # "none"
        /\ \E f \in Torn(folder[Target(c)].pkg) : folder' = [folder EXCEPT ![Target(c)] = f]
        /\ kept' = kept \ {Target(c)}
        /\ Goto(c, "removing")
        /\ Outdate
     \/ folder[Target(c)].parts = "none" /\ Done(c) /\ UNCHANGED <<folder, kept, plans>>
  /\ UNCHANGED <<venv, model, catalog, dirs, resolving, lock, loads, older, lost, raced, calls, faults, crashes>>

Removed(c) ==
  /\ At(c, "removing")
  /\ \/ /\ folder[Target(c)].parts \in {"bare", "manifest"}
        /\ folder' = [folder EXCEPT ![Target(c)] = Absent] /\ Goto(c, "reload") /\ NoFault
     \/ folder[Target(c)].parts \in {"none", "whole"} /\ Done(c) /\ NoFault /\ UNCHANGED folder
     \/ Fault /\ Done(c) /\ UNCHANGED folder
  /\ UNCHANGED <<venv, model, catalog, plans, dirs, resolving, lock, loads, history>>

-----------------------------------------------------------------------------
\* The process ends and starts again: plans, temporary directories and locks are gone.
Crash ==
  /\ Mishap /\ crashes' = crashes + 1
  /\ plans' = [i \in PlanIds |-> NoPlan] /\ lock' = NoCaller
  /\ lost' = lost \union {Id(c) : c \in {d \in Callers : call[d].pc \in {"moveNew", "moveBack"} /\ call[d].saved # Absent}}
  /\ call' = [c \in Callers |-> Idle]
  /\ Forget
  /\ loads' \in LoadResults
  /\ UNCHANGED <<folder, venv, model, catalog, dirs, older, kept, raced, calls, faults>>

Next ==
  \/ \E c \in Callers :
       \/ PlanRequest(c) \/ ConfirmRequest(c) \/ CancelRequest(c) \/ UninstallRequest(c)
       \/ PlanBegins(c) \/ Accept(c) \/ Visit(c) \/ Return(c) \/ PlanEnds(c) \/ PlanBreaks(c)
       \/ Cancel(c) \/ ConfirmBegins(c) \/ Finish(c)
       \/ InstallCheck(c) \/ PrepareRuntime(c) \/ MakeRuntime(c) \/ PrepareModel(c) \/ FetchModel(c)
       \/ MoveOld(c) \/ MoveNew(c) \/ MoveBack(c) \/ Reload(c)
       \/ UninstallCheck(c) \/ RemoveBegins(c) \/ Removed(c)
  \/ Expire
  \/ Crash

Spec == Init /\ [][Next]_vars

-----------------------------------------------------------------------------
\* Types; the lock is held exactly while a plan is made or carried out.
TypeOK ==
  /\ folder \in [Plugins -> [pkg : Packages \union {NoPackage}, parts : {"none", "bare", "manifest", "whole"}]]
  /\ \A p \in Plugins : (folder[p].parts = "none") = (folder[p].pkg = NoPackage)
  /\ \A p \in Plugins : folder[p].pkg # NoPackage => folder[p].pkg.id = p
  /\ dirs \subseteq PlanIds /\ loads \in [Plugins -> Loads] /\ lost \subseteq Plugins
  /\ \A c \in Callers : (lock = c) = (call[c].pc \in {"accept", "resolve", "check", "runtime", "makeRuntime", "model",
       "fetchModel", "moveOld", "moveNew", "moveBack", "finish"} \/ (At(c, "reload") /\ call[c].op = "confirm"))

\* What is installed can be loaded: with requests one after the other, nobody replacing a plugin by
\* an older version and no file operation failing, every plugin finds what it needs; the checks of
\* the plan, of install() and of uninstall() together keep it so.
DependenciesHold ==
  ~raced /\ ~older /\ faults = 0 /\ crashes = 0 =>
  \A p \in Plugins : folder[p].parts = "whole" => \A i \in 1..Len(folder[p].pkg.needs) :
    LET n == folder[p].pkg.needs[i] IN
    Met(n) \/ \E c \in Callers : At(c, "moveNew") /\ Id(c) = n.id

\* No package outlives its plan: a directory belongs to a plan that waits or to the request that
\* holds the lock, unless a crash or a failed deletion left it.
DirectoriesAreOwned ==
  faults = 0 /\ crashes = 0 =>
  dirs = {i \in PlanIds : plans[i] # NoPlan \/ \E c \in Callers : lock = c /\ call[c].id = i}

\* What holds of plugins and plans at any moment: types and the lock, what each plugin needs, whose
\* the packages are.
Consistent == TypeOK /\ DependenciesHold /\ DirectoriesAreOwned

\* An installed plugin is there in full until somebody uninstalls it, whatever fails in an update;
\* only a move that broke off half-way, or a crash between the two moves, can cost it.
UpdateKeepsPlugin ==
  ~raced => \A p \in kept \ lost :
    \/ folder[p].parts = "whole"
    \/ \E c \in Callers : call[c].pc \in {"moveNew", "moveBack"} /\ Id(c) = p /\ call[c].saved.parts = "whole"

\* The first of two needs for one plugin, met by what is installed, hid a second that is not.
Hidden(c, n) == \E s \in 1..Len(call[c].steps) : \E i \in 1..Len(call[c].steps[s].pkg.needs) :
  LET m == call[c].steps[s].pkg.needs[i] IN m.id = n.id /\ Compatible(folder[n.id].pkg.ver, m.min)

\* A plan that was approved, with nothing changed since, is refused by install() for two reasons
\* only: two comparisons of versions that differ in length, and a need the plan did not look at
\* because an earlier one had settled the plugin.  (And for a folder without a manifest, which the
\* plan takes for no plugin and install() for one.)
PlanIsInstallable == \A c \in Callers :
  At(c, "finish") /\ call[c].result = "unmet" /\ call[c].fresh /\ ~raced =>
  \/ \E i \in 1..Len(Step(c).pkg.needs) : LET n == Step(c).pkg.needs[i] IN
       /\ ~Met(n) /\ Readable(folder[n.id])
       /\ Compatible(folder[n.id].pkg.ver, n.min) \/ Hidden(c, n)
  \/ folder[Id(c)].parts = "bare"

\* "Installed" means that every step of the approved plan is in place, in the approved version, and
\* that the answer's load results blame no step on what it needs: each one is loaded, or is a plugin
\* whose own code or Python kept it from loading.
InstalledAsApproved == \A c \in Callers :
  At(c, "finish") /\ call[c].result = "ok" /\ ~raced =>
  \A s \in 1..Len(call[c].steps) : LET k == call[c].steps[s].pkg IN
    folder[k.id] = Whole(k) /\ (loads[k.id] = "loaded" \/ (k.id \in Fragile /\ loads[k.id] = "failed"))

=============================================================================
