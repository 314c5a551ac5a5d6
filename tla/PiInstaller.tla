----------------------------- MODULE PiInstaller -----------------------------
(***************************************************************************)
(* The AI node's plugin installer (app/plugins/installer.py) with the      *)
(* check of a managed plugin after its activation                          *)
(* (managed_install.verify_activated_plugin), for the folders of ONE       *)
(* plugin id: the installed folder, the hidden folders an update and a     *)
(* rollback pass through, and the backups.                                 *)
(*                                                                         *)
(* The install endpoint runs on the event loop, plan confirmation, remove, *)
(* rollback and delete_backup in the thread pool, and nothing locks the    *)
(* folders: calls interleave at every file operation.  copytree and rmtree *)
(* take time and have two steps each, a rename has one.  Any of them may   *)
(* raise, and the process may die between any two.                         *)
(*                                                                         *)
(* A folder is a version, whole or not.  A folder being filled or emptied  *)
(* carries the call that works on it in "by".                              *)
(***************************************************************************)
EXTENDS Naturals, FiniteSets

CONSTANTS Callers, Versions, Backups,   \* Backups: the names (timestamps) a run can use
          NoCaller, NoBackup, NoVersion,
          Managed,                      \* the plugin is in MANAGED_PLUGIN_IDS
          MaxCalls, MaxFaults, MaxCrashes

ASSUME CallersAssumption == NoCaller \notin Callers
ASSUME VersionsAssumption == NoVersion \notin Versions
ASSUME ManagedAssumption == Managed \in BOOLEAN
ASSUME BoundsAssumption == MaxCalls \in Nat /\ MaxFaults \in Nat /\ MaxCrashes \in Nat

Hidden == {"staged", "before", "restoring", "beforeRollback"}
Places == {"install"} \union Hidden \union Backups

\* Backups have a folder of their own.
ASSUME BackupsAssumption ==
  NoBackup \notin Backups /\ Backups \cap ({"install"} \union Hidden) = {}

Nothing == [ver |-> NoVersion, whole |-> FALSE, by |-> NoCaller]
Whole(v) == [ver |-> v, whole |-> TRUE, by |-> NoCaller]
Torn(v, c) == [ver |-> v, whole |-> FALSE, by |-> c]

VARIABLES
  disk,      \* [Places -> folder]
  used,      \* backup names taken: a timestamp is never taken twice
  call,      \* what each caller's request is doing
  current,   \* history: the version last activated in full and not given up
  unsaved,   \* history: a client removed the plugin without a backup, or rolled back to an incomplete one
  torn,      \* history: a backup copy or a removal was cut short
  raced,     \* history: two calls have overlapped
  calls, faults, crashes

vars == <<disk, used, call, current, unsaved, torn, raced, calls, faults, crashes>>
history == <<current, unsaved, torn, raced, calls, crashes>>

Idle == [pc |-> "idle", op |-> "none", fn |-> "none", ver |-> NoVersion, bak |-> NoBackup,
         keep |-> FALSE, replaced |-> FALSE, result |-> "none", start |-> Nothing, src |-> Nothing]

\* With nothing or one version installed, and at most one backup from earlier.
Init == \E f \in {Nothing} \union {Whole(v) : v \in Versions},
           g \in {Nothing} \union {Whole(v) : v \in Versions}, b \in Backups :
  /\ disk = [[p \in Places |-> Nothing] EXCEPT !["install"] = f, ![b] = g]
  /\ used = {d \in {b} : g # Nothing}
  /\ call = [c \in Callers |-> Idle]
  /\ current = f.ver
  /\ unsaved = FALSE /\ torn = FALSE /\ raced = FALSE
  /\ calls = 0 /\ faults = 0 /\ crashes = 0

-----------------------------------------------------------------------------
Active(c) == call[c].pc \notin {"idle", "done"}
At(c, q) == call[c].pc = q
Stage(c) == IF call[c].fn = "install" THEN "staged" ELSE "restoring"
Aside(c) == IF call[c].fn = "install" THEN "before" ELSE "beforeRollback"
Exists(p) == disk[p] # Nothing
Goto(c, q) == call' = [call EXCEPT ![c].pc = q]

\* A function raises or returns.  An install that returned goes on to verify_activated_plugin;
\* an install that had to be undone is answered as a failure however the undoing went.
Leave(c, outcome) ==
  call' = [call EXCEPT
    ![c].result = IF call[c].op # call[c].fn THEN "failed" ELSE outcome,
    ![c].pc = IF call[c].fn = "install" /\ outcome = "ok" THEN "verify" ELSE "done"]

\* The exception of a step inside the try of install() or rollback(): its finally clause is next.
Raise(c) == call' = [call EXCEPT ![c].pc = "cleanup", ![c].result = "failed"]
Fault == faults < MaxFaults /\ faults' = faults + 1
NoFault == UNCHANGED faults

\* os.replace of a folder: the source must exist, the target must not hold files.
CanRename(p, q) == Exists(p) /\ ~Exists(q)
Rename(p, q) == disk' = [disk EXCEPT ![q] = disk[p], ![p] = Nothing]
Put(p, f) == disk' = [disk EXCEPT ![p] = f]

-----------------------------------------------------------------------------
(* A request arrives; the answers given before are forgotten.              *)
Arrive(c, r) ==
  /\ ~Active(c) /\ calls < MaxCalls
  /\ calls' = calls + 1
  /\ raced' = (raced \/ \E d \in Callers : Active(d))
  /\ call' = [d \in Callers |-> IF d = c THEN [r EXCEPT !.start = disk["install"]]
                              ELSE IF At(d, "done") THEN Idle ELSE call[d]]
  /\ UNCHANGED <<disk, used, current, unsaved, torn, faults, crashes>>

\* install() of a valid package whose requirements hold, up to its first look at the folder.
InstallRequest(c) == \E v \in Versions :
  Arrive(c, [Idle EXCEPT !.pc = "check", !.op = "install", !.fn = "install", !.ver = v,
                         !.replaced = Exists("install")])

RemoveRequest(c) == \E keep \in BOOLEAN :
  Arrive(c, [Idle EXCEPT !.pc = "check", !.op = "remove", !.fn = "remove", !.keep = keep])

RollbackRequest(c) == \E b \in used :
  Arrive(c, [Idle EXCEPT !.pc = "check", !.op = "rollback", !.fn = "rollback", !.bak = b])

DeleteRequest(c) == \E b \in used :
  Arrive(c, [Idle EXCEPT !.pc = "check", !.op = "delete", !.fn = "delete", !.bak = b])

-----------------------------------------------------------------------------
(* The guards each function begins with.                                   *)
Refused(c) ==
  CASE call[c].fn = "install"  -> Exists("staged") \/ Exists("before")
    [] call[c].fn = "rollback" -> ~Exists(call[c].bak) \/ Exists("restoring") \/ Exists("beforeRollback")
    [] call[c].fn = "remove"   -> ~Exists("install")
    [] call[c].fn = "delete"   -> ~Exists(call[c].bak)

Check(c) ==
  /\ At(c, "check")
  /\ \/ Refused(c) /\ Leave(c, "failed")
     \/ ~Refused(c) /\ Goto(c, IF call[c].fn \in {"install", "rollback"} THEN "copy"
                               ELSE IF call[c].fn = "remove" /\ call[c].keep THEN "backup" ELSE "remove")
  /\ UNCHANGED <<disk, used, current, unsaved, torn, raced, calls, faults, crashes>>

(* copytree of the unpacked package, or of the chosen backup, into the staging folder.
   Its makedirs raises when the folder exists.  A folder another call empties or exchanges
   meanwhile makes the copy raise, or leaves it with holes it does not notice; a source that is
   gone makes it raise.                                                                      *)
Origin(c) == IF call[c].fn = "install" THEN Whole(call[c].ver) ELSE disk[call[c].bak]

CopyBegins(c) ==
  /\ At(c, "copy")
  /\ \/ /\ (Exists(Stage(c)) \/ Origin(c) = Nothing)
        /\ Raise(c) /\ NoFault /\ UNCHANGED disk
     \/ /\ ~Exists(Stage(c)) /\ Origin(c) # Nothing
        /\ Put(Stage(c), Torn(Origin(c).ver, c))
        /\ call' = [call EXCEPT ![c].pc = "copying", ![c].src = Origin(c)]
        /\ NoFault
  /\ UNCHANGED <<used, history>>

CopyUndisturbed(c) == disk[Stage(c)].by = c /\ Origin(c) = call[c].src

\* Mutant: an error of the copy is not noticed.
CopyEndsUnseen(c) ==
  /\ At(c, "copying")
  /\ \/ Put(Stage(c), [call[c].src EXCEPT !.by = NoCaller]) /\ NoFault
     \/ Fault /\ UNCHANGED disk
  /\ Goto(c, IF call[c].fn = "install" THEN "provision" ELSE "setAside")
  /\ UNCHANGED <<used, history>>

CopyEnds(c) ==
  /\ At(c, "copying")
  /\ \/ /\ CopyUndisturbed(c)
        /\ Put(Stage(c), [call[c].src EXCEPT !.by = NoCaller])
        /\ Goto(c, IF call[c].fn = "install" THEN "provision" ELSE "setAside")
        /\ NoFault
     \/ /\ ~CopyUndisturbed(c)
        /\ NoFault
        /\ \/ Raise(c) /\ UNCHANGED disk
           \/ /\ Origin(c) # Nothing
              /\ Put(Stage(c), Torn(call[c].src.ver, NoCaller))
              /\ Goto(c, IF call[c].fn = "install" THEN "provision" ELSE "setAside")
     \/ Fault /\ Raise(c) /\ UNCHANGED disk
  /\ UNCHANGED <<used, history>>

\* Mutant: the installed version is set aside without a backup.
ProvisionOnly(c) ==
  /\ At(c, "provision")
  /\ Goto(c, IF call[c].replaced THEN "setAside" ELSE "activate") \/ Raise(c)
  /\ UNCHANGED <<disk, used, history, faults>>

\* ensure_managed_assets and the second preflight: runtimes and models are fetched, or not.
Provision(c) ==
  /\ At(c, "provision")
  /\ \/ Goto(c, IF call[c].replaced THEN "backup" ELSE "activate")
     \/ Raise(c)
  /\ UNCHANGED <<disk, used, history, faults>>

-----------------------------------------------------------------------------
(* _create_backup: copytree of the installed folder under a new timestamp. *)
\* Mutant: remove() goes on without its backup.
BackupFailsUnseen(c) == IF call[c].fn = "remove" THEN Goto(c, "remove") ELSE Raise(c)

BackupFails(c) == IF call[c].fn = "remove" THEN Leave(c, "failed") ELSE Raise(c)
BackupDone(c, b) ==
  call' = [call EXCEPT ![c].bak = b, ![c].pc = IF call[c].fn = "remove" THEN "remove" ELSE "setAside"]

BackupBegins(c) ==
  /\ At(c, "backup")
  /\ NoFault
  /\ \/ /\ ~Exists("install") /\ BackupFails(c)
        /\ UNCHANGED <<disk, used>>
     \/ /\ Exists("install")
        /\ \E b \in Backups \ used :
             /\ used' = used \union {b}
             /\ Put(b, Torn(disk["install"].ver, c))
             /\ call' = [call EXCEPT ![c].pc = "backingUp", ![c].bak = b, ![c].src = disk["install"]]
  /\ UNCHANGED history

BackupUndisturbed(c) == disk[call[c].bak].by = c /\ disk["install"] = call[c].src

BackupEnds(c) ==
  /\ At(c, "backingUp")
  /\ \/ /\ BackupUndisturbed(c)
        /\ Put(call[c].bak, [call[c].src EXCEPT !.by = NoCaller])
        /\ BackupDone(c, call[c].bak)
        /\ NoFault /\ UNCHANGED torn
     \/ /\ ~BackupUndisturbed(c)
        /\ NoFault /\ UNCHANGED torn
        /\ \/ BackupFails(c) /\ UNCHANGED disk
           \/ /\ Exists("install")
              /\ Put(call[c].bak, Torn(call[c].src.ver, NoCaller))
              /\ BackupDone(c, call[c].bak)
     \/ /\ Fault /\ BackupFails(c) /\ UNCHANGED disk
        /\ torn' = TRUE
  /\ UNCHANGED <<used, current, unsaved, raced, calls, crashes>>

-----------------------------------------------------------------------------
(* The swap.                                                               *)
\* rollback() looks for an installed folder only now, install() remembers its first look.
SetAside(c) ==
  /\ At(c, "setAside")
  /\ \/ /\ call[c].fn = "rollback" /\ ~Exists("install")
        /\ call' = [call EXCEPT ![c].pc = "activate", ![c].replaced = FALSE]
        /\ NoFault /\ UNCHANGED disk
     \/ /\ CanRename("install", Aside(c))
        /\ Rename("install", Aside(c))
        /\ call' = [call EXCEPT ![c].pc = "activate", ![c].replaced = TRUE]
        /\ NoFault
     \/ /\ ~CanRename("install", Aside(c)) /\ (call[c].fn = "install" \/ Exists("install"))
        /\ Raise(c) /\ NoFault /\ UNCHANGED disk
     \/ Fault /\ Exists("install") /\ Raise(c) /\ UNCHANGED disk
  /\ UNCHANGED <<used, history>>

Activate(c) ==
  /\ At(c, "activate")
  /\ \/ /\ CanRename(Stage(c), "install")
        /\ Rename(Stage(c), "install")
        /\ current' = IF disk[Stage(c)].whole THEN disk[Stage(c)].ver
                      ELSE IF call[c].fn = "rollback" THEN NoVersion ELSE current
        /\ call' = [call EXCEPT ![c].pc = "cleanup", ![c].result = "ok"]
        /\ NoFault
     \/ /\ ~CanRename(Stage(c), "install")
        /\ Goto(c, "recover") /\ NoFault /\ UNCHANGED <<disk, current>>
     \/ Fault /\ Goto(c, "recover") /\ UNCHANGED <<disk, current>>
  /\ UNCHANGED <<used, unsaved, torn, raced, calls, crashes>>

\* install() puts back whatever lies in the before-update folder, rollback() what it moved.
HasAside(c) == IF call[c].fn = "install" THEN Exists("before") ELSE call[c].replaced

\* Mutant: the old version is not put back.
RecoverNothing(c) ==
  At(c, "recover") /\ Raise(c) /\ UNCHANGED <<disk, used, faults, history>>

Recover(c) ==
  /\ At(c, "recover")
  /\ Raise(c)
  /\ \/ /\ HasAside(c) /\ CanRename(Aside(c), "install")
        /\ Rename(Aside(c), "install") /\ NoFault
     \/ /\ ~(HasAside(c) /\ CanRename(Aside(c), "install"))
        /\ UNCHANGED disk /\ NoFault
     \/ Fault /\ HasAside(c) /\ UNCHANGED disk
  /\ UNCHANGED <<used, history>>

-----------------------------------------------------------------------------
(* rmtree: empties the folder it opened, then removes the name.  It raises when the folder was
   moved or filled again meanwhile, and may raise of itself.                                  *)
Empty(c, p) == Put(p, Torn(disk[p].ver, c))

\* finally: remove the staging folder, whoever filled it.
Cleanup(c) ==
  /\ At(c, "cleanup")
  /\ \/ Exists(Stage(c)) /\ Empty(c, Stage(c)) /\ Goto(c, "cleaning")
     \/ /\ ~Exists(Stage(c)) /\ UNCHANGED disk
        /\ IF call[c].result = "ok" THEN Goto(c, "discard") ELSE Leave(c, "failed")
  /\ UNCHANGED <<used, history, faults>>

Cleaned(c) ==
  /\ At(c, "cleaning")
  /\ \/ /\ disk[Stage(c)].by = c
        /\ Put(Stage(c), Nothing) /\ NoFault
        /\ IF call[c].result = "ok" THEN Goto(c, "discard") ELSE Leave(c, "failed")
     \/ /\ disk[Stage(c)].by # c
        /\ Leave(c, "failed") /\ NoFault /\ UNCHANGED disk
     \/ Fault /\ Leave(c, "failed") /\ UNCHANGED disk
  /\ UNCHANGED <<used, history>>

\* The version set aside goes once the new one is active.
Discard(c) ==
  /\ At(c, "discard")
  /\ \/ HasAside(c) /\ Exists(Aside(c)) /\ Empty(c, Aside(c)) /\ Goto(c, "discarding")
     \/ /\ ~(HasAside(c) /\ Exists(Aside(c))) /\ UNCHANGED disk
        /\ Leave(c, IF HasAside(c) THEN "failed" ELSE "ok")
  /\ UNCHANGED <<used, history, faults>>

Discarded(c) ==
  /\ At(c, "discarding")
  /\ \/ disk[Aside(c)].by = c /\ Put(Aside(c), Nothing) /\ Leave(c, "ok") /\ NoFault
     \/ disk[Aside(c)].by # c /\ Leave(c, "failed") /\ NoFault /\ UNCHANGED disk
     \/ Fault /\ Leave(c, "failed") /\ UNCHANGED disk
  /\ UNCHANGED <<used, history>>

\* remove() empties the installed folder, delete_backup() a backup.
Target(c) == IF call[c].fn = "delete" THEN call[c].bak ELSE "install"

\* Given up: a version removed without backup, a backup deleted that alone held it.
GivesUp(c) ==
  \/ call[c].fn = "remove" /\ ~call[c].keep
  \/ call[c].fn = "delete" /\ disk["install"] # Whole(current)

Remove(c) ==
  /\ At(c, "remove")
  /\ \/ /\ Exists(Target(c)) /\ Empty(c, Target(c)) /\ Goto(c, "removing")
        /\ current' = IF GivesUp(c) THEN NoVersion ELSE current
        /\ unsaved' = (unsaved \/ /\ call[c].op # "install"
                                  /\ call[c].keep => raced /\ ~disk[call[c].bak].whole)
     \/ ~Exists(Target(c)) /\ Leave(c, "failed") /\ UNCHANGED <<disk, current, unsaved>>
  /\ UNCHANGED <<used, torn, raced, calls, faults, crashes>>

Removed(c) ==
  /\ At(c, "removing")
  /\ \/ disk[Target(c)].by = c /\ Put(Target(c), Nothing) /\ Leave(c, "ok") /\ NoFault /\ UNCHANGED torn
     \/ disk[Target(c)].by # c /\ Leave(c, "failed") /\ NoFault /\ UNCHANGED <<disk, torn>>
     \/ Fault /\ Leave(c, "failed") /\ torn' = TRUE /\ UNCHANGED disk
  /\ UNCHANGED <<used, current, unsaved, raced, calls, crashes>>

-----------------------------------------------------------------------------
\* verify_activated_plugin: a managed plugin the node could not load is taken back.
Verify(c) ==
  /\ At(c, "verify")
  /\ \/ Goto(c, "done")
     \/ /\ Managed
        /\ call' = [call EXCEPT ![c].pc = "check",
                                ![c].fn = IF call[c].bak # NoBackup THEN "rollback" ELSE "remove"]
  /\ UNCHANGED <<disk, used, history, faults>>

\* The process dies: the folders stay as they are, and a restart looks at none of them.
Half(c) == call[c].pc \in {"backingUp", "removing"}

Crash ==
  /\ crashes < MaxCrashes
  /\ crashes' = crashes + 1
  /\ \E c \in Callers : Active(c)
  /\ torn' = (torn \/ \E c \in Callers : Half(c))
  /\ call' = [c \in Callers |-> Idle]
  /\ UNCHANGED <<disk, used, current, unsaved, raced, calls, faults>>

Next ==
  \/ \E c \in Callers :
       \/ InstallRequest(c) \/ RemoveRequest(c) \/ RollbackRequest(c) \/ DeleteRequest(c)
       \/ Check(c) \/ CopyBegins(c) \/ CopyEnds(c) \/ Provision(c)
       \/ BackupBegins(c) \/ BackupEnds(c)
       \/ SetAside(c) \/ Activate(c) \/ Recover(c)
       \/ Cleanup(c) \/ Cleaned(c) \/ Discard(c) \/ Discarded(c)
       \/ Remove(c) \/ Removed(c) \/ Verify(c)
  \/ Crash

Spec == Init /\ [][Next]_vars

-----------------------------------------------------------------------------
Folder == [ver : Versions \union {NoVersion}, whole : BOOLEAN, by : Callers \union {NoCaller}]

\* Types of the variables; a whole folder is of a version and in nobody's hands.
TypeOK ==
  /\ disk \in [Places -> Folder]
  /\ \A p \in Places : disk[p].whole => disk[p] = Whole(disk[p].ver) /\ disk[p].ver \in Versions
  /\ used \subseteq Backups
  /\ \A b \in Backups \ used : disk[b] = Nothing
  /\ \A c \in Callers : call[c].op \in {"none", "install", "remove", "rollback", "delete"}
  /\ current \in Versions \union {NoVersion}
  /\ unsaved \in BOOLEAN /\ torn \in BOOLEAN /\ raced \in BOOLEAN
  /\ calls \in 0..MaxCalls /\ faults \in 0..MaxFaults /\ crashes \in 0..MaxCrashes

Removing(p) == \E c \in Callers : call[c].pc = "removing" /\ Target(c) = p

\* The node never runs a plugin folder with holes: while calls come one after the other, what is
\* installed is whole, unless a removal is under way or was cut short, or a backup whose copy was
\* cut short (list_backups offers it like any other) has been restored.
InstalledIsWhole ==
  Exists("install") /\ ~disk["install"].whole => raced \/ torn \/ Removing("install")

\* A call that met no failing file operation leaves none of the hidden folders behind, even when
\* it refused the plugin or took it back: such a folder blocks every later installation.
NothingLeftBehind ==
  (\A c \in Callers : ~Active(c)) /\ ~raced /\ faults = 0 /\ crashes = 0 =>
  \A p \in Hidden : ~Exists(p)

\* What holds of the folders at any moment: types, no holes in what runs, no remains.
Consistent == TypeOK /\ InstalledIsWhole /\ NothingLeftBehind

\* Whatever fails, and wherever the process dies, the version last activated is still there in
\* full: installed, set aside, or in a backup, until a client gives it up.
ActiveVersionSurvives ==
  current # NoVersion /\ ~raced => \E p \in Places \ {"staged", "restoring"} : disk[p] = Whole(current)

\* Even when two calls race each other on the same folders, and fail, and the process dies among
\* them, some version remains in full: an update alone never loses the last one, only a removal
\* without a whole backup does, or a rollback to an incomplete one (it saves nothing).
SomeVersionSurvives ==
  current # NoVersion /\ ~unsaved /\ calls <= 2 => \E p \in Places \ {"staged", "restoring"} : disk[p].whole

\* No version is lost that somebody relies on: the active one while calls come one after the
\* other, and not the last one when two race.
VersionsSurvive == ActiveVersionSurvives /\ SomeVersionSurvives

\* An update or a rollback that fails leaves a version to run: the one there was or the new one;
\* only when the swap AND its undoing failed the old one stays in the hidden folder.
FailureKeepsAVersion == \A c \in Callers :
  call[c].pc = "done" /\ call[c].op \in {"install", "rollback"} /\ call[c].result = "failed"
    /\ call[c].start.whole /\ ~raced /\ ~torn =>
  \/ disk["install"].whole
  \/ faults >= 2 /\ ~Exists("install") /\ disk[Aside(c)].whole

\* What the client is told: after "installed" the new version is installed in full and the one it
\* replaced is in the backup the answer names; a managed plugin that was taken back left the
\* version there was before.
AnswerIsTrue == \A c \in Callers : call[c].pc = "done" /\ ~raced /\ ~torn =>
  /\ call[c].op = "install" /\ call[c].result = "ok" =>
       /\ disk["install"] = Whole(call[c].ver)
       /\ call[c].start.whole => call[c].bak # NoBackup /\ disk[call[c].bak] = call[c].start
  /\ call[c].op = "install" /\ call[c].fn # "install" /\ faults = 0 /\ crashes = 0 =>
       disk["install"] = call[c].start
  /\ call[c].op = "remove" /\ call[c].result = "ok" =>
       ~Exists("install") /\ (call[c].keep /\ call[c].start.whole => disk[call[c].bak] = call[c].start)

=============================================================================
