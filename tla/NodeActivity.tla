---------------------------- MODULE NodeActivity ----------------------------
(***************************************************************************)
(* shared/node_activity.py: the NodeActivityController both nodes use to   *)
(* put their plugins to sleep after a period without MediaHub activity and *)
(* to wake them again.                                                     *)
(*                                                                         *)
(* Clients are the request and worker threads that call                    *)
(* mediahub_heartbeat(), wake() or begin_job() ... end_job(); one more     *)
(* thread, the watcher, runs _watch_loop().  Every block under self._lock  *)
(* is one action.  The two callbacks run without the lock, so every other  *)
(* thread may step between the block that precedes one and the block that  *)
(* follows it.                                                             *)
(***************************************************************************)
EXTENDS Integers, FiniteSets

CONSTANTS
    Clients,      \* threads that call the controller
    IdleTimeout   \* idle_timeout_seconds, counted in clock ticks

ASSUME ClientsAssumption == IsFiniteSet(Clients)
ASSUME TimeoutAssumption == IdleTimeout \in Nat \ {0}

VARIABLES
    sleeping,       \* _sleeping
    waking,         \* _waking
    lastError,      \* _last_error # ""
    activeJobs,     \* _active_jobs
    lastAge,        \* clock - _last_mediahub_activity, saturating at IdleTimeout
    pluginsLoaded,  \* what the callbacks did to the plugins of the node
    pc,             \* pc[t]: where client t stands in the controller
    op,             \* op[t]: the operation client t called
    watcher,        \* where the watcher thread stands
    watcherStop,    \* _watcher_stop_event is set
    seenAge         \* age of the last_activity that check_idle() read

clientVars  == <<pc, op>>
watcherVars == <<watcher, watcherStop, seenAge>>
vars == <<sleeping, waking, lastError, activeJobs, lastAge, pluginsLoaded,
          clientVars, watcherVars>>

NoActivity == -1     \* _last_mediahub_activity is None
Ages == {NoActivity} \cup 0..IdleTimeout

Operations == {"wake", "heartbeat", "job"}
ClientPCs == {"idle", "waking", "callback", "loaded", "raised",
              "finish", "finishRaised", "begin", "running"}
WatcherPCs == {"off", "waiting", "compare", "sleep", "callback",
               "unloaded", "raised"}

TypeOK ==
    /\ sleeping \in BOOLEAN
    /\ waking \in BOOLEAN
    /\ lastError \in BOOLEAN
    /\ activeJobs \in Nat
    /\ lastAge \in Ages
    /\ pluginsLoaded \in BOOLEAN
    /\ pc \in [Clients -> ClientPCs]
    /\ op \in [Clients -> Operations]
    /\ watcher \in WatcherPCs
    /\ watcherStop \in BOOLEAN
    /\ seenAge \in Ages

\* The nodes construct the controller after their plugins were loaded, yet
\* __init__ starts with _sleeping = True.
Init ==
    /\ sleeping = TRUE
    /\ waking = FALSE
    /\ lastError = FALSE
    /\ activeJobs = 0
    /\ lastAge = NoActivity
    /\ pluginsLoaded = TRUE
    /\ pc = [t \in Clients |-> "idle"]
    /\ op = [t \in Clients |-> "wake"]
    /\ watcher = "off"
    /\ watcherStop = FALSE
    /\ seenAge = NoActivity

-----------------------------------------------------------------------------
(* wake(), and the three operations that start with it *)

Goto(t, label) == pc' = [pc EXCEPT ![t] = label]

\* Where the caller continues once wake() has returned normally.
AfterWake(t) == IF op[t] = "job" THEN "begin" ELSE "idle"

\* wake() called directly: the start of the AI node (app/main.py).
CallWake(t) ==
    /\ pc[t] = "idle"
    /\ op' = [op EXCEPT ![t] = "wake"]
    /\ Goto(t, "waking")
    /\ UNCHANGED <<sleeping, waking, lastError, activeJobs, lastAge,
                   pluginsLoaded, watcherVars>>

\* mediahub_heartbeat() and begin_job(): note_mediahub_activity() first.
Note(t, o) ==
    /\ pc[t] = "idle"
    /\ lastAge' = 0
    /\ op' = [op EXCEPT ![t] = o]
    /\ Goto(t, "waking")
    /\ UNCHANGED <<sleeping, waking, lastError, activeJobs, pluginsLoaded,
                   watcherVars>>

\* First locked block of wake() when there is nothing to do, or when another
\* thread is already in the callback.
WakeSkip(t) ==
    /\ pc[t] = "waking"
    /\ ~sleeping \/ waking
    /\ Goto(t, AfterWake(t))
    /\ UNCHANGED <<sleeping, waking, lastError, activeJobs, lastAge,
                   pluginsLoaded, op, watcherVars>>

WakeClaim(t) ==
    /\ pc[t] = "waking"
    /\ sleeping
    /\ ~waking
    /\ waking' = TRUE
    /\ lastError' = FALSE
    /\ Goto(t, "callback")
    /\ UNCHANGED <<sleeping, activeJobs, lastAge, pluginsLoaded, op,
                   watcherVars>>

WakeCallback(t) ==
    /\ pc[t] = "callback"
    /\ pluginsLoaded' = TRUE
    /\ Goto(t, "loaded")
    /\ UNCHANGED <<sleeping, waking, lastError, activeJobs, lastAge, op,
                   watcherVars>>

\* Mutant: the exception of the callback is swallowed.
WakeCallbackSwallows(t) ==
    /\ pc[t] = "callback"
    /\ pluginsLoaded' \in BOOLEAN
    /\ Goto(t, "loaded")
    /\ UNCHANGED <<sleeping, waking, lastError, activeJobs, lastAge, op,
                   watcherVars>>

\* The callback raises after it has done some of its work, or none.
WakeCallbackRaises(t) ==
    /\ pc[t] = "callback"
    /\ pluginsLoaded' \in BOOLEAN
    /\ Goto(t, "raised")
    /\ UNCHANGED <<sleeping, waking, lastError, activeJobs, lastAge, op,
                   watcherVars>>

WakeAwake(t) ==
    /\ pc[t] = "loaded"
    /\ sleeping' = FALSE
    /\ Goto(t, "finish")
    /\ UNCHANGED <<waking, lastError, activeJobs, lastAge, pluginsLoaded, op,
                   watcherVars>>

WakeError(t) ==
    /\ pc[t] = "raised"
    /\ lastError' = TRUE
    /\ Goto(t, "finishRaised")
    /\ UNCHANGED <<sleeping, waking, activeJobs, lastAge, pluginsLoaded, op,
                   watcherVars>>

\* The finally block; after an exception the caller is left as well.
WakeFinally(t) ==
    /\ pc[t] \in {"finish", "finishRaised"}
    /\ waking' = FALSE
    /\ lastAge' = 0
    /\ Goto(t, IF pc[t] = "finish" THEN AfterWake(t) ELSE "idle")
    /\ UNCHANGED <<sleeping, lastError, activeJobs, pluginsLoaded, op,
                   watcherVars>>

BeginJob(t) ==
    /\ pc[t] = "begin"
    /\ activeJobs' = activeJobs + 1
    /\ Goto(t, "running")
    /\ UNCHANGED <<sleeping, waking, lastError, lastAge, pluginsLoaded, op,
                   watcherVars>>

\* Mutant: end_job() notes the activity and forgets the counter.
EndJobUncounted(t) ==
    /\ pc[t] = "running"
    /\ lastAge' = 0
    /\ Goto(t, "idle")
    /\ UNCHANGED <<sleeping, waking, lastError, activeJobs, pluginsLoaded, op,
                   watcherVars>>

\* max(0, _active_jobs - 1)
EndJob(t) ==
    /\ pc[t] = "running"
    /\ activeJobs' = IF activeJobs > 0 THEN activeJobs - 1 ELSE 0
    /\ lastAge' = 0
    /\ Goto(t, "idle")
    /\ UNCHANGED <<sleeping, waking, lastError, pluginsLoaded, op,
                   watcherVars>>

-----------------------------------------------------------------------------
(* The watcher: start_watcher, _watch_loop -> check_idle -> sleep, stop_watcher *)

WatcherGoto(label) == watcher' = label

StartWatcher ==
    /\ watcher = "off"
    /\ ~watcherStop
    /\ WatcherGoto("waiting")
    /\ UNCHANGED <<sleeping, waking, lastError, activeJobs, lastAge,
                   pluginsLoaded, clientVars, watcherStop, seenAge>>

\* Each node stops its watcher once, when it shuts down; a watcher that is
\* inside a callback finishes it.
StopWatcher ==
    /\ watcher # "off"
    /\ ~watcherStop
    /\ watcherStop' = TRUE
    /\ UNCHANGED <<sleeping, waking, lastError, activeJobs, lastAge,
                   pluginsLoaded, clientVars, watcher, seenAge>>

WatcherExit ==
    /\ watcher = "waiting"
    /\ watcherStop
    /\ WatcherGoto("off")
    /\ UNCHANGED <<sleeping, waking, lastError, activeJobs, lastAge,
                   pluginsLoaded, clientVars, watcherStop, seenAge>>

\* Mutant: check_idle() does not test _sleeping.
CheckIdleAsleep ==
    /\ watcher = "waiting"
    /\ ~watcherStop
    /\ activeJobs = 0
    /\ seenAge' = lastAge
    /\ WatcherGoto("compare")
    /\ UNCHANGED <<sleeping, waking, lastError, activeJobs, lastAge,
                   pluginsLoaded, clientVars, watcherStop>>

\* Locked block of check_idle().  The calls that return False here change
\* nothing and are stuttering steps.
CheckIdle ==
    /\ watcher = "waiting"
    /\ ~watcherStop
    /\ ~sleeping
    /\ activeJobs = 0
    /\ seenAge' = lastAge
    /\ WatcherGoto("compare")
    /\ UNCHANGED <<sleeping, waking, lastError, activeJobs, lastAge,
                   pluginsLoaded, clientVars, watcherStop>>

\* The comparison with the clock, made after the lock was released.
CompareIdle ==
    /\ watcher = "compare"
    /\ WatcherGoto(IF seenAge = IdleTimeout THEN "sleep" ELSE "waiting")
    /\ UNCHANGED <<sleeping, waking, lastError, activeJobs, lastAge,
                   pluginsLoaded, clientVars, watcherStop, seenAge>>

\* First locked block of sleep().
SleepCheck ==
    /\ watcher = "sleep"
    /\ WatcherGoto(IF sleeping \/ activeJobs > 0 THEN "waiting" ELSE "callback")
    /\ UNCHANGED <<sleeping, waking, lastError, activeJobs, lastAge,
                   pluginsLoaded, clientVars, watcherStop, seenAge>>

SleepCallback ==
    /\ watcher = "callback"
    /\ pluginsLoaded' = FALSE
    /\ WatcherGoto("unloaded")
    /\ UNCHANGED <<sleeping, waking, lastError, activeJobs, lastAge,
                   clientVars, watcherStop, seenAge>>

SleepCallbackRaises ==
    /\ watcher = "callback"
    /\ pluginsLoaded' \in BOOLEAN
    /\ WatcherGoto("raised")
    /\ UNCHANGED <<sleeping, waking, lastError, activeJobs, lastAge,
                   clientVars, watcherStop, seenAge>>

SleepCommit ==
    /\ watcher = "unloaded"
    /\ sleeping' = TRUE
    /\ lastError' = FALSE
    /\ WatcherGoto("waiting")
    /\ UNCHANGED <<waking, activeJobs, lastAge, pluginsLoaded, clientVars,
                   watcherStop, seenAge>>

SleepError ==
    /\ watcher = "raised"
    /\ lastError' = TRUE
    /\ WatcherGoto("waiting")
    /\ UNCHANGED <<sleeping, waking, activeJobs, lastAge, pluginsLoaded,
                   clientVars, watcherStop, seenAge>>

-----------------------------------------------------------------------------
\* time.monotonic() advances; an age beyond IdleTimeout is not told apart.
Older(age) == IF age \in 0..(IdleTimeout - 1) THEN age + 1 ELSE age

Tick ==
    /\ lastAge' = Older(lastAge)
    /\ seenAge' = Older(seenAge)
    /\ UNCHANGED <<sleeping, waking, lastError, activeJobs, pluginsLoaded,
                   clientVars, watcher, watcherStop>>

\* The state status() reports to MediaHub, by its order of precedence.
StatusState ==
    CASE lastError -> "error"
      [] ~lastError /\ waking -> "waking"
      [] ~lastError /\ ~waking /\ sleeping -> "sleeping"
      [] OTHER -> "ready"

Call(t) == CallWake(t) \/ (\E o \in {"heartbeat", "job"} : Note(t, o))

Step(t) ==
    \/ WakeSkip(t)
    \/ WakeClaim(t)
    \/ WakeCallback(t)
    \/ WakeCallbackRaises(t)
    \/ WakeAwake(t)
    \/ WakeError(t)
    \/ WakeFinally(t)
    \/ BeginJob(t)
    \/ EndJob(t)

WatcherStep ==
    \/ WatcherExit
    \/ CheckIdle
    \/ CompareIdle
    \/ SleepCheck
    \/ SleepCallback
    \/ SleepCallbackRaises
    \/ SleepCommit
    \/ SleepError

Next ==
    \/ \E t \in Clients : Call(t) \/ Step(t)
    \/ WatcherStep
    \/ StartWatcher
    \/ StopWatcher
    \/ Tick

Spec == Init /\ [][Next]_vars

\* A thread that is inside an operation is scheduled again, a callback and a
\* job handler return, and the clock advances.  Nobody has to call anything.
Fairness ==
    /\ \A t \in Clients : WF_vars(Step(t))
    /\ WF_vars(WatcherStep)
    /\ WF_vars(StartWatcher)
    /\ WF_vars(Tick)

FairSpec == Spec /\ Fairness

-----------------------------------------------------------------------------
(* Properties *)

InWakeSection(t) == pc[t] \in {"callback", "loaded", "raised", "finish",
                               "finishRaised"}
WatcherInSleepSection == watcher \in {"callback", "unloaded", "raised"}

\* The wake callback and the sleep callback both rebuild the plugin registry
\* without any lock of their own.  The flags _sleeping and _waking keep them
\* apart: at most one thread is in wake()'s callback, and none while the
\* watcher is in sleep()'s.
CallbacksExclusive ==
    /\ \A s, t \in Clients :
          pc[s] = "callback" /\ pc[t] = "callback" => s = t
    /\ \A t \in Clients : ~(pc[t] = "callback" /\ watcher = "callback")

\* A node that says it is awake, without an error and with nobody in the
\* middle of putting it to sleep, has its plugins loaded: no order of
\* callbacks, failures and flag updates leaves _sleeping = False on a node
\* whose plugins are unloaded.
ReadyMeansLoaded ==
    StatusState = "ready" /\ ~WatcherInSleepSection => pluginsLoaded

\* The inductive invariant behind both: the thread in wake() owns _waking, it
\* finds the node asleep until it clears _sleeping itself, and the watcher
\* finds the node awake from check_idle() to the end of sleep().
WakeOwnership ==
    /\ waking <=> \E t \in Clients : InWakeSection(t)
    /\ \A s, t \in Clients : InWakeSection(s) /\ InWakeSection(t) => s = t
    /\ \A t \in Clients :
          pc[t] \in {"callback", "loaded", "raised", "finishRaised"} => sleeping
    /\ watcher \in {"compare", "sleep", "callback", "unloaded", "raised"}
          => ~sleeping
    /\ \A t \in Clients : pc[t] = "loaded" => pluginsLoaded
    /\ ~sleeping /\ ~lastError /\ ~WatcherInSleepSection => pluginsLoaded

\* _active_jobs counts exactly the threads between begin_job() and end_job(),
\* also when wake() raised inside begin_job(); so max(0, ...) never hides a
\* missing decrement and the node can always sleep again.
JobsCounted == activeJobs = Cardinality({t \in Clients : pc[t] = "running"})

\* Once clients stop calling and the watcher keeps running, the node goes to
\* sleep or reports the error that prevented it; it does not stay awake.
IdleNodeSleeps ==
    <>[](~watcherStop /\ \A t \in Clients : pc[t] = "idle")
        => <>[](sleeping \/ lastError)

\* CHANGELOG.md:18, the plugins are woken again by new MediaHub activity: after
\* a heartbeat has been recorded the plugins are loaded at some later time,
\* unless an error is reported.
HeartbeatWakes ==
    \A t \in Clients :
        (pc[t] = "waking" /\ op[t] = "heartbeat") ~> (pluginsLoaded \/ lastError)
=============================================================================
