---------------------------- MODULE JobLifecycle ----------------------------
(***************************************************************************)
(* What a MediaHub client relies on when it hands a job to a node: the     *)
(* job is worked on at most once, and once the node has reported an        *)
(* outcome that outcome stays.  Both nodes are meant to implement this     *)
(* module: the compute node's in-memory JobQueue (module ComputeJobs) and  *)
(* the AI node's job table (module PiJobs).                                *)
(***************************************************************************)
EXTENDS Naturals

CONSTANT Jobs

VARIABLES
    state,    \* state[j]: the status a client is told for job j
    starts    \* starts[j]: how often a handler was called for job j

lifecycleVars == <<state, starts>>

Final == {"completed", "failed", "cancelled"}
States == {"absent", "preparing", "queued", "running", "lost"} \cup Final

LifecycleInit ==
    /\ state = [j \in Jobs |-> "absent"]
    /\ starts = [j \in Jobs |-> 0]

Move(j, from, to) ==
    /\ state[j] \in from
    /\ state' = [state EXCEPT ![j] = to]

Submit(j) ==
    /\ \/ Move(j, {"absent"}, "preparing")
       \/ Move(j, {"absent", "preparing"}, "queued")
    /\ UNCHANGED starts

\* A queued job can be withdrawn, or be refused because nobody can do it.
Withdraw(j) ==
    /\ \/ Move(j, {"queued"}, "cancelled")
       \/ Move(j, {"queued"}, "failed")
    /\ UNCHANGED starts

Start(j) ==
    /\ Move(j, {"queued"}, "running")
    /\ UNCHANGED starts

\* The only step that calls a handler.
Call(j) ==
    /\ state[j] = "running"
    /\ starts[j] = 0
    /\ starts' = [starts EXCEPT ![j] = 1]
    /\ UNCHANGED state

Finish(j) ==
    /\ \/ Move(j, {"running"}, "failed")
       \/ starts[j] = 1 /\ Move(j, {"running"}, "completed")
    /\ UNCHANGED starts

\* The promise ends for some jobs: the node kept them in memory and was
\* restarted, or their client did not wait for an answer.
Lose(lost) ==
    /\ state' = [j \in Jobs |-> IF j \in lost THEN "lost" ELSE state[j]]
    /\ starts' = [j \in Jobs |-> IF j \in lost THEN 0 ELSE starts[j]]

LifecycleNext ==
    \/ \E j \in Jobs :
          Submit(j) \/ Withdraw(j) \/ Start(j) \/ Call(j) \/ Finish(j)
    \/ \E lost \in SUBSET Jobs : Lose(lost)

LifecycleSpec == LifecycleInit /\ [][LifecycleNext]_lifecycleVars
=============================================================================
