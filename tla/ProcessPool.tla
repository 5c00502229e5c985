---------------------------- MODULE ProcessPool ----------------------------
(***************************************************************************)
(* concurrent.futures.ProcessPoolExecutor as the classes of                *)
(* util/concurrency use it.  It is code outside the repository, so the     *)
(* module states only what its callers rely on: a running executor accepts *)
(* work, a broken or shut-down one refuses it; accepted work is resolved   *)
(* with a result or an exception; the done-callbacks of a future run one   *)
(* at a time in the executor's manager thread; shutdown(wait=True) returns *)
(* once everything accepted is resolved and the manager thread has ended.  *)
(*                                                                         *)
(* Executors are numbered 1..MaxGen in the order of their creation.  A     *)
(* task stands for one call of submit.                                     *)
(***************************************************************************)
EXTENDS Naturals, FiniteSets

CONSTANTS
    Tasks,      \* the submit calls of a behaviour
    MaxGen,     \* bound: the executors a behaviour creates
    Follow,     \* Follow[t]: the task a done-callback of t submits, or NoTask
    NoTask

ASSUME TasksAssumption  == IsFiniteSet(Tasks) /\ NoTask \notin Tasks
ASSUME MaxGenAssumption == MaxGen \in Nat \ {0}
ASSUME FollowAssumption == Follow \in [Tasks -> Tasks \cup {NoTask}]

NoPool   == 0
Gens     == 1 .. MaxGen
Chained  == {Follow[t] : t \in Tasks} \ {NoTask}
Callers  == Tasks \ Chained        \* submitted by a caller, not by a callback

VARIABLES
    exec,       \* exec[g]: state of executor g
    fut,        \* fut[t]: state of the future of task t
    where,      \* where[t]: the executor t was handed to, or NoPool
    callback    \* callback[g]: the submission g's manager thread is about to make

poolVars == <<exec, fut, where, callback>>

ExecStates == {"absent", "running", "broken", "shutdown", "gone"}
FutStates  == {"new", "pending", "done", "refused"}

PoolTypeOK ==
    /\ exec \in [Gens -> ExecStates]
    /\ fut \in [Tasks -> FutStates]
    /\ where \in [Tasks -> Gens \cup {NoPool}]
    /\ callback \in [Gens -> Tasks \cup {NoTask}]

PoolInit ==
    /\ exec = [g \in Gens |-> "absent"]
    /\ fut = [t \in Tasks |-> "new"]
    /\ where = [t \in Tasks |-> NoPool]
    /\ callback = [g \in Gens |-> NoTask]

(* The tasks handed to executor g, whether it took them or raised. *)
Attempts(g) == {t \in Tasks : where[t] = g}

PendingOn(g) == {t \in Attempts(g) : fut[t] = "pending"}

(* Everything g accepted is resolved and no callback of g is running: the
   manager thread can end, which is what shutdown(wait=True) waits for. *)
Drained(g) == PendingOn(g) = {} /\ callback[g] = NoTask

(* executor.submit(t): raises BrokenProcessPool or RuntimeError unless the
   executor is running.  clear is the callback the call was made from. *)
Handed(t, g) ==
    /\ where' = [where EXCEPT ![t] = g]
    /\ fut' = [fut EXCEPT ![t] = IF exec[g] = "running" THEN "pending" ELSE "refused"]

(* The submit call raised before it reached an executor. *)
Refused(t) ==
    /\ fut' = [fut EXCEPT ![t] = "refused"]
    /\ UNCHANGED where

(* A future of g is resolved; the manager thread enters its callback. *)
Resolve(t) ==
    /\ fut[t] = "pending"
    /\ callback[where[t]] = NoTask
    /\ fut' = [fut EXCEPT ![t] = "done"]
    /\ callback' = [callback EXCEPT ![where[t]] = Follow[t]]
    /\ UNCHANGED <<exec, where>>

(* A worker process is killed or its initializer raises: the executor takes
   no more work and resolves what it holds with an exception. *)
WorkerDies(g) ==
    /\ exec[g] = "running"
    /\ Attempts(g) # {}
    /\ exec' = [exec EXCEPT ![g] = "broken"]
    /\ UNCHANGED <<fut, where, callback>>
=============================================================================
