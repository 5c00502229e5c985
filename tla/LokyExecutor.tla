---------------------------- MODULE LokyExecutor ----------------------------
(***************************************************************************)
(* util/concurrency/loky_executor.py: an executor whose __enter__ warms   *)
(* the workers up and whose workers retire after a number of tasks.  The   *)
(* worker loop, the spawning and the warm-up are the repository's; loky's  *)
(* submit, its manager thread and its shutdown are external and modelled   *)
(* as that code relies on them:                                            *)
(*   - submit queues a work id and restores the number of workers;         *)
(*   - the manager thread feeds the bounded call queue, reads the result   *)
(*     queue in order, and reads it before it looks at dead processes;     *)
(*   - a pid in the result queue is a worker that leaves cleanly: it is    *)
(*     forgotten, its exit lock released, and a replacement is started if  *)
(*     work is left; a process found dead otherwise breaks the executor.   *)
(* Work ids count from 1; with prefork the first MaxWorkers are the noops. *)
(***************************************************************************)
EXTENDS Integers, Sequences, FiniteSets

CONSTANTS
    MaxWorkers,     \* max_workers
    RetireAfter,    \* retire_after_tasks (not None)
    Prefork,        \* the prefork argument
    MaxWork,        \* bound: submit calls, the noops included
    MaxTimeouts,    \* bound: idle timeouts (0 when timeout is None)
    QueueSize,      \* capacity of loky's call queue
    MayLeak,        \* may the RSS check find a leak?
    MaxFailures     \* bound: initializers that raise, calls that do not unpickle

ASSUME WorkersAssumption == MaxWorkers \in Nat \ {0}
ASSUME RetireAssumption  == RetireAfter \in Nat
ASSUME BoundsAssumption  == {MaxWork, MaxTimeouts, MaxFailures} \subseteq Nat /\ QueueSize \in Nat \ {0}
ASSUME FlagsAssumption   == {Prefork, MayLeak} \subseteq BOOLEAN

(* Every worker but the last MaxWorkers ran an item or timed out. *)
MaxSpawn == MaxWorkers + MaxWork + MaxTimeouts
Workers  == 1 .. MaxSpawn
Ids      == 1 .. MaxWork
Noops    == IF Prefork THEN 1 .. MaxWorkers ELSE {}

VARIABLES
    main,       \* the with statement: see MainStates
    submitted,  \* _queue_count: work ids given out
    fut,        \* fut[i]: "new", "pending", "done" or "failed"
    workIds,    \* work ids the manager has not put in the call queue yet
    callQueue,  \* _call_queue
    results,    \* _result_queue: <<"done", i>>, <<"pid", w>> or <<"trace", w>>
    processes,  \* the keys of _processes
    spawned,    \* workers started so far
    worker,     \* worker[w]: where w is in _process_worker_countdown
    running,    \* running[w]: the item w holds, or 0
    completed,  \* tasks_completed of w
    released,   \* workers whose exit lock the parent has released
    joining,    \* the worker the manager thread joins, or 0
    broken,     \* the executor is flagged broken
    timeouts,   \* idle timeouts so far
    failures    \* worker failures so far

mainVars    == <<main, submitted>>
queueVars   == <<workIds, callQueue, results>>
workerVars  == <<worker, running, completed>>
spawnVars   == <<processes, spawned>>
managerVars == <<released, joining, broken>>
limitVars   == <<timeouts, failures>>
vars == <<mainVars, fut, queueVars, workerVars, spawnVars, managerVars, limitVars>>

MainStates   == {"new", "warming", "open", "failed", "closing", "stopping", "closed"}
WorkerStates == {"unborn", "starting", "idle", "running", "finished", "retiring", "exited"}

TypeOK ==
    /\ main \in MainStates
    /\ submitted \in 0 .. MaxWork
    /\ fut \in [Ids -> {"new", "pending", "done", "failed"}]
    /\ workIds \in Seq(Ids)
    /\ callQueue \in Seq(Ids) /\ Len(callQueue) <= QueueSize
    /\ results \in Seq({"done", "pid", "trace"} \X (Ids \cup Workers))
    /\ processes \subseteq Workers
    /\ spawned \in 0 .. MaxSpawn
    /\ worker \in [Workers -> WorkerStates]
    /\ running \in [Workers -> Ids \cup {0}]
    /\ completed \in [Workers -> 0 .. RetireAfter + 1]
    /\ RetireAfter > 0 => \A w \in Workers : completed[w] <= RetireAfter
    /\ released \subseteq Workers
    /\ joining \in Workers \cup {0}
    /\ broken \in BOOLEAN
    /\ timeouts \in 0 .. MaxTimeouts
    /\ failures \in 0 .. MaxFailures

Init ==
    /\ main = "new" /\ submitted = 0
    /\ fut = [i \in Ids |-> "new"]
    /\ workIds = <<>> /\ callQueue = <<>> /\ results = <<>>
    /\ processes = {} /\ spawned = 0
    /\ worker = [w \in Workers |-> "unborn"]
    /\ running = [w \in Workers |-> 0]
    /\ completed = [w \in Workers |-> 0]
    /\ released = {} /\ joining = 0 /\ broken = FALSE
    /\ timeouts = 0 /\ failures = 0

Pending == {i \in Ids : fut[i] = "pending"}

(* loky's running_work_items: pending and no longer in the work-id queue. *)
RunningItems == Cardinality(Pending) - Len(workIds)

(* The manager thread is in its loop: started, not broken, not stopping. *)
ManagerLoops == main \notin {"new", "stopping", "closed"} /\ ~broken /\ joining = 0

-----------------------------------------------------------------------------
(* The parent: spawning, warm-up, submit, shutdown. *)

(* Mutants -- wrong variants of the definition that follows, used to show that
   a property can fail -- are marked so.  Mutant: the workers already there
   are not counted. *)
AdjustTooMany ==
    LET fresh == spawned + 1 .. spawned + MaxWorkers
    IN  /\ processes' = processes \cup fresh
        /\ spawned' = spawned + MaxWorkers
        /\ worker' = [w \in Workers |-> IF w \in fresh THEN "starting" ELSE worker[w]]

(* Start workers until there are MaxWorkers, each with its exit lock held by
   the parent before it starts. *)
AdjustProcessCount ==
    LET fresh == spawned + 1 .. spawned + MaxWorkers - Cardinality(processes)
    IN  /\ processes' = processes \cup fresh
        /\ spawned' = spawned + Cardinality(fresh)
        /\ worker' = [w \in Workers |-> IF w \in fresh THEN "starting" ELSE worker[w]]

(* submit: queue the item and restore the number of workers. *)
SubmitItem ==
    /\ submitted < MaxWork
    /\ ~broken
    /\ submitted' = submitted + 1
    /\ fut' = [fut EXCEPT ![submitted + 1] = "pending"]
    /\ workIds' = Append(workIds, submitted + 1)
    /\ AdjustProcessCount
    /\ UNCHANGED <<callQueue, results, running, completed, managerVars, limitVars>>

Enter ==
    /\ main = "new"
    /\ main' = IF Prefork THEN "warming" ELSE "open"
    /\ AdjustProcessCount
    /\ UNCHANGED <<submitted, fut, queueVars, running, completed, managerVars, limitVars>>

WarmUpSubmits ==
    /\ main = "warming" /\ submitted < MaxWorkers
    /\ SubmitItem
    /\ UNCHANGED main

(* Every noop has returned. *)
Warm ==
    /\ main = "warming" /\ submitted = MaxWorkers
    /\ \A i \in Noops : fut[i] = "done"
    /\ main' = "open"
    /\ UNCHANGED <<submitted, fut, queueVars, workerVars, spawnVars, managerVars, limitVars>>

(* A noop failed or was refused, or its result did not come in 120 s:
   __enter__ raises and the with statement never calls __exit__. *)
EnterRaises ==
    /\ main = "warming"
    /\ broken \/ (submitted = MaxWorkers /\ \E i \in Noops : fut[i] = "pending")
    /\ main' = "failed"
    /\ UNCHANGED <<submitted, fut, queueVars, workerVars, spawnVars, managerVars, limitVars>>

Submit ==
    /\ main = "open"
    /\ SubmitItem
    /\ UNCHANGED main

Exit ==
    /\ main = "open"
    /\ main' = "closing"
    /\ UNCHANGED <<submitted, fut, queueVars, workerVars, spawnVars, managerVars, limitVars>>

(* Shutting down with nothing pending, the manager releases every exit lock
   and sends a sentinel to every worker; a broken executor has none left. *)
StopWorkers ==
    /\ main = "closing"
    /\ broken \/ (Pending = {} /\ joining = 0)
    /\ main' = "stopping"
    /\ released' = released \cup processes
    /\ UNCHANGED <<submitted, fut, queueVars, workerVars, spawnVars, joining, broken, limitVars>>

Closed ==
    /\ main = "stopping"
    /\ \A w \in processes : worker[w] = "exited"
    /\ main' = "closed"
    /\ processes' = {}
    /\ UNCHANGED <<submitted, fut, queueVars, workerVars, spawned, managerVars, limitVars>>

-----------------------------------------------------------------------------
(* A worker process. *)

Initialized(w) ==
    /\ worker[w] = "starting"
    /\ worker' = [worker EXCEPT ![w] = "idle"]
    /\ UNCHANGED <<mainVars, fut, queueVars, running, completed, spawnVars, managerVars, limitVars>>

(* The initializer raises: the worker returns and says nothing. *)
InitializerRaises(w) ==
    /\ failures < MaxFailures
    /\ failures' = failures + 1
    /\ worker[w] = "starting"
    /\ worker' = [worker EXCEPT ![w] = "exited"]
    /\ UNCHANGED <<mainVars, fut, queueVars, running, completed, spawnVars, managerVars, timeouts>>

(* Mutant: the count is compared when an item was already taken. *)
TakeThenRetire(w) ==
    /\ worker[w] = "idle"
    /\ callQueue # <<>>
    /\ callQueue' = Tail(callQueue)
    /\ IF completed[w] >= RetireAfter - 1 /\ completed[w] > 0
       THEN /\ worker' = [worker EXCEPT ![w] = "retiring"]
            /\ results' = Append(results, <<"pid", w>>)
            /\ UNCHANGED running
       ELSE /\ worker' = [worker EXCEPT ![w] = "running"]
            /\ running' = [running EXCEPT ![w] = Head(callQueue)]
            /\ UNCHANGED results
    /\ UNCHANGED <<mainVars, fut, workIds, completed, spawnVars, managerVars, limitVars>>

(* call_queue.get returns an item. *)
Take(w) ==
    /\ worker[w] = "idle"
    /\ callQueue # <<>>
    /\ callQueue' = Tail(callQueue)
    /\ worker' = [worker EXCEPT ![w] = "running"]
    /\ running' = [running EXCEPT ![w] = Head(callQueue)]
    /\ UNCHANGED <<mainVars, fut, workIds, results, completed, spawnVars, managerVars, limitVars>>

(* call_queue.get raises (the item does not unpickle): the traceback is sent
   and the process exits with code 1. *)
TakeRaises(w) ==
    /\ failures < MaxFailures
    /\ failures' = failures + 1
    /\ worker[w] = "idle"
    /\ callQueue # <<>>
    /\ callQueue' = Tail(callQueue)
    /\ results' = Append(results, <<"trace", w>>)
    /\ worker' = [worker EXCEPT ![w] = "exited"]
    /\ UNCHANGED <<mainVars, fut, workIds, running, completed, spawnVars, managerVars, timeouts>>

(* A sentinel, or an idle timeout while nobody holds the management lock:
   the worker announces its exit. *)
LeaveIdle(w) ==
    /\ worker[w] = "idle"
    /\ \/ main = "stopping" /\ UNCHANGED timeouts
       \/ timeouts < MaxTimeouts /\ callQueue = <<>> /\ timeouts' = timeouts + 1
    /\ results' = Append(results, <<"pid", w>>)
    /\ worker' = [worker EXCEPT ![w] = "retiring"]
    /\ UNCHANGED <<mainVars, fut, workIds, callQueue, running, completed, spawnVars, managerVars, failures>>

(* The item ran; its result or exception is sent before the count moves. *)
Run(w) ==
    /\ worker[w] = "running"
    /\ results' = Append(results, <<"done", running[w]>>)
    /\ running' = [running EXCEPT ![w] = 0]
    /\ completed' = [completed EXCEPT ![w] = @ + 1]
    /\ worker' = [worker EXCEPT ![w] = "finished"]
    /\ UNCHANGED <<mainVars, fut, workIds, callQueue, spawnVars, managerVars, limitVars>>

(* Mutant: one task more. *)
RetiresLate(w) == completed[w] > RetireAfter

(* Task-count retirement. *)
ReachedMax(w) == completed[w] >= RetireAfter

(* The RSS check needs a reference taken after an earlier task. *)
Leaks(w) == MayLeak /\ completed[w] > 1

(* Mutant: the worker returns without announcing it. *)
RetiresSilently(w) ==
    /\ worker[w] = "finished"
    /\ ReachedMax(w) \/ Leaks(w)
    /\ worker' = [worker EXCEPT ![w] = "exited"]
    /\ UNCHANGED <<mainVars, fut, queueVars, running, completed, spawnVars, managerVars, limitVars>>

Retire(w) ==
    /\ worker[w] = "finished"
    /\ ReachedMax(w) \/ Leaks(w)
    /\ results' = Append(results, <<"pid", w>>)
    /\ worker' = [worker EXCEPT ![w] = "retiring"]
    /\ UNCHANGED <<mainVars, fut, workIds, callQueue, running, completed, spawnVars, managerVars, limitVars>>

Continue(w) ==
    /\ worker[w] = "finished"
    /\ ~ReachedMax(w)
    /\ worker' = [worker EXCEPT ![w] = "idle"]
    /\ UNCHANGED <<mainVars, fut, queueVars, running, completed, spawnVars, managerVars, limitVars>>

(* "with worker_exit_lock": the parent lets it go. *)
Leave(w) ==
    /\ worker[w] = "retiring"
    /\ w \in released
    /\ worker' = [worker EXCEPT ![w] = "exited"]
    /\ UNCHANGED <<mainVars, fut, queueVars, running, completed, spawnVars, managerVars, limitVars>>

-----------------------------------------------------------------------------
(* loky's manager thread. *)

FeedCallQueue ==
    /\ ManagerLoops
    /\ workIds # <<>> /\ Len(callQueue) < QueueSize
    /\ callQueue' = Append(callQueue, Head(workIds))
    /\ workIds' = Tail(workIds)
    /\ UNCHANGED <<mainVars, fut, results, workerVars, spawnVars, managerVars, limitVars>>

ReadResult ==
    /\ ManagerLoops
    /\ results # <<>> /\ Head(results)[1] = "done"
    /\ fut' = [fut EXCEPT ![Head(results)[2]] = "done"]
    /\ results' = Tail(results)
    /\ UNCHANGED <<mainVars, workIds, callQueue, workerVars, spawnVars, managerVars, limitVars>>

(* A clean exit: forget the process, release its exit lock, join it. *)
ReadPid ==
    /\ ManagerLoops
    /\ results # <<>> /\ Head(results)[1] = "pid"
    /\ LET w == Head(results)[2]
       IN  /\ processes' = processes \ {w}
           /\ released' = released \cup {w}
           /\ joining' = w
    /\ results' = Tail(results)
    /\ UNCHANGED <<mainVars, fut, workIds, callQueue, workerVars, spawned, broken, limitVars>>

(* Then start a replacement if work is waiting or workers are too few. *)
Joined ==
    /\ joining # 0 /\ worker[joining] = "exited"
    /\ joining' = 0
    /\ IF workIds # <<>> \/ RunningItems > Cardinality(processes)
       THEN AdjustProcessCount
       ELSE UNCHANGED <<spawnVars, worker>>
    /\ UNCHANGED <<mainVars, fut, queueVars, running, completed, released, broken, limitVars>>

(* A traceback, or a dead process with nothing left to read: every pending
   future fails and the workers are killed. *)
Break ==
    /\ ManagerLoops
    /\ \/ results # <<>> /\ Head(results)[1] = "trace"
       \/ results = <<>> /\ \E w \in processes : worker[w] = "exited"
    /\ broken' = TRUE
    /\ fut' = [i \in Ids |-> IF fut[i] = "pending" THEN "failed" ELSE fut[i]]
    /\ workIds' = <<>> /\ callQueue' = <<>> /\ results' = <<>>
    /\ processes' = {}
    /\ worker' = [w \in Workers |-> IF worker[w] = "unborn" THEN "unborn" ELSE "exited"]
    /\ running' = [w \in Workers |-> 0]
    /\ UNCHANGED <<mainVars, completed, spawned, released, joining, limitVars>>

ManagerStep == FeedCallQueue \/ ReadResult \/ ReadPid \/ Joined \/ Break

WorkerStep(w) == Initialized(w) \/ Take(w) \/ Run(w) \/ Retire(w) \/ Continue(w)
                 \/ Leave(w) \/ (main = "stopping" /\ LeaveIdle(w))

Next ==
    \/ Enter \/ WarmUpSubmits \/ Warm \/ EnterRaises \/ Submit \/ Exit \/ StopWorkers \/ Closed
    \/ \E w \in Workers : WorkerStep(w) \/ LeaveIdle(w) \/ InitializerRaises(w) \/ TakeRaises(w)
    \/ ManagerStep

(* Processes and the manager thread keep running; tasks end.  A caller that
   entered gets its warm-up result; nothing obliges it to submit or leave. *)
Fairness ==
    /\ WF_vars(WarmUpSubmits) /\ WF_vars(Warm) /\ WF_vars(StopWorkers) /\ WF_vars(Closed)
    /\ WF_vars(ManagerStep)
    /\ \A w \in Workers : WF_vars(WorkerStep(w))

Spec == Init /\ [][Next]_vars /\ Fairness

-----------------------------------------------------------------------------
(* Retirement loses no item and runs none twice: a pending item is in exactly
   one place, the work-id queue, the call queue, a worker or the results. *)
Places(i) ==
      Cardinality({k \in DOMAIN workIds : workIds[k] = i})
    + Cardinality({k \in DOMAIN callQueue : callQueue[k] = i})
    + Cardinality({w \in Workers : running[w] = i})
    + Cardinality({k \in DOMAIN results : results[k] = <<"done", i>>})

OnePlace == \A i \in Ids : (fut[i] = "pending" /\ failures = 0 => Places(i) = 1)
                           /\ (fut[i] = "done" => Places(i) = 0)

(* A worker that retires is taken out of the registry before it exits, and a
   submit in between starts another for it: more than max_workers processes
   live at once, but one more at most, the one that the manager joins. *)
Live == {w \in Workers : worker[w] \notin {"unborn", "exited"}}
LiveAreBounded ==
    Cardinality(Live) <= MaxWorkers + (IF joining \in Live THEN 1 ELSE 0)

(* A clean exit, whatever its reason, never looks like a crash. *)
CleanRetirement == broken => failures > 0

(* Every submitted item is resolved, although the workers that could run it
   retire, time out or leak. *)
ItemResolved == \A i \in Ids : fut[i] = "pending" ~> fut[i] \in {"done", "failed"}

(* __exit__ returns. *)
ExitTerminates == main = "closing" ~> main = "closed"

(* "__enter__ blocks until every worker has run its initializer and completed
   a dummy task": when it returns, no worker is still starting. *)
WarmAtEntry ==
    [][main = "warming" /\ main' = "open" =>
        \A w \in processes : worker[w] # "starting"]_vars
=============================================================================
