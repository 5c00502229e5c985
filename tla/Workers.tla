------------------------------ MODULE Workers ------------------------------
(***************************************************************************)
(* util/concurrency/workers.py: run_in_workers pulls futures out of the    *)
(* caller's generator and keeps at most task_queue_length of them pending; *)
(* a None from the generator is a barrier.  One thread runs it; its tasks  *)
(* end in worker processes at any time.                                    *)
(*                                                                         *)
(* Futures are numbered in the order the generator yields them, which is   *)
(* their order in all_futures.  The executor is external: it resolves what *)
(* it accepted, and leaving its with block waits for all of it.            *)
(***************************************************************************)
EXTENDS Naturals, FiniteSets

CONSTANTS
    NumWorkers,     \* values of the num_worker argument
    QueueLengths,   \* values of task_queue_length; 0 stands for None too
    MaxTasks        \* bound: futures the generator yields

ASSUME ArgsAssumption == NumWorkers \subseteq Nat /\ QueueLengths \subseteq Nat
ASSUME MaxTasksAssumption == MaxTasks \in Nat

Futures == 1 .. MaxTasks

VARIABLES
    args,       \* the keyword arguments of the call
    pc,         \* "start", "generate", "wait", "leave", "last", "returned", "unwind", "raised"
    yielded,    \* len(all_futures)
    pending,    \* the pending set
    target,     \* target of the wait_pending in progress
    fut,        \* fut[i]: "new", "pending", "ok" or "failed"
    barrier,    \* history: futures yielded before the last None
    badGen      \* history: the generator itself raised

vars == <<args, pc, yielded, pending, target, fut, barrier, badGen>>

Arguments == [num_worker : NumWorkers, length : QueueLengths, raises : BOOLEAN]

(* "if not task_queue_length" *)
QueueLength == IF args.length = 0 THEN 2 * args.num_worker ELSE args.length

RaiseOnException == args.raises

TypeOK ==
    /\ args \in Arguments
    /\ pc \in {"start", "generate", "wait", "leave", "last", "returned", "unwind", "raised"}
    /\ yielded \in 0 .. MaxTasks
    /\ pending \subseteq Futures
    /\ target \in {0, QueueLength}
    /\ fut \in [Futures -> {"new", "pending", "ok", "failed"}]
    /\ barrier \in 0 .. MaxTasks
    /\ badGen \in BOOLEAN

Init ==
    /\ args \in Arguments
    /\ pc = "start"
    /\ yielded = 0 /\ pending = {} /\ target = 0
    /\ fut = [i \in Futures |-> "new"]
    /\ barrier = 0 /\ badGen = FALSE

Resolved(i) == fut[i] \in {"ok", "failed"}

(* ProcessPoolExecutor(max_workers=0) raises ValueError. *)
Start ==
    /\ pc = "start"
    /\ pc' = IF args.num_worker = 0 THEN "raised" ELSE "generate"
    /\ UNCHANGED <<yielded, pending, target, fut, barrier, badGen>>

(* Mutants -- wrong variants of the definition that follows, used to show that
   a property can fail -- are marked so.  Mutant: futures are numbered from 0. *)
YieldFromZero ==
    /\ pc = "generate"
    /\ yielded < MaxTasks
    /\ yielded' = yielded + 1
    /\ fut' = [fut EXCEPT ![yielded + 1] = "pending"]
    /\ pending' = pending \cup {yielded}
    /\ pc' = "wait"
    /\ target' = QueueLength
    /\ UNCHANGED <<barrier, badGen>>

(* The generator submits a task and yields its future. *)
Yield ==
    /\ pc = "generate"
    /\ yielded < MaxTasks
    /\ yielded' = yielded + 1
    /\ fut' = [fut EXCEPT ![yielded + 1] = "pending"]
    /\ pending' = pending \cup {yielded + 1}
    /\ pc' = "wait"
    /\ target' = QueueLength
    /\ UNCHANGED <<barrier, badGen>>

(* Mutant: the barrier waits for the queue length only. *)
LeakyBarrier ==
    /\ pc = "generate"
    /\ pc' = "wait"
    /\ target' = QueueLength
    /\ barrier' = yielded
    /\ UNCHANGED <<yielded, pending, fut, badGen>>

(* The generator yields None. *)
Barrier ==
    /\ pc = "generate"
    /\ pc' = "wait"
    /\ target' = 0
    /\ barrier' = yielded
    /\ UNCHANGED <<yielded, pending, fut, badGen>>

(* The generator is exhausted, or raises. *)
GeneratorEnds ==
    /\ pc = "generate"
    /\ \/ pc' = "leave" /\ UNCHANGED badGen
       \/ pc' = "unwind" /\ badGen' = TRUE
    /\ UNCHANGED <<yielded, pending, target, fut, barrier>>

(* Mutant: a failed future is not looked at. *)
WaitIgnores ==
    LET done == {i \in pending : Resolved(i)}
    IN  /\ pc \in {"wait", "last"}
        /\ Cardinality(pending) > target
        /\ done # {}
        /\ pending' = pending \ done
        /\ UNCHANGED <<pc, yielded, target, fut, barrier, badGen>>

(* One turn of wait_pending's loop: cf.wait hands back what is done (after its
   10 s timeout, nothing), and f.result() raises if one of these failed.  In
   the last call the with block is behind, so there is nothing to unwind. *)
WaitTurn ==
    LET done == {i \in pending : Resolved(i)}
    IN  /\ pc \in {"wait", "last"}
        /\ Cardinality(pending) > target
        /\ done # {}
        /\ pending' = pending \ done
        /\ IF RaiseOnException /\ \E i \in done : fut[i] = "failed"
           THEN pc' = IF pc = "wait" THEN "unwind" ELSE "raised"
           ELSE UNCHANGED pc
        /\ UNCHANGED <<yielded, target, fut, barrier, badGen>>

(* Mutant: < for <=. *)
WaitOverStrict ==
    /\ pc \in {"wait", "last"}
    /\ Cardinality(pending) < target
    /\ pc' = IF pc = "wait" THEN "generate" ELSE "returned"
    /\ UNCHANGED <<yielded, pending, target, fut, barrier, badGen>>

WaitOver ==
    /\ pc \in {"wait", "last"}
    /\ Cardinality(pending) <= target
    /\ pc' = IF pc = "wait" THEN "generate" ELSE "returned"
    /\ UNCHANGED <<yielded, pending, target, fut, barrier, badGen>>

(* Leaving the with block waits for every submitted task, also when an
   exception unwinds; then the last wait_pending looks at what is left. *)
Leave ==
    /\ pc \in {"leave", "unwind"}
    /\ \A i \in Futures : fut[i] # "pending"
    /\ IF pc = "leave"
       THEN pc' = "last" /\ target' = 0
       ELSE pc' = "raised" /\ UNCHANGED target
    /\ UNCHANGED <<yielded, pending, fut, barrier, badGen>>

(* A task ends in its worker, with a result or an exception. *)
TaskEnds(i) ==
    /\ fut[i] = "pending"
    /\ \E r \in {"ok", "failed"} : fut' = [fut EXCEPT ![i] = r]
    /\ UNCHANGED <<args, pc, yielded, pending, target, barrier, badGen>>

RunnerStep == (Start \/ WaitTurn \/ WaitOver \/ Leave) /\ UNCHANGED args

GeneratorStep == (Yield \/ Barrier \/ GeneratorEnds) /\ UNCHANGED args

Next == RunnerStep \/ GeneratorStep \/ \E i \in Futures : TaskEnds(i)

(* Tasks end and the runner is scheduled; nothing obliges the generator. *)
Spec ==
    /\ Init /\ [][Next]_vars
    /\ WF_vars(RunnerStep)
    /\ \A i \in Futures : WF_vars(TaskEnds(i))

-----------------------------------------------------------------------------
(* The generator is resumed only when at most task_queue_length of the tasks
   it submitted can still be running; and after a None only when every earlier
   task is over, and succeeded if exceptions are to be raised. *)
ResumesInTime ==
    pc = "generate" =>
        /\ Cardinality({i \in Futures : fut[i] = "pending"}) <= QueueLength
        /\ \A i \in 1 .. barrier : IF RaiseOnException THEN fut[i] = "ok" ELSE Resolved(i)

(* run_in_workers ends when nothing runs any more.  A normal return means that
   no task failed if exceptions are to be raised; and it raises for a reason,
   never in place of a return. *)
EndIsClean ==
    /\ pc \in {"returned", "raised"} => \A i \in Futures : fut[i] # "pending"
    /\ pc = "returned" => \A i \in 1 .. yielded : RaiseOnException => fut[i] = "ok"
    /\ pc = "raised" => args.num_worker = 0 \/ badGen
                           \/ (RaiseOnException /\ \E i \in Futures : fut[i] = "failed")

(* wait_pending always comes back, and so does run_in_workers once the
   generator is through. *)
RunEnds == pc \notin {"start", "generate"} ~> pc \in {"generate", "returned", "raised"}
=============================================================================
