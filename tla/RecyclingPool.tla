---------------------------- MODULE RecyclingPool ----------------------------
(***************************************************************************)
(* util/concurrency/recycling_pool.py: the first executor wrapper.  It     *)
(* replaces the executor by draining it, and waits for the old executor    *)
(* while it holds self._lock, so the lock has a holder here.  A method     *)
(* whose locked block never waits is one action, enabled when the lock is  *)
(* free; a block that waits is two, and others queue up in between.        *)
(***************************************************************************)
EXTENDS ProcessPool

CONSTANTS
    Threads,        \* threads sharing the pool object
    Nobody,
    RecycleAfter    \* the recycle_after argument

ASSUME ThreadsAssumption == IsFiniteSet(Threads) /\ Nobody \notin Threads
ASSUME RecycleAfterAssumption == RecycleAfter \in Nat

VARIABLES
    pool,       \* self._pool: an executor, or NoPool for None
    tasks,      \* self._tasks
    lock,       \* the holder of self._lock, or Nobody
    at,         \* at[p]: where p is in its with statement
    rec,        \* rec[p]: where p is in recycle_if_needed
    created,    \* history: the number of executors created
    owner       \* history: owner[g]: whose session executor g belongs to

selfVars == <<pool, tasks, lock>>
vars == <<poolVars, selfVars, at, rec, created, owner>>

TypeOK ==
    /\ PoolTypeOK
    /\ pool \in Gens \cup {NoPool}
    /\ tasks \in Nat
    /\ lock \in Threads \cup {Nobody}
    /\ at \in [Threads -> {"out", "in", "closing"}]
    /\ rec \in [Threads -> {"idle", "draining", "closing", "raised"}]
    /\ created \in 0 .. MaxGen
    /\ owner \in [Gens -> Threads \cup {Nobody}]

Init ==
    /\ PoolInit
    /\ pool = NoPool
    /\ tasks = 0
    /\ lock = Nobody
    /\ at = [p \in Threads |-> "out"]
    /\ rec = [p \in Threads |-> "idle"]
    /\ created = 0
    /\ owner = [g \in Gens |-> Nobody]

(* Mutants -- wrong variants of the definition that follows, used to show that
   a property can fail -- are marked so.  Mutant: numbers are skipped. *)
NewExecutorTwice(o) ==
    /\ created < MaxGen
    /\ created' = created + 2
    /\ owner' = [owner EXCEPT ![created + 1] = o]
    /\ pool' = created + 1

(* MaxGen bounds the executors created. *)
NewExecutor(o) ==
    /\ created < MaxGen
    /\ created' = created + 1
    /\ owner' = [owner EXCEPT ![created + 1] = o]
    /\ pool' = created + 1

(* A thread outside recycle_if_needed; an exception has left it too. *)
Idle(p) == rec[p] \in {"idle", "raised"}

(* _tasks keeps the value of the previous session. *)
Enter(p) ==
    /\ lock = Nobody
    /\ at[p] = "out" /\ Idle(p)
    /\ pool = NoPool                \* otherwise it raises and nothing changes
    /\ NewExecutor(p)
    /\ exec' = [exec EXCEPT ![created + 1] = "running"]
    /\ at' = [at EXCEPT ![p] = "in"]
    /\ UNCHANGED <<fut, where, callback, tasks, lock, rec>>

ExitShutsDown(p) ==
    /\ lock = Nobody
    /\ at[p] = "in" /\ Idle(p)
    /\ pool # NoPool
    /\ lock' = p
    /\ exec' = [exec EXCEPT ![pool] = "shutdown"]
    /\ at' = [at EXCEPT ![p] = "closing"]
    /\ UNCHANGED <<fut, where, callback, pool, tasks, rec, created, owner>>

(* Mutant: shutdown(wait=False). *)
ExitDoesNotWait(p) ==
    /\ at[p] = "closing"
    /\ exec' = [exec EXCEPT ![pool] = "gone"]
    /\ pool' = NoPool
    /\ lock' = Nobody
    /\ at' = [at EXCEPT ![p] = "out"]
    /\ UNCHANGED <<fut, where, callback, tasks, rec, created, owner>>

(* Mutant: the lock is taken again to clear _pool. *)
ExitReacquires(p) ==
    /\ at[p] = "closing"
    /\ lock = Nobody
    /\ ExitDoesNotWait(p)

ExitReturns(p) ==
    /\ at[p] = "closing"
    /\ Drained(pool)
    /\ exec' = [exec EXCEPT ![pool] = "gone"]
    /\ pool' = NoPool
    /\ lock' = Nobody
    /\ at' = [at EXCEPT ![p] = "out"]
    /\ UNCHANGED <<fut, where, callback, tasks, rec, created, owner>>

(* The body of submit.  The attempt is counted before the executor is asked. *)
SubmitLocked(t) ==
    IF pool = NoPool
    THEN Refused(t) /\ UNCHANGED tasks
    ELSE Handed(t, pool) /\ tasks' = tasks + 1

Submit(t) ==
    /\ lock = Nobody
    /\ t \in Callers
    /\ fut[t] = "new"
    /\ SubmitLocked(t)
    /\ UNCHANGED <<exec, callback, pool, lock, at, rec, created, owner>>

(* A done-callback that submits waits for the lock in the manager thread. *)
CallbackSubmit(g) ==
    /\ lock = Nobody
    /\ callback[g] # NoTask
    /\ callback' = [callback EXCEPT ![g] = NoTask]
    /\ IF fut[callback[g]] = "new"
       THEN SubmitLocked(callback[g])
       ELSE UNCHANGED <<fut, where, tasks>>
    /\ UNCHANGED <<exec, pool, lock, at, rec, created, owner>>

(* The first locked block of recycle_if_needed, past its early return.  The
   lock is released before drain_fn is called. *)
RecycleDecides(p) ==
    /\ lock = Nobody
    /\ Idle(p)
    /\ \E q \in Threads : at[q] = "in"      \* called inside the with statement
    /\ tasks >= RecycleAfter
    /\ rec' = [rec EXCEPT ![p] = "draining"]
    /\ UNCHANGED <<poolVars, selfVars, at, created, owner>>

(* drain_fn is the caller's and may return at any time.  Then the second
   locked block: shutdown(wait=True) on whatever the pool is by now. *)
RecycleShutsDown(p) ==
    /\ rec[p] = "draining"
    /\ lock = Nobody
    /\ pool # NoPool
    /\ created < MaxGen
    /\ lock' = p
    /\ exec' = [exec EXCEPT ![pool] = "shutdown"]
    /\ rec' = [rec EXCEPT ![p] = "closing"]
    /\ UNCHANGED <<fut, where, callback, pool, tasks, at, created, owner>>

(* drain_fn raises: the decision is not carried out. *)
DrainRaises(p) ==
    /\ rec[p] = "draining"
    /\ rec' = [rec EXCEPT ![p] = "raised"]
    /\ UNCHANGED <<poolVars, selfVars, at, created, owner>>

(* The session ended meanwhile: None.shutdown raises AttributeError. *)
RecycleRaises(p) ==
    /\ rec[p] = "draining"
    /\ lock = Nobody
    /\ pool = NoPool
    /\ rec' = [rec EXCEPT ![p] = "raised"]
    /\ UNCHANGED <<poolVars, selfVars, at, created, owner>>

(* Mutant: the old executor is left to drain by itself. *)
RecycleDoesNotWait(p) ==
    /\ rec[p] = "closing"
    /\ NewExecutor(owner[pool])
    /\ exec' = [exec EXCEPT ![created + 1] = "running"]
    /\ tasks' = 0
    /\ lock' = Nobody
    /\ rec' = [rec EXCEPT ![p] = "idle"]
    /\ UNCHANGED <<fut, where, callback, at>>

RecycleSwaps(p) ==
    /\ rec[p] = "closing"
    /\ Drained(pool)
    /\ NewExecutor(owner[pool])
    /\ exec' = [exec EXCEPT ![pool] = "gone", ![created + 1] = "running"]
    /\ tasks' = 0
    /\ lock' = Nobody
    /\ rec' = [rec EXCEPT ![p] = "idle"]
    /\ UNCHANGED <<fut, where, callback, at>>

PoolStep(t) == Resolve(t) /\ UNCHANGED <<selfVars, at, rec, created, owner>>

Breaks(g) == WorkerDies(g) /\ UNCHANGED <<selfVars, at, rec, created, owner>>

RecycleStep(p) ==
    DrainRaises(p) \/ RecycleShutsDown(p) \/ RecycleRaises(p) \/ RecycleSwaps(p)

Next ==
    \/ \E p \in Threads : Enter(p) \/ ExitShutsDown(p) \/ ExitReturns(p)
                          \/ RecycleDecides(p) \/ RecycleStep(p)
    \/ \E t \in Tasks : Submit(t) \/ PoolStep(t)
    \/ \E g \in Gens : CallbackSubmit(g) \/ Breaks(g)

(* A thread that waits for an executor is woken, tasks end, and a callback
   whose lock stays free takes it. *)
Fairness ==
    /\ \A p \in Threads : WF_vars(ExitReturns(p)) /\ WF_vars(RecycleSwaps(p))
    /\ \A t \in Tasks : WF_vars(PoolStep(t))
    /\ \A g \in Gens : WF_vars(CallbackSubmit(g))

Spec == Init /\ [][Next]_vars /\ Fairness

-----------------------------------------------------------------------------
(* At most one executor holds worker processes: the old one is gone before
   the new one exists, whichever threads enter, exit and recycle. *)
OneExecutor ==
    Cardinality({g \in Gens : exec[g] \notin {"absent", "gone"}}) <= 1

(* A retired or left executor has resolved all it accepted. *)
GoneIsDrained == \A g \in Gens : exec[g] = "gone" => Drained(g)

(* recycle_if_needed shuts an executor down only while the count has reached
   recycle_after ("when the task threshold is reached the pool is shut down").
   Of two threads that passed the check on one count, the second does it to
   the fresh executor of the first, whose count is 0. *)
ThresholdRespected ==
    \A p \in Threads : rec[p] = "closing" => tasks >= RecycleAfter

(* __exit__ returns once it has called shutdown. *)
ExitTerminates == \A p \in Threads : at[p] = "closing" ~> at[p] = "out"

(* A wait under the lock ends, and only a done-callback that itself waits for
   the lock can prevent it. *)
WaitEnds ==
    \A p \in Threads : lock = p ~> lock # p \/ \E g \in Gens : callback[g] # NoTask

(* The recycled pool is one service with sessions (the safety of TaskService:
   its liveness is lost to submitting callbacks, see ExitTerminates). *)
Service == INSTANCE TaskService WITH
    session <- [p \in Threads |-> IF at[p] = "in" THEN "open" ELSE at[p]],
    status <- fut,
    of <- [t \in Tasks |-> IF fut[t] \in {"pending", "done"} THEN owner[where[t]] ELSE Nobody]

ImplementsService == Service!Init /\ [][Service!Next]_Service!vars
=============================================================================
