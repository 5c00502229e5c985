--------------------------- MODULE RecyclingPool2 ---------------------------
(***************************************************************************)
(* util/concurrency/recycling_pool2.py: an executor wrapper that swaps in  *)
(* a fresh executor when enough tasks were submitted and lets the old one  *)
(* drain in a background thread.                                           *)
(*                                                                         *)
(* Every method does its work inside one "with self._lock" block that      *)
(* never waits, so each block is one action; what __exit__ does after it   *)
(* releases the lock, and each background thread, take steps of their own. *)
(***************************************************************************)
EXTENDS ProcessPool

CONSTANTS
    Threads,        \* threads sharing the pool object
    Nobody,
    RecycleAfter,   \* the recycle_after argument
    LateRecycle     \* may recycle_if_needed also be called while nobody is entered?

ASSUME ThreadsAssumption == IsFiniteSet(Threads) /\ Nobody \notin Threads
ASSUME RecycleAfterAssumption == RecycleAfter \in Nat
ASSUME LateRecycleAssumption == LateRecycle \in BOOLEAN

VARIABLES
    pool,       \* self._pool: an executor, or NoPool for None
    gen,        \* self._gen, the number of executors created
    tasks,      \* self._tasks
    cleanups,   \* self._cleanup_threads, each named by its gen argument
    cleaner,    \* cleaner[g]: state of the thread running _shutdown_pool(_, g)
    at,         \* at[p]: where p is in its with statement
    leaving,    \* leaving[p]: the locals (pool, threads) of p's __exit__
    owner       \* history: owner[g]: whose session executor g belongs to

selfVars == <<pool, gen, tasks, cleanups>>
vars == <<poolVars, selfVars, cleaner, at, leaving, owner>>

CleanerStates == {"none", "started", "draining", "ended"}

TypeOK ==
    /\ PoolTypeOK
    /\ pool \in Gens \cup {NoPool}
    /\ gen \in 0 .. MaxGen
    /\ tasks \in Nat
    /\ cleanups \subseteq 0 .. MaxGen
    /\ cleaner \in [0 .. MaxGen -> CleanerStates]
    /\ at \in [Threads -> {"out", "in", "joining", "closing"}]
    /\ leaving \in [Threads -> [pool : Gens \cup {NoPool}, threads : SUBSET (0 .. MaxGen)]]
    /\ owner \in [Gens -> Threads \cup {Nobody}]

Init ==
    /\ PoolInit
    /\ pool = NoPool
    /\ gen = 0
    /\ tasks = 0
    /\ cleanups = {}
    /\ cleaner = [g \in 0 .. MaxGen |-> "none"]
    /\ at = [p \in Threads |-> "out"]
    /\ leaving = [p \in Threads |-> [pool |-> NoPool, threads |-> {}]]
    /\ owner = [g \in Gens |-> Nobody]

(* Mutants -- wrong variants of the definition that follows, used to show that
   a property can fail -- are marked so.  Mutant: the number moves twice. *)
NewPoolTwice(o) ==
    /\ gen < MaxGen
    /\ gen' = gen + 2
    /\ exec' = [exec EXCEPT ![gen + 1] = "running"]
    /\ owner' = [owner EXCEPT ![gen + 1] = o]
    /\ pool' = gen + 1

(* MaxGen bounds the executors created.  The caller of _new_pool says what
   happens to the executors that exist. *)
NewPool(o) ==
    /\ gen < MaxGen
    /\ gen' = gen + 1
    /\ exec' = [exec EXCEPT ![gen + 1] = "running"]
    /\ owner' = [owner EXCEPT ![gen + 1] = o]
    /\ pool' = gen + 1

(* Mutant: _tasks is not reset. *)
EnterKeepsCount(p) ==
    /\ at[p] = "out"
    /\ pool = NoPool
    /\ NewPool(p)
    /\ at' = [at EXCEPT ![p] = "in"]
    /\ UNCHANGED <<fut, where, callback, tasks, cleanups, cleaner, leaving>>

Enter(p) ==
    /\ at[p] = "out"
    /\ pool = NoPool                \* otherwise it raises and nothing changes
    /\ NewPool(p)
    /\ tasks' = 0
    /\ at' = [at EXCEPT ![p] = "in"]
    /\ UNCHANGED <<fut, where, callback, cleanups, cleaner, leaving>>

(* Mutant: _pool is not set to None. *)
ExitKeepsPool(p) ==
    /\ at[p] = "in"
    /\ at' = [at EXCEPT ![p] = "joining"]
    /\ leaving' = [leaving EXCEPT ![p] = [pool |-> pool, threads |-> cleanups]]
    /\ cleanups' = {}
    /\ UNCHANGED <<poolVars, pool, gen, tasks, cleaner, owner>>

(* The locked part of __exit__. *)
Exit(p) ==
    /\ at[p] = "in"
    /\ at' = [at EXCEPT ![p] = "joining"]
    /\ leaving' = [leaving EXCEPT ![p] = [pool |-> pool, threads |-> cleanups]]
    /\ pool' = NoPool
    /\ cleanups' = {}
    /\ UNCHANGED <<poolVars, gen, tasks, cleaner, owner>>

(* is_alive(): started and not returned; a thread that dies of an exception
   is no longer alive either. *)
Alive(g) == cleaner[g] \notin {"none", "ended"}

(* Mutant: the background threads are not joined. *)
ExitSkipsJoins(p) ==
    /\ at[p] = "joining"
    /\ at' = [at EXCEPT ![p] = "closing"]
    /\ exec' = [g \in Gens |-> IF g = leaving[p].pool THEN "shutdown" ELSE exec[g]]
    /\ UNCHANGED <<fut, where, callback, selfVars, cleaner, leaving, owner>>

(* The joins are over: _shutdown_pool on the executor __exit__ took, if any. *)
ExitJoined(p) ==
    /\ at[p] = "joining"
    /\ \A g \in leaving[p].threads : ~Alive(g)
    /\ at' = [at EXCEPT ![p] = "closing"]
    /\ exec' = [g \in Gens |-> IF g = leaving[p].pool THEN "shutdown" ELSE exec[g]]
    /\ UNCHANGED <<fut, where, callback, selfVars, cleaner, leaving, owner>>

(* shutdown(wait=True) returns and __exit__ with it. *)
ExitReturns(p) ==
    /\ at[p] = "closing"
    /\ leaving[p].pool # NoPool => Drained(leaving[p].pool)
    /\ exec' = [g \in Gens |-> IF g = leaving[p].pool THEN "gone" ELSE exec[g]]
    /\ at' = [at EXCEPT ![p] = "out"]
    /\ leaving' = [leaving EXCEPT ![p] = [pool |-> NoPool, threads |-> {}]]
    /\ UNCHANGED <<fut, where, callback, selfVars, cleaner, owner>>

(* The body of submit.  The attempt is counted before the executor is asked,
   so it stays counted when a broken executor raises. *)
SubmitLocked(t) ==
    IF pool = NoPool
    THEN Refused(t) /\ UNCHANGED tasks
    ELSE Handed(t, pool) /\ tasks' = tasks + 1

Submit(t) ==
    /\ t \in Callers
    /\ fut[t] = "new"
    /\ SubmitLocked(t)
    /\ UNCHANGED <<exec, callback, pool, gen, cleanups, cleaner, at, leaving, owner>>

(* The same method called from a done-callback, in a manager thread.  An
   exception raised there is swallowed by the future. *)
CallbackSubmit(g) ==
    /\ callback[g] # NoTask
    /\ callback' = [callback EXCEPT ![g] = NoTask]
    /\ IF fut[callback[g]] = "new"
       THEN SubmitLocked(callback[g])
       ELSE UNCHANGED <<fut, where, tasks>>
    /\ UNCHANGED <<exec, pool, gen, cleanups, cleaner, at, leaving, owner>>

(* Past the early return.  The background thread of gen shuts the old executor
   down; when there was none (None.shutdown) it dies of an AttributeError at
   once. *)
RecycleIfNeeded ==
    /\ LateRecycle \/ \E p \in Threads : at[p] = "in"
    /\ tasks >= RecycleAfter
    /\ NewPool(IF pool = NoPool THEN Nobody ELSE owner[pool])
    /\ tasks' = 0
    /\ cleaner' = [cleaner EXCEPT ![gen] = IF pool = NoPool THEN "ended" ELSE "started"]
    /\ cleanups' = {g \in cleanups : Alive(g)} \cup {gen}
    /\ UNCHANGED <<fut, where, callback, at, leaving>>

(* The background thread: shutdown is called, waits, and the thread ends. *)
CleanerShutsDown(g) ==
    /\ cleaner[g] = "started"
    /\ cleaner' = [cleaner EXCEPT ![g] = "draining"]
    /\ exec' = [exec EXCEPT ![g] = "shutdown"]
    /\ UNCHANGED <<fut, where, callback, selfVars, at, leaving, owner>>

(* Mutant: the processes are not given back. *)
CleanerForgets(g) ==
    /\ cleaner[g] = "draining"
    /\ cleaner' = [cleaner EXCEPT ![g] = "ended"]
    /\ UNCHANGED <<poolVars, selfVars, at, leaving, owner>>

CleanerEnds(g) ==
    /\ cleaner[g] = "draining"
    /\ Drained(g)
    /\ cleaner' = [cleaner EXCEPT ![g] = "ended"]
    /\ exec' = [exec EXCEPT ![g] = "gone"]
    /\ UNCHANGED <<fut, where, callback, selfVars, at, leaving, owner>>

PoolStep(t) == Resolve(t) /\ UNCHANGED <<selfVars, cleaner, at, leaving, owner>>

Breaks(g) == WorkerDies(g) /\ UNCHANGED <<selfVars, cleaner, at, leaving, owner>>

ExitStep(p) == ExitJoined(p) \/ ExitReturns(p)

CleanerStep(g) == CleanerShutsDown(g) \/ CleanerEnds(g)

Next ==
    \/ \E p \in Threads : Enter(p) \/ Exit(p) \/ ExitStep(p)
    \/ \E t \in Tasks : Submit(t) \/ PoolStep(t)
    \/ RecycleIfNeeded
    \/ \E g \in Gens : CleanerStep(g) \/ CallbackSubmit(g) \/ Breaks(g)

(* Nothing obliges a caller to submit, recycle or leave.  Started threads run,
   tasks end (the user's functions return), manager threads run callbacks. *)
Fairness ==
    /\ \A p \in Threads : WF_vars(ExitStep(p))
    /\ \A t \in Tasks : WF_vars(PoolStep(t))
    /\ \A g \in Gens : WF_vars(CleanerStep(g)) /\ WF_vars(CallbackSubmit(g))

Spec == Init /\ [][Next]_vars /\ Fairness

-----------------------------------------------------------------------------
(* submit never reaches an executor that was shut down: while _pool is not
   None it is the latest executor and nobody has called its shutdown. *)
CurrentPoolOpen ==
    pool # NoPool => pool = gen /\ exec[pool] \in {"running", "broken"}

(* _tasks is the number of submit attempts on the current executor, so a
   recycled executor had at least recycle_after of them: two recycles never
   replace the same work twice. *)
CountIsAttempts == pool # NoPool => tasks = Cardinality(Attempts(pool))

ThresholdRespected ==
    \A g \in Gens : cleaner[g] # "none" => Cardinality(Attempts(g)) >= RecycleAfter

(* When __exit__ has returned, every executor of that session, retired or
   current, is shut down and has resolved all it accepted. *)
NothingLeftBehind ==
    \A p \in Threads : at[p] = "out" =>
        \A g \in Gens : owner[g] = p => exec[g] = "gone" /\ Drained(g)

(* A retired executor gives its processes back without waiting for __exit__. *)
RetiredIsFreed == \A g \in Gens : cleaner[g] = "started" ~> exec[g] = "gone"

(* Recycling is invisible: the pool is one service with sessions, where every
   accepted task is resolved, even when its executor is retired, broken or
   left, and __exit__ returns even when callbacks submit while it waits. *)
Service == INSTANCE TaskService WITH
    session <- [p \in Threads |-> CASE at[p] = "out" -> "out"
                                    [] at[p] = "in"  -> "open"
                                    [] OTHER         -> "closing"],
    status <- fut,
    of <- [t \in Tasks |-> IF fut[t] \in {"pending", "done"} THEN owner[where[t]] ELSE Nobody]

ImplementsService == Service!Spec
=============================================================================
