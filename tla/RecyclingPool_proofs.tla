------------------------ MODULE RecyclingPool_proofs ------------------------
(***************************************************************************)
(* RecyclingPool for any number of threads, tasks, callbacks and executors: *)
(* the lock protects one live executor, and the pool with its recycles     *)
(* implements the service of TaskService.                                  *)
(***************************************************************************)
EXTENDS RecyclingPool, FiniteSetTheorems, TLAPS

(* The executors are numbered in the order of creation, and a task is only
   ever handed to one that exists. *)
Numbering ==
    /\ \A g \in Gens : exec[g] = "absent" <=> g > created
    /\ \A t \in Tasks : where[t] <= created
    /\ \A t \in Tasks : fut[t] \in {"pending", "done"} => where[t] \in Gens

(* Only the current executor is alive. *)
OneAlive ==
    /\ pool # NoPool => exec[pool] \in {"running", "broken", "shutdown"}
    /\ \A g \in Gens : g # pool => exec[g] \in {"absent", "gone"}

(* Whoever waits for the current executor holds the lock while it waits. *)
WaitsUnderLock ==
    \A p \in Threads :
        /\ at[p] = "closing" \/ rec[p] = "closing" => lock = p /\ pool # NoPool
        /\ ~ (at[p] = "closing" /\ rec[p] = "closing")

(* The current executor belongs to the thread inside the with statement. *)
Sessions ==
    /\ \A p \in Threads : at[p] # "out" => pool # NoPool /\ owner[pool] = p
    /\ pool # NoPool => \E p \in Threads : at[p] # "out"

IInv ==
    /\ TypeOK
    /\ Numbering
    /\ OneAlive
    /\ WaitsUnderLock
    /\ Sessions
    /\ GoneIsDrained

(* The initial state satisfies the invariant. *)
LEMMA InitIInv == Init => IInv
<1> SUFFICES ASSUME Init PROVE IInv
    OBVIOUS
<1> USE DEF Init, PoolInit, NoPool
<1>1. TypeOK
    BY MaxGenAssumption DEF TypeOK, PoolTypeOK, ExecStates, FutStates, Gens
<1>2. Numbering /\ OneAlive
    BY DEF Numbering, OneAlive, Gens
<1>3. WaitsUnderLock /\ Sessions /\ GoneIsDrained
    BY DEF WaitsUnderLock, Sessions, GoneIsDrained
<1> QED
    BY <1>1, <1>2, <1>3 DEF IInv

(* An executor stays drained while nobody touches its futures. *)
LEMMA DrainedKept ==
    ASSUME UNCHANGED <<fut, where, callback>>, NEW g
    PROVE  Drained(g)' <=> Drained(g)
BY DEF Drained, PendingOn, Attempts

(* What every step does to the parts of the invariant that follow from the
   executors alone. *)
LEMMA ExecutorsKept ==
    ASSUME IInv, UNCHANGED <<exec, where, pool, created>>,
           \A t \in Tasks : fut'[t] \in {"pending", "done"} => fut[t] \in {"pending", "done"}
    PROVE  Numbering' /\ OneAlive'
BY DEF IInv, Numbering, OneAlive

(* __enter__. *)
LEMMA EnterIInv ==
    ASSUME IInv, NEW p \in Threads, Enter(p)
    PROVE  IInv'
<1> USE DEF IInv
<1>1. /\ lock = Nobody /\ at[p] = "out" /\ pool = NoPool
      /\ created' = created + 1 /\ pool' = created + 1
      /\ created \in Nat /\ created + 1 \in Gens
      /\ exec' = [exec EXCEPT ![created + 1] = "running"]
      /\ owner' = [owner EXCEPT ![created + 1] = p]
      /\ at' = [at EXCEPT ![p] = "in"]
      /\ UNCHANGED <<fut, where, callback, tasks, lock, rec>>
    BY MaxGenAssumption DEF Enter, NewExecutor, TypeOK, Gens
<1>2. TypeOK'
    BY <1>1 DEF TypeOK, PoolTypeOK, ExecStates, Gens
<1>3. /\ exec'[created + 1] = "running" /\ \A g \in Gens \ {created + 1} : exec'[g] = exec[g]
      /\ at'[p] = "in" /\ \A q \in Threads \ {p} : at'[q] = at[q]
      /\ owner'[created + 1] = p
    BY <1>1 DEF TypeOK, PoolTypeOK
<1>4. \A q \in Threads : at[q] = "out"
    BY <1>1 DEF Sessions
<1>5. Numbering'
    BY <1>1, <1>3 DEF Numbering, TypeOK, PoolTypeOK, Gens, NoPool
<1>6. OneAlive'
    BY <1>1, <1>3 DEF OneAlive, NoPool, Gens
<1>7. WaitsUnderLock'
    BY <1>1, <1>3 DEF WaitsUnderLock
<1>8. Sessions'
    BY <1>1, <1>3, <1>4 DEF Sessions, NoPool
<1>9. GoneIsDrained'
    BY <1>1, <1>3, DrainedKept DEF GoneIsDrained
<1> QED
    BY <1>2, <1>5, <1>6, <1>7, <1>8, <1>9

(* shutdown is called under the lock: by __exit__ or by recycle_if_needed. *)
LEMMA ShutdownIInv ==
    ASSUME IInv, NEW p \in Threads, ExitShutsDown(p) \/ RecycleShutsDown(p)
    PROVE  IInv'
<1> USE DEF IInv
<1>1. /\ lock = Nobody /\ pool # NoPool /\ pool \in Gens /\ lock' = p
      /\ exec' = [exec EXCEPT ![pool] = "shutdown"]
      /\ UNCHANGED <<fut, where, callback, pool, tasks, created, owner>>
    BY DEF ExitShutsDown, RecycleShutsDown, TypeOK
<1>2. /\ \/ at[p] = "in" /\ Idle(p) /\ at' = [at EXCEPT ![p] = "closing"] /\ UNCHANGED rec
         \/ rec' = [rec EXCEPT ![p] = "closing"] /\ UNCHANGED at
    BY DEF ExitShutsDown, RecycleShutsDown
<1>3. TypeOK'
    BY <1>1, <1>2 DEF TypeOK, PoolTypeOK, ExecStates
<1>4. exec'[pool] = "shutdown" /\ \A g \in Gens \ {pool} : exec'[g] = exec[g]
    BY <1>1 DEF TypeOK, PoolTypeOK
<1>5. /\ \A q \in Threads \ {p} : at'[q] = at[q] /\ rec'[q] = rec[q]
      /\ (at[p] = "out") <=> (at'[p] = "out")
    BY <1>2 DEF TypeOK
<1>6. Numbering'
    BY <1>1, <1>4 DEF Numbering, OneAlive
<1>7. OneAlive'
    BY <1>1, <1>4 DEF OneAlive
<1>8. WaitsUnderLock'
    <2>1. \A q \in Threads : at[q] # "closing" /\ rec[q] # "closing"
        BY <1>1, ThreadsAssumption DEF WaitsUnderLock
    <2>2. ~ (at'[p] = "closing" /\ rec'[p] = "closing")
        BY <1>2, <2>1 DEF Idle, TypeOK
    <2> QED
        BY <1>1, <1>5, <2>1, <2>2 DEF WaitsUnderLock
<1>9. Sessions'
    BY <1>1, <1>5 DEF Sessions
<1>10. GoneIsDrained'
    BY <1>1, <1>4, DrainedKept DEF GoneIsDrained
<1> QED
    BY <1>3, <1>6, <1>7, <1>8, <1>9, <1>10

(* __exit__ gives the executor and the lock back. *)
LEMMA ExitReturnsIInv ==
    ASSUME IInv, NEW p \in Threads, ExitReturns(p)
    PROVE  IInv'
<1> USE DEF IInv
<1>1. /\ at[p] = "closing" /\ Drained(pool)
      /\ exec' = [exec EXCEPT ![pool] = "gone"]
      /\ at' = [at EXCEPT ![p] = "out"]
      /\ pool' = NoPool /\ lock' = Nobody
      /\ UNCHANGED <<fut, where, callback, tasks, rec, created, owner>>
    BY DEF ExitReturns
<1>2. lock = p /\ pool # NoPool /\ pool \in Gens /\ owner[pool] = p /\ p # Nobody
    BY <1>1, ThreadsAssumption DEF WaitsUnderLock, Sessions, TypeOK
<1>3. TypeOK'
    BY <1>1 DEF TypeOK, PoolTypeOK, ExecStates
<1>4. exec'[pool] = "gone" /\ \A g \in Gens \ {pool} : exec'[g] = exec[g]
    BY <1>1, <1>2 DEF TypeOK, PoolTypeOK
<1>5. at'[p] = "out" /\ \A q \in Threads \ {p} : at'[q] = at[q]
    BY <1>1 DEF TypeOK
<1>6. Numbering'
    BY <1>1, <1>2, <1>4 DEF Numbering, OneAlive
<1>7. OneAlive'
    BY <1>1, <1>4 DEF OneAlive
<1>8. WaitsUnderLock'
    BY <1>1, <1>2, <1>5 DEF WaitsUnderLock
<1>9. Sessions'
    BY <1>1, <1>2, <1>5 DEF Sessions
<1>10. GoneIsDrained'
    BY <1>1, <1>4, DrainedKept DEF GoneIsDrained
<1> QED
    BY <1>3, <1>6, <1>7, <1>8, <1>9, <1>10

(* The second locked block of recycle_if_needed ends: old out, new in. *)
LEMMA RecycleSwapsIInv ==
    ASSUME IInv, NEW p \in Threads, RecycleSwaps(p)
    PROVE  IInv'
<1> USE DEF IInv
<1>1. /\ rec[p] = "closing" /\ Drained(pool)
      /\ created' = created + 1 /\ pool' = created + 1
      /\ created \in Nat /\ created + 1 \in Gens
      /\ exec' = [exec EXCEPT ![pool] = "gone", ![created + 1] = "running"]
      /\ owner' = [owner EXCEPT ![created + 1] = owner[pool]]
      /\ tasks' = 0 /\ lock' = Nobody
      /\ rec' = [rec EXCEPT ![p] = "idle"]
      /\ UNCHANGED <<fut, where, callback, at>>
    BY MaxGenAssumption DEF RecycleSwaps, NewExecutor, TypeOK, Gens
<1>2. lock = p /\ pool # NoPool /\ pool \in Gens /\ pool # created + 1 /\ p # Nobody
    BY <1>1, ThreadsAssumption DEF WaitsUnderLock, TypeOK, Numbering, OneAlive, Gens
<1>3. TypeOK'
    BY <1>1, <1>2 DEF TypeOK, PoolTypeOK, ExecStates, Gens
<1>4. /\ exec'[pool] = "gone" /\ exec'[created + 1] = "running"
      /\ \A g \in Gens \ {pool, created + 1} : exec'[g] = exec[g]
    BY <1>1, <1>2 DEF TypeOK, PoolTypeOK
<1>5. rec'[p] = "idle" /\ \A q \in Threads \ {p} : rec'[q] = rec[q]
    BY <1>1 DEF TypeOK
<1>6. owner'[created + 1] = owner[pool]
    BY <1>1 DEF TypeOK
<1>7. Numbering'
    BY <1>1, <1>2, <1>4 DEF Numbering, OneAlive, TypeOK, PoolTypeOK, Gens, NoPool
<1>8. OneAlive'
    BY <1>1, <1>2, <1>4 DEF OneAlive
<1>9. WaitsUnderLock'
    <2>1. \A q \in Threads \ {p} : at[q] # "closing" /\ rec[q] # "closing"
        BY <1>2 DEF WaitsUnderLock
    <2>2. at[p] # "closing"
        BY <1>1 DEF WaitsUnderLock
    <2> QED
        BY <1>1, <1>5, <2>1, <2>2 DEF WaitsUnderLock
<1>10. Sessions'
    BY <1>1, <1>2, <1>6 DEF Sessions, NoPool
<1>11. GoneIsDrained'
    BY <1>1, <1>4, DrainedKept DEF GoneIsDrained
<1> QED
    BY <1>3, <1>7, <1>8, <1>9, <1>10, <1>11

(* A step that leaves the executors, the lock and the sessions alone. *)
LEMMA RestIInv ==
    ASSUME IInv, TypeOK', Numbering', OneAlive', GoneIsDrained',
           UNCHANGED <<pool, lock, at, owner>>,
           \A p \in Threads : rec'[p] = "closing" => rec[p] = "closing"
    PROVE  IInv'
BY DEF IInv, WaitsUnderLock, Sessions

(* submit, by a caller or a callback. *)
LEMMA SubmitIInv ==
    ASSUME IInv, NEW t \in Tasks, fut[t] = "new", SubmitLocked(t),
           UNCHANGED <<exec, pool, lock, at, rec, created, owner>>,
           callback' \in [Gens -> Tasks \cup {NoTask}],
           \A g \in Gens : callback'[g] \in {callback[g], NoTask}
    PROVE  IInv'
<1> USE DEF IInv
<1>1. CASE pool = NoPool
    <2>1. UNCHANGED <<where, tasks>> /\ fut' = [fut EXCEPT ![t] = "refused"]
        BY <1>1 DEF SubmitLocked, Refused
    <2>2. TypeOK'
        BY <2>1 DEF TypeOK, PoolTypeOK, FutStates
    <2>3. \A u \in Tasks : fut'[u] \in {"pending", "done"} => fut[u] = fut'[u]
        BY <2>1 DEF TypeOK, PoolTypeOK
    <2>4. GoneIsDrained'
        BY <2>1, <2>3 DEF GoneIsDrained, Drained, PendingOn, Attempts
    <2> QED
        BY <2>1, <2>2, <2>3, <2>4, ExecutorsKept, RestIInv
<1>2. CASE pool # NoPool
    <2>1. /\ where' = [where EXCEPT ![t] = pool]
          /\ fut' = [fut EXCEPT ![t] = IF exec[pool] = "running" THEN "pending" ELSE "refused"]
          /\ tasks' = tasks + 1
        BY <1>2 DEF SubmitLocked, Handed
    <2>2. pool \in Gens /\ exec[pool] # "gone" /\ exec[pool] # "absent" /\ pool <= created
        BY <1>2 DEF OneAlive, TypeOK, Numbering, Gens
    <2>3. TypeOK'
        BY <2>1, <2>2 DEF TypeOK, PoolTypeOK, FutStates
    <2>4. where'[t] = pool /\ \A u \in Tasks \ {t} : where'[u] = where[u] /\ fut'[u] = fut[u]
        BY <2>1 DEF TypeOK, PoolTypeOK
    <2>5. Numbering' /\ OneAlive'
        BY <2>2, <2>4 DEF Numbering, OneAlive
    <2>6. GoneIsDrained'
        <3> SUFFICES ASSUME NEW g \in Gens, exec[g] = "gone" PROVE Drained(g)'
            BY DEF GoneIsDrained
        <3>1. PendingOn(g) = {} /\ callback[g] = NoTask
            BY DEF GoneIsDrained, Drained
        <3>2. PendingOn(g)' = {}
            BY <2>2, <2>4, <3>1 DEF PendingOn, Attempts
        <3> QED
            BY <3>1, <3>2 DEF Drained
    <2> QED
        BY <2>3, <2>5, <2>6, RestIInv
<1> QED
    BY <1>1, <1>2

(* A future is resolved and its callback entered. *)
LEMMA ResolveIInv ==
    ASSUME IInv, NEW t \in Tasks, PoolStep(t)
    PROVE  IInv'
<1> USE DEF IInv
<1>1. /\ fut[t] = "pending" /\ fut' = [fut EXCEPT ![t] = "done"]
      /\ callback' = [callback EXCEPT ![where[t]] = Follow[t]]
      /\ UNCHANGED <<exec, where, pool, tasks, lock, at, rec, created, owner>>
    BY DEF PoolStep, Resolve, selfVars
<1>2. TypeOK'
    BY <1>1, FollowAssumption DEF TypeOK, PoolTypeOK, FutStates
<1>3. \A u \in Tasks : /\ fut'[u] \in {"pending", "done"} => fut[u] \in {"pending", "done"}
                      /\ fut'[u] = "pending" => fut[u] = "pending"
    BY <1>1 DEF TypeOK, PoolTypeOK
<1>4. GoneIsDrained'
    <2> SUFFICES ASSUME NEW g \in Gens, exec[g] = "gone" PROVE Drained(g)'
        BY <1>1 DEF GoneIsDrained
    <2>1. PendingOn(g) = {} /\ callback[g] = NoTask
        BY DEF GoneIsDrained, Drained
    <2>2. where[t] # g
        BY <1>1, <2>1 DEF PendingOn, Attempts
    <2>3. callback'[g] = NoTask
        BY <1>1, <2>1, <2>2 DEF TypeOK, PoolTypeOK
    <2>4. PendingOn(g)' = {}
        BY <1>1, <1>3, <2>1 DEF PendingOn, Attempts
    <2> QED
        BY <2>3, <2>4 DEF Drained
<1> QED
    BY <1>1, <1>2, <1>3, <1>4, ExecutorsKept, RestIInv

(* Every step of the system preserves the invariant. *)
LEMMA NextIInv == IInv /\ [Next]_vars => IInv'
<1> SUFFICES ASSUME IInv, [Next]_vars PROVE IInv'
    OBVIOUS
<1>1. ASSUME NEW p \in Threads, Enter(p) PROVE IInv'
    BY <1>1, EnterIInv
<1>2. ASSUME NEW p \in Threads, ExitShutsDown(p) \/ RecycleShutsDown(p) PROVE IInv'
    BY <1>2, ShutdownIInv
<1>3. ASSUME NEW p \in Threads, ExitReturns(p) PROVE IInv'
    BY <1>3, ExitReturnsIInv
<1>4. ASSUME NEW p \in Threads, RecycleSwaps(p) PROVE IInv'
    BY <1>4, RecycleSwapsIInv
<1>5. ASSUME NEW p \in Threads, RecycleDecides(p) \/ DrainRaises(p) \/ RecycleRaises(p)
      PROVE  IInv'
    <2>1. /\ rec' \in [Threads -> {"idle", "draining", "closing", "raised"}]
          /\ \A q \in Threads : rec'[q] = "closing" => rec[q] = "closing"
          /\ UNCHANGED <<exec, fut, where, callback, pool, tasks, lock, at, created, owner>>
        BY <1>5 DEF RecycleDecides, DrainRaises, RecycleRaises, poolVars, selfVars, IInv, TypeOK
    <2>2. TypeOK'
        BY <2>1 DEF IInv, TypeOK, PoolTypeOK
    <2>3. GoneIsDrained'
        BY <2>1, DrainedKept DEF IInv, GoneIsDrained
    <2> QED
        BY <2>1, <2>2, <2>3, ExecutorsKept, RestIInv
<1>6. ASSUME NEW t \in Tasks, Submit(t) PROVE IInv'
    <2>1. /\ fut[t] = "new" /\ SubmitLocked(t)
          /\ UNCHANGED <<exec, callback, pool, lock, at, rec, created, owner>>
        BY <1>6 DEF Submit
    <2> QED
        BY <2>1, SubmitIInv DEF IInv, TypeOK, PoolTypeOK
<1>7. ASSUME NEW t \in Tasks, PoolStep(t) PROVE IInv'
    BY <1>7, ResolveIInv
<1>8. ASSUME NEW g \in Gens, CallbackSubmit(g) PROVE IInv'
    <2>1. /\ callback' \in [Gens -> Tasks \cup {NoTask}]
          /\ callback[g] \in Tasks
          /\ \A h \in Gens : callback'[h] \in {callback[h], NoTask}
          /\ UNCHANGED <<exec, pool, lock, at, rec, created, owner>>
        BY <1>8 DEF CallbackSubmit, IInv, TypeOK, PoolTypeOK
    <2>2. CASE fut[callback[g]] = "new"
        <3>1. SubmitLocked(callback[g])
            BY <1>8, <2>2 DEF CallbackSubmit
        <3> QED
            BY <2>1, <2>2, <3>1, SubmitIInv
    <2>3. CASE fut[callback[g]] # "new"
        <3>1. UNCHANGED <<fut, where, tasks>>
            BY <1>8, <2>3 DEF CallbackSubmit
        <3>2. TypeOK'
            BY <2>1, <3>1 DEF IInv, TypeOK, PoolTypeOK
        <3>3. GoneIsDrained'
            BY <2>1, <3>1 DEF IInv, GoneIsDrained, Drained, PendingOn, Attempts
        <3> QED
            BY <2>1, <3>1, <3>2, <3>3, ExecutorsKept, RestIInv
    <2> QED
        BY <2>2, <2>3
<1>9. ASSUME NEW g \in Gens, Breaks(g) PROVE IInv'
    <2>1. /\ exec[g] = "running" /\ exec' = [exec EXCEPT ![g] = "broken"]
          /\ UNCHANGED <<fut, where, callback, pool, tasks, lock, at, rec, created, owner>>
        BY <1>9 DEF Breaks, WorkerDies, selfVars
    <2>2. TypeOK'
        BY <2>1 DEF IInv, TypeOK, PoolTypeOK, ExecStates
    <2>3. exec'[g] = "broken" /\ \A h \in Gens \ {g} : exec'[h] = exec[h]
        BY <2>1 DEF IInv, TypeOK, PoolTypeOK
    <2>4. Numbering' /\ OneAlive'
        BY <2>1, <2>3 DEF IInv, Numbering, OneAlive
    <2>5. GoneIsDrained'
        BY <2>1, <2>3, DrainedKept DEF IInv, GoneIsDrained
    <2> QED
        BY <2>1, <2>2, <2>4, <2>5, RestIInv
<1>10. CASE UNCHANGED vars
    <2>1. UNCHANGED <<exec, fut, where, callback, pool, tasks, lock, at, rec, created, owner>>
        BY <1>10 DEF vars, poolVars, selfVars
    <2>2. TypeOK'
        BY <2>1 DEF IInv, TypeOK, PoolTypeOK
    <2>3. GoneIsDrained'
        BY <2>1, DrainedKept DEF IInv, GoneIsDrained
    <2> QED
        BY <2>1, <2>2, <2>3, ExecutorsKept, RestIInv
<1> QED
    BY <1>1, <1>2, <1>3, <1>4, <1>5, <1>6, <1>7, <1>8, <1>9, <1>10 DEF Next, RecycleStep

-----------------------------------------------------------------------------
(* The invariant holds in every reachable state. *)
THEOREM Invariance == Spec => []IInv
<1>1. Init => IInv
    BY InitIInv
<1>2. IInv /\ [Next]_vars => IInv'
    BY NextIInv
<1> QED
    BY <1>1, <1>2, PTL DEF Spec

(* Every variable keeps its type. *)
THEOREM TypeCorrect == Spec => []TypeOK
<1>1. IInv => TypeOK
    BY DEF IInv
<1> QED
    BY <1>1, Invariance, PTL

(* At most one executor holds worker processes, whichever threads enter, exit
   and recycle: a swap creates the new one only when the old one is gone. *)
THEOREM OneExecutorAlive == Spec => []OneExecutor
<1>1. IInv => OneExecutor
    <2> SUFFICES ASSUME IInv PROVE OneExecutor
        OBVIOUS
    <2> DEFINE A == {g \in Gens : exec[g] \notin {"absent", "gone"}}
    <2>1. A \subseteq {pool}
        BY DEF IInv, OneAlive
    <2>2. A = {} \/ A = {pool}
        BY <2>1
    <2> HIDE DEF A
    <2>3. Cardinality(A) \in {0, 1}
        BY <2>2, FS_EmptySet, FS_Singleton
    <2> USE DEF A
    <2> QED
        BY <2>3 DEF OneExecutor
<1> QED
    BY <1>1, Invariance, PTL

(* An executor that gave its processes back has resolved all it accepted and
   runs no callback. *)
THEOREM NothingLost == Spec => []GoneIsDrained
<1>1. IInv => GoneIsDrained
    BY DEF IInv
<1> QED
    BY <1>1, Invariance, PTL

-----------------------------------------------------------------------------
(* The pool implements the service of TaskService. *)

Seen(p) == IF at[p] = "in" THEN "open" ELSE at[p]

OfSession(t) == IF fut[t] \in {"pending", "done"} THEN owner[where[t]] ELSE Nobody

(* A step that resolves no future and changes no owner of an executor that
   exists leaves every accepted task with its session. *)
LEMMA OwnersKept ==
    ASSUME IInv, UNCHANGED <<fut, where>>,
           \A g \in Gens : g <= created => owner'[g] = owner[g]
    PROVE  \A t \in Tasks : OfSession(t)' = OfSession(t)
BY DEF OfSession, IInv, Numbering

(* Creating an executor changes the owner of no other. *)
LEMMA NewExecutorKeepsOwners ==
    ASSUME IInv, NEW o, NewExecutor(o)
    PROVE  \A g \in Gens : g <= created => owner'[g] = owner[g]
<1>1. created \in Nat /\ owner \in [Gens -> Threads \cup {Nobody}]
      /\ owner' = [owner EXCEPT ![created + 1] = o]
    BY MaxGenAssumption DEF IInv, TypeOK, NewExecutor
<1> QED
    BY <1>1, MaxGenAssumption DEF Gens

(* With one executor alive, nothing at all is pending when a thread leaves. *)
LEMMA SessionDrained ==
    ASSUME IInv, NEW p \in Threads, ExitReturns(p), NEW t \in Tasks
    PROVE  fut[t] # "pending"
<1> SUFFICES ASSUME fut[t] = "pending" PROVE FALSE
    OBVIOUS
<1>1. where[t] \in Gens /\ t \in PendingOn(where[t])
    BY DEF IInv, Numbering, PendingOn, Attempts
<1>2. ~ Drained(where[t])
    BY <1>1 DEF Drained
<1>3. where[t] # pool
    BY <1>2 DEF ExitReturns
<1>4. exec[where[t]] = "gone"
    <2>1. where[t] <= created /\ where[t] \in Nat /\ created \in Nat
        BY <1>1, MaxGenAssumption DEF IInv, Numbering, TypeOK, Gens
    <2>2. exec[where[t]] # "absent"
        BY <1>1, <2>1 DEF IInv, Numbering
    <2> QED
        BY <1>1, <1>3, <2>2 DEF IInv, OneAlive
<1> QED
    BY <1>1, <1>2, <1>4 DEF IInv, GoneIsDrained

(* __enter__ and the parts of __exit__. *)
LEMMA WithStatementSteps ==
    ASSUME IInv, NEW p \in Threads
    PROVE  /\ Enter(p) => Service!Open(p)
           /\ ExitShutsDown(p) => Service!Close(p)
           /\ ExitReturns(p) => Service!Closed(p)
<1> DEFINE S == [q \in Threads |-> Seen(q)]
<1> DEFINE O == [t \in Tasks |-> OfSession(t)]
<1>t. at \in [Threads -> {"out", "in", "closing"}]
    BY DEF IInv, TypeOK
<1>1. CASE Enter(p)
    <2>1. at[p] = "out" /\ pool = NoPool /\ at' = [at EXCEPT ![p] = "in"]
          /\ UNCHANGED <<fut, where>> /\ NewExecutor(p)
        BY <1>1 DEF Enter
    <2>2. UNCHANGED O
        BY <2>1, NewExecutorKeepsOwners, OwnersKept
    <2>3. S[p] = "out" /\ \A q \in Threads : S[q] # "open"
        BY <1>t, <2>1 DEF Seen, IInv, Sessions
    <2>4. S' = [S EXCEPT ![p] = "open"]
        BY <1>t, <2>1 DEF Seen
    <2> QED
        BY <2>1, <2>2, <2>3, <2>4 DEF Service!Open, Seen, OfSession, Enter, ExitShutsDown, ExitReturns
<1>2. CASE ExitShutsDown(p)
    <2>1. at[p] = "in" /\ at' = [at EXCEPT ![p] = "closing"] /\ UNCHANGED <<fut, where, owner>>
        BY <1>2 DEF ExitShutsDown
    <2>2. UNCHANGED O
        BY <2>1, OwnersKept
    <2>3. S[p] = "open" /\ S' = [S EXCEPT ![p] = "closing"]
        BY <1>t, <2>1 DEF Seen
    <2> QED
        BY <2>1, <2>2, <2>3 DEF Service!Close, Seen, OfSession, Enter, ExitShutsDown, ExitReturns
<1>3. CASE ExitReturns(p)
    <2>1. at[p] = "closing" /\ at' = [at EXCEPT ![p] = "out"] /\ UNCHANGED <<fut, where, owner>>
        BY <1>3 DEF ExitReturns
    <2>2. UNCHANGED O
        BY <2>1, OwnersKept
    <2>3. S[p] = "closing" /\ S' = [S EXCEPT ![p] = "out"]
        BY <1>t, <2>1 DEF Seen
    <2>4. \A t \in Tasks : O[t] = p => fut[t] # "pending"
        BY <1>3, SessionDrained
    <2> QED
        BY <2>1, <2>2, <2>3, <2>4 DEF Service!Closed, Seen, OfSession, Enter, ExitShutsDown, ExitReturns
<1> QED
    BY <1>1, <1>2, <1>3

(* submit, by a caller or a callback: accepted by the session of the current
   executor, or refused. *)
LEMMA SubmitSteps ==
    ASSUME IInv, NEW t \in Tasks, fut[t] = "new", lock = Nobody, SubmitLocked(t),
           UNCHANGED <<exec, at, owner>>
    PROVE  Service!Refuse(t) \/ \E p \in Threads : Service!Accept(t, p)
<1> DEFINE S == [q \in Threads |-> Seen(q)]
<1> DEFINE O == [u \in Tasks |-> OfSession(u)]
<1>t. fut \in [Tasks -> FutStates] /\ where \in [Tasks -> Gens \cup {NoPool}]
    BY DEF IInv, TypeOK, PoolTypeOK
<1>s. UNCHANGED S
    BY DEF Seen
<1>1. CASE fut' = [fut EXCEPT ![t] = "refused"] /\ \A u \in Tasks \ {t} : where'[u] = where[u]
    <2>1. fut'[t] = "refused" /\ \A u \in Tasks \ {t} : fut'[u] = fut[u]
        BY <1>t, <1>1
    <2>2. UNCHANGED O
        BY <1>1, <2>1 DEF OfSession
    <2> QED
        BY <1>s, <1>1, <2>2 DEF Service!Refuse, Seen, OfSession
<1>2. CASE pool = NoPool
    BY <1>1, <1>2 DEF SubmitLocked, Refused
<1>3. CASE pool # NoPool
    <2>1. where' = [where EXCEPT ![t] = pool]
        BY <1>3 DEF SubmitLocked, Handed
    <2>2. \A u \in Tasks \ {t} : where'[u] = where[u]
        BY <1>t, <2>1
    <2>3. CASE exec[pool] # "running"
        BY <1>1, <1>3, <2>2, <2>3 DEF SubmitLocked, Handed
    <2>4. CASE exec[pool] = "running"
        <3>1. fut' = [fut EXCEPT ![t] = "pending"]
            BY <1>3, <2>4 DEF SubmitLocked, Handed
        <3>2. PICK p \in Threads : at[p] # "out" /\ owner[pool] = p
            BY <1>3 DEF IInv, Sessions
        <3>3. at[p] # "closing"
            BY ThreadsAssumption DEF IInv, WaitsUnderLock
        <3>4. S[p] = "open"
            BY <3>2, <3>3 DEF Seen, IInv, TypeOK
        <3>5. fut'[t] = "pending" /\ where'[t] = pool /\ \A u \in Tasks \ {t} : fut'[u] = fut[u]
            BY <1>t, <2>1, <3>1
        <3>6. O' = [O EXCEPT ![t] = p]
            BY <2>2, <3>2, <3>5 DEF OfSession
        <3>7. Service!Accept(t, p)
            BY <1>s, <3>1, <3>4, <3>6 DEF Service!Accept, Seen, OfSession
        <3> QED
            BY <3>7
    <2> QED
        BY <2>3, <2>4
<1> QED
    BY <1>2, <1>3

(* Every step of the pool is a step of the service, or invisible. *)
LEMMA StepSimulation == IInv /\ [Next]_vars => [Service!Next]_(Service!vars)
<1> SUFFICES ASSUME IInv, [Next]_vars PROVE [Service!Next]_(Service!vars)
    OBVIOUS
<1> DEFINE S == [q \in Threads |-> Seen(q)]
<1> DEFINE O == [u \in Tasks |-> OfSession(u)]
<1>1. ASSUME UNCHANGED <<fut, where, at>>, \A g \in Gens : g <= created => owner'[g] = owner[g]
      PROVE  UNCHANGED Service!vars
    <2>1. UNCHANGED S
        BY <1>1 DEF Seen
    <2>2. UNCHANGED O
        BY <1>1, OwnersKept
    <2> QED
        BY <1>1, <2>1, <2>2 DEF Service!vars, Seen, OfSession
<1>2. ASSUME NEW p \in Threads, Enter(p) \/ ExitShutsDown(p) \/ ExitReturns(p)
      PROVE  Service!Next
    BY <1>2, WithStatementSteps DEF Service!Next
<1>3. ASSUME NEW p \in Threads, RecycleDecides(p) \/ DrainRaises(p)
                            \/ RecycleShutsDown(p) \/ RecycleRaises(p)
      PROVE  UNCHANGED Service!vars
    <2>1. UNCHANGED <<fut, where, at, owner>>
        BY <1>3 DEF RecycleDecides, DrainRaises, RecycleShutsDown, RecycleRaises, poolVars
    <2> QED
        BY <1>1, <2>1
<1>4. ASSUME NEW p \in Threads, RecycleSwaps(p) PROVE UNCHANGED Service!vars
    <2>1. UNCHANGED <<fut, where, at>> /\ NewExecutor(owner[pool])
        BY <1>4 DEF RecycleSwaps
    <2> QED
        BY <1>1, <2>1, NewExecutorKeepsOwners
<1>5. ASSUME NEW t \in Tasks, Submit(t) PROVE Service!Next
    BY <1>5, SubmitSteps DEF Submit, Service!Next
<1>6. ASSUME NEW g \in Gens, CallbackSubmit(g) PROVE [Service!Next]_(Service!vars)
    <2>1. callback[g] \in Tasks /\ lock = Nobody /\ UNCHANGED <<exec, at, owner>>
        BY <1>6 DEF CallbackSubmit, IInv, TypeOK, PoolTypeOK
    <2>2. CASE fut[callback[g]] = "new"
        <3>1. SubmitLocked(callback[g])
            BY <1>6, <2>2 DEF CallbackSubmit
        <3> QED
            BY <2>1, <2>2, <3>1, SubmitSteps DEF Service!Next
    <2>3. CASE fut[callback[g]] # "new"
        BY <1>1, <1>6, <2>1, <2>3 DEF CallbackSubmit
    <2> QED
        BY <2>2, <2>3
<1>7. ASSUME NEW t \in Tasks, PoolStep(t) PROVE Service!Next
    <2>1. fut[t] = "pending" /\ fut' = [fut EXCEPT ![t] = "done"] /\ UNCHANGED <<where, at, owner>>
        BY <1>7 DEF PoolStep, Resolve
    <2>2. UNCHANGED S
        BY <2>1 DEF Seen
    <2>3. \A u \in Tasks : fut'[u] \in {"pending", "done"} <=> fut[u] \in {"pending", "done"}
        BY <2>1 DEF IInv, TypeOK, PoolTypeOK
    <2>4. UNCHANGED O
        BY <2>1, <2>3 DEF OfSession
    <2>5. Service!Finish(t)
        BY <2>1, <2>2, <2>4 DEF Service!Finish, Seen, OfSession
    <2> QED
        BY <2>5 DEF Service!Next
<1>8. ASSUME NEW g \in Gens, Breaks(g) PROVE UNCHANGED Service!vars
    <2>1. UNCHANGED <<fut, where, at, owner>>
        BY <1>8 DEF Breaks, WorkerDies
    <2> QED
        BY <1>1, <2>1
<1>9. CASE UNCHANGED vars
    <2>1. UNCHANGED <<fut, where, at, owner>>
        BY <1>9 DEF vars, poolVars
    <2> QED
        BY <1>1, <2>1
<1> QED
    BY <1>2, <1>3, <1>4, <1>5, <1>6, <1>7, <1>8, <1>9 DEF Next, RecycleStep

(* Every behaviour of the pool is one of the service: recycles are invisible,
   a task is accepted only by the open session and resolved once, and __exit__
   returns only when all that its session accepted is resolved. *)
THEOREM Refinement == Spec => ImplementsService
<1>1. Init => Service!Init
    <2> SUFFICES ASSUME Init PROVE Service!Init
        OBVIOUS
    <2>1. \A p \in Threads : at[p] = "out"
        BY DEF Init
    <2>2. \A t \in Tasks : fut[t] = "new"
        BY DEF Init, PoolInit
    <2> QED
        BY <2>1, <2>2 DEF Init, PoolInit, Service!Init
<1>2. IInv /\ [Next]_vars => [Service!Next]_(Service!vars)
    BY StepSimulation
<1> QED
    BY <1>1, <1>2, Invariance, PTL DEF Spec, ImplementsService
=============================================================================
