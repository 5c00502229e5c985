------------------------ MODULE RecyclingPool2_proofs ------------------------
(***************************************************************************)
(* RecyclingPool2's count and its replaced executors, for any number of    *)
(* threads, tasks and executors, with and without late recycles.           *)
(***************************************************************************)
EXTENDS RecyclingPool2, FiniteSetTheorems, TLAPS

(* Executors are numbered in the order of creation, and whatever holds one --
   the current slot, a background thread, an __exit__ -- holds another. *)
Numbering ==
    /\ \A t \in Tasks : where[t] <= gen /\ (fut[t] = "new" => where[t] = NoPool)
    /\ \A g \in Gens : cleaner[g] # "none" => g < gen
    /\ \A p \in Threads : leaving[p].pool <= gen
    /\ \A p \in Threads : pool # NoPool => leaving[p].pool # pool

(* _tasks counts the attempts on the latest executor, current or not. *)
CountIsLatest == gen # 0 => tasks = Cardinality(Attempts(gen))

IInv ==
    /\ TypeOK
    /\ Numbering
    /\ CurrentPoolOpen
    /\ CountIsLatest
    /\ ThresholdRespected

(* The attempts on an executor are finitely many, so they can be counted. *)
LEMMA AttemptsFinite ==
    ASSUME NEW g
    PROVE  IsFiniteSet(Attempts(g)) /\ Cardinality(Attempts(g)) \in Nat
<1>1. Attempts(g) \subseteq Tasks
    BY DEF Attempts
<1> QED
    BY <1>1, FS_Subset, FS_CardinalityType, TasksAssumption

(* A step that leaves "where" alone leaves the attempts alone. *)
LEMMA AttemptsKept ==
    ASSUME UNCHANGED where, NEW g
    PROVE  Attempts(g)' = Attempts(g)
BY DEF Attempts

(* The initial state satisfies the invariant. *)
LEMMA InitIInv == Init => IInv
<1> SUFFICES ASSUME Init PROVE IInv
    OBVIOUS
<1> USE DEF Init, PoolInit, NoPool
<1>1. TypeOK
    BY MaxGenAssumption DEF TypeOK, PoolTypeOK, ExecStates, FutStates, CleanerStates, Gens
<1>2. Numbering
    BY DEF Numbering, Gens
<1>3. CurrentPoolOpen /\ CountIsLatest /\ ThresholdRespected
    BY DEF CurrentPoolOpen, CountIsLatest, ThresholdRespected, Gens
<1> QED
    BY <1>1, <1>2, <1>3 DEF IInv

(* submit, by a caller or a callback: one more attempt on the current
   executor, none on another. *)
LEMMA SubmitIInv ==
    ASSUME IInv, NEW t \in Tasks, fut[t] = "new", SubmitLocked(t),
           UNCHANGED <<exec, pool, gen, cleanups, cleaner, at, leaving, owner>>,
           callback' \in [Gens -> Tasks \cup {NoTask}]
    PROVE  IInv'
<1> USE DEF IInv
<1> DEFINE A(g) == Attempts(g)
<1>1. CASE pool = NoPool
    <2>1. UNCHANGED <<where, tasks>> /\ fut' = [fut EXCEPT ![t] = "refused"]
        BY <1>1 DEF SubmitLocked, Refused
    <2>2. TypeOK'
        BY <2>1 DEF TypeOK, PoolTypeOK, FutStates
    <2>3. Numbering'
        BY <2>1 DEF Numbering, TypeOK, PoolTypeOK
    <2>4. (CurrentPoolOpen /\ CountIsLatest /\ ThresholdRespected)'
        BY <2>1, AttemptsKept DEF CurrentPoolOpen, CountIsLatest, ThresholdRespected
    <2> QED
        BY <2>2, <2>3, <2>4
<1>2. CASE pool # NoPool
    <2>1. /\ where' = [where EXCEPT ![t] = pool]
          /\ fut' = [fut EXCEPT ![t] = IF exec[pool] = "running" THEN "pending" ELSE "refused"]
          /\ tasks' = tasks + 1
        BY <1>2 DEF SubmitLocked, Handed
    <2>2. pool = gen /\ pool \in Gens
        BY <1>2 DEF CurrentPoolOpen, TypeOK
    <2>3. where[t] = NoPool
        BY DEF Numbering
    <2>4. TypeOK'
        BY <2>1, <2>2 DEF TypeOK, PoolTypeOK, FutStates
    <2>5. Numbering'
        BY <2>1, <2>2 DEF Numbering, TypeOK, PoolTypeOK, NoPool, Gens
    <2>6. ASSUME NEW g \in Gens, g # pool PROVE Attempts(g)' = Attempts(g)
        BY <2>1, <2>3, <2>6 DEF Attempts, TypeOK, PoolTypeOK, Gens, NoPool
    <2>7. Attempts(pool)' = Attempts(pool) \cup {t} /\ t \notin Attempts(pool)
        BY <1>2, <2>1, <2>2, <2>3 DEF Attempts, TypeOK, PoolTypeOK
    <2>8. Cardinality(Attempts(pool)') = Cardinality(Attempts(pool)) + 1
        BY <2>7, AttemptsFinite, FS_AddElement
    <2>9. CurrentPoolOpen'
        BY DEF CurrentPoolOpen
    <2>10. CountIsLatest'
        BY <2>1, <2>2, <2>8 DEF CountIsLatest, Gens
    <2>11. ThresholdRespected'
        BY <2>2, <2>6 DEF ThresholdRespected, Numbering, Gens
    <2> QED
        BY <2>4, <2>5, <2>9, <2>10, <2>11
<1> QED
    BY <1>1, <1>2

(* A fresh executor becomes current with a zero count: __enter__ and
   recycle_if_needed. *)
LEMMA NewPoolIInv ==
    ASSUME IInv, NEW o \in Threads \cup {Nobody}, NewPool(o), tasks' = 0,
           UNCHANGED <<fut, where, callback, leaving>>,
           at' \in [Threads -> {"out", "in", "joining", "closing"}],
           cleanups' \subseteq 0 .. MaxGen,
           cleaner' \in [0 .. MaxGen -> CleanerStates],
           \A g \in Gens : cleaner'[g] # "none" =>
               \/ cleaner[g] # "none"
               \/ g = gen /\ Cardinality(Attempts(g)) >= RecycleAfter
    PROVE  IInv'
<1> USE DEF IInv
<1>1. /\ gen' = gen + 1 /\ pool' = gen + 1 /\ gen + 1 \in Gens
      /\ exec' = [exec EXCEPT ![gen + 1] = "running"]
      /\ owner' = [owner EXCEPT ![gen + 1] = o]
      /\ gen \in Nat
    BY MaxGenAssumption DEF NewPool, TypeOK, Gens
<1>2. TypeOK'
    BY <1>1 DEF TypeOK, PoolTypeOK, ExecStates, Gens
<1>3. Numbering'
    <2>1. ASSUME NEW t \in Tasks
          PROVE  where'[t] <= gen' /\ (fut'[t] = "new" => where'[t] = NoPool)
        BY <1>1 DEF Numbering, TypeOK, PoolTypeOK, Gens, NoPool
    <2>2. ASSUME NEW g \in Gens, cleaner'[g] # "none" PROVE g < gen'
        BY <1>1, <2>2 DEF Numbering, Gens
    <2>3. ASSUME NEW p \in Threads PROVE leaving'[p].pool <= gen' /\ leaving'[p].pool # pool'
        BY <1>1 DEF Numbering, TypeOK, Gens, NoPool
    <2> QED
        BY <2>1, <2>2, <2>3 DEF Numbering
<1>4. CurrentPoolOpen'
    BY <1>1 DEF CurrentPoolOpen, TypeOK, PoolTypeOK
<1>5. CountIsLatest'
    <2>1. Attempts(gen)' = {}
        BY <1>1 DEF Attempts, Numbering, TypeOK, PoolTypeOK, Gens, NoPool
    <2> QED
        BY <2>1, FS_EmptySet DEF CountIsLatest
<1>6. ThresholdRespected'
    BY AttemptsKept DEF ThresholdRespected
<1> QED
    BY <1>2, <1>3, <1>4, <1>5, <1>6

(* A step that neither submits nor creates an executor, and never closes the
   current one. *)
LEMMA OtherIInv ==
    ASSUME IInv, TypeOK', UNCHANGED <<where, gen, tasks>>,
           \A t \in Tasks : fut'[t] = "new" => fut[t] = "new",
           pool' \in {pool, NoPool},
           pool' # NoPool => exec'[pool] \in {"running", "broken"},
           \A g \in Gens : cleaner'[g] # "none" => cleaner[g] # "none",
           \A p \in Threads : leaving'[p].pool \in {leaving[p].pool, pool, NoPool},
           \A p \in Threads : leaving'[p].pool = pool => pool' = NoPool \/ leaving'[p] = leaving[p]
    PROVE  IInv'
<1> USE DEF IInv
<1>1. Numbering'
    BY DEF Numbering, TypeOK, PoolTypeOK, NoPool, CurrentPoolOpen, Gens
<1>2. CurrentPoolOpen' /\ CountIsLatest' /\ ThresholdRespected'
    BY AttemptsKept DEF CurrentPoolOpen, CountIsLatest, ThresholdRespected
<1> QED
    BY <1>1, <1>2

(* Every step of the system preserves the invariant. *)
LEMMA NextIInv == IInv /\ [Next]_vars => IInv'
<1> SUFFICES ASSUME IInv, [Next]_vars PROVE IInv'
    OBVIOUS
<1> USE DEF IInv
<1>1. ASSUME NEW p \in Threads, Enter(p) PROVE IInv'
    <2>1. at' \in [Threads -> {"out", "in", "joining", "closing"}]
        BY <1>1 DEF Enter, TypeOK
    <2> QED
        BY <1>1, <2>1, NewPoolIInv DEF Enter, TypeOK
<1>2. ASSUME NEW p \in Threads, Exit(p) PROVE IInv'
    <2>1. TypeOK'
        BY <1>2 DEF Exit, TypeOK, PoolTypeOK, poolVars, NoPool
    <2> QED
        BY <1>2, <2>1, OtherIInv DEF Exit, TypeOK, poolVars, NoPool
<1>3. ASSUME NEW p \in Threads, ExitJoined(p) PROVE IInv'
    <2>1. TypeOK'
        BY <1>3 DEF ExitJoined, TypeOK, PoolTypeOK, selfVars, ExecStates
    <2>2. pool # NoPool => exec'[pool] = exec[pool]
        BY <1>3 DEF ExitJoined, TypeOK, Numbering
    <2> QED
        BY <1>3, <2>1, <2>2, OtherIInv DEF ExitJoined, TypeOK, selfVars, CurrentPoolOpen
<1>4. ASSUME NEW p \in Threads, ExitReturns(p) PROVE IInv'
    <2>1. TypeOK'
        BY <1>4 DEF ExitReturns, TypeOK, PoolTypeOK, selfVars, ExecStates, NoPool
    <2>2. pool # NoPool => exec'[pool] = exec[pool]
        BY <1>4 DEF ExitReturns, TypeOK, Numbering
    <2>3. \A q \in Threads : leaving'[q].pool \in {leaving[q].pool, NoPool}
        BY <1>4 DEF ExitReturns, TypeOK
    <2> QED
        BY <1>4, <2>1, <2>2, <2>3, OtherIInv
        DEF ExitReturns, TypeOK, selfVars, CurrentPoolOpen, Numbering
<1>5. ASSUME NEW t \in Tasks, Submit(t) PROVE IInv'
    BY <1>5, SubmitIInv DEF Submit, TypeOK, PoolTypeOK
<1>6. ASSUME NEW g \in Gens, CallbackSubmit(g) PROVE IInv'
    <2>1. /\ callback' \in [Gens -> Tasks \cup {NoTask}]
          /\ callback[g] \in Tasks
          /\ UNCHANGED <<exec, pool, gen, cleanups, cleaner, at, leaving, owner>>
        BY <1>6 DEF CallbackSubmit, TypeOK, PoolTypeOK
    <2>2. CASE fut[callback[g]] = "new"
        <3>1. SubmitLocked(callback[g])
            BY <1>6, <2>2 DEF CallbackSubmit
        <3> QED
            BY <2>1, <2>2, <3>1, SubmitIInv
    <2>3. CASE fut[callback[g]] # "new"
        <3>1. UNCHANGED <<fut, where, tasks>>
            BY <1>6, <2>3 DEF CallbackSubmit
        <3>2. TypeOK'
            BY <2>1, <3>1 DEF TypeOK, PoolTypeOK
        <3> QED
            BY <2>1, <3>1, <3>2, OtherIInv DEF CurrentPoolOpen
    <2> QED
        BY <2>2, <2>3
<1>7. CASE RecycleIfNeeded
    <2> DEFINE o == IF pool = NoPool THEN Nobody ELSE owner[pool]
    <2>1. o \in Threads \cup {Nobody} /\ NewPool(o)
        BY <1>7 DEF RecycleIfNeeded, TypeOK
    <2>2. cleaner' \in [0 .. MaxGen -> CleanerStates]
        BY <1>7 DEF RecycleIfNeeded, TypeOK, CleanerStates
    <2>3. cleanups' \subseteq 0 .. MaxGen
        BY <1>7 DEF RecycleIfNeeded, TypeOK
    <2>4. ASSUME NEW g \in Gens, cleaner'[g] # "none", cleaner[g] = "none"
          PROVE  g = gen /\ Cardinality(Attempts(g)) >= RecycleAfter
        <3>1. g = gen
            BY <1>7, <2>4 DEF RecycleIfNeeded, TypeOK, Gens
        <3> QED
            BY <1>7, <3>1 DEF RecycleIfNeeded, CountIsLatest, Gens
    <2> HIDE DEF o
    <2> QED
        BY <1>7, <2>1, <2>2, <2>3, <2>4, NewPoolIInv DEF RecycleIfNeeded, TypeOK
<1>8. ASSUME NEW g \in Gens, CleanerShutsDown(g) PROVE IInv'
    <2>1. TypeOK'
        BY <1>8 DEF CleanerShutsDown, TypeOK, PoolTypeOK, selfVars, ExecStates, CleanerStates, Gens
    <2>2. g < gen
        BY <1>8 DEF CleanerShutsDown, Numbering
    <2>3. pool # NoPool => exec'[pool] = exec[pool]
        BY <1>8, <2>2 DEF CleanerShutsDown, CurrentPoolOpen, TypeOK, PoolTypeOK, Gens
    <2> QED
        BY <1>8, <2>1, <2>3, OtherIInv
        DEF CleanerShutsDown, TypeOK, selfVars, CurrentPoolOpen, Gens
<1>9. ASSUME NEW g \in Gens, CleanerEnds(g) PROVE IInv'
    <2>1. TypeOK'
        BY <1>9 DEF CleanerEnds, TypeOK, PoolTypeOK, selfVars, ExecStates, CleanerStates, Gens
    <2>2. g < gen
        BY <1>9 DEF CleanerEnds, Numbering
    <2>3. pool # NoPool => exec'[pool] = exec[pool]
        BY <1>9, <2>2 DEF CleanerEnds, CurrentPoolOpen, TypeOK, PoolTypeOK, Gens
    <2> QED
        BY <1>9, <2>1, <2>3, OtherIInv
        DEF CleanerEnds, TypeOK, selfVars, CurrentPoolOpen, Gens
<1>11. ASSUME NEW t \in Tasks, PoolStep(t) PROVE IInv'
    <2>1. TypeOK'
        BY <1>11, FollowAssumption
        DEF PoolStep, Resolve, TypeOK, PoolTypeOK, selfVars, FutStates
    <2> QED
        BY <1>11, <2>1, OtherIInv
        DEF PoolStep, Resolve, TypeOK, PoolTypeOK, selfVars, CurrentPoolOpen
<1>12. ASSUME NEW g \in Gens, Breaks(g) PROVE IInv'
    <2>1. TypeOK'
        BY <1>12 DEF Breaks, WorkerDies, TypeOK, PoolTypeOK, selfVars, ExecStates
    <2>2. pool # NoPool => exec'[pool] \in {"running", "broken"}
        BY <1>12 DEF Breaks, WorkerDies, TypeOK, PoolTypeOK, CurrentPoolOpen
    <2> QED
        BY <1>12, <2>1, <2>2, OtherIInv DEF Breaks, WorkerDies, selfVars
<1>13. CASE UNCHANGED vars
    <2>1. TypeOK'
        BY <1>13 DEF vars, poolVars, selfVars, TypeOK, PoolTypeOK
    <2> QED
        BY <1>13, <2>1, OtherIInv DEF vars, poolVars, selfVars, CurrentPoolOpen
<1> QED
    BY <1>1, <1>2, <1>3, <1>4, <1>5, <1>6, <1>7, <1>8, <1>9, <1>11, <1>12, <1>13
    DEF Next, ExitStep, CleanerStep

-----------------------------------------------------------------------------
(* The invariant holds in every reachable state. *)
THEOREM Invariance == Spec => []IInv
<1>1. Init => IInv
    BY InitIInv
<1>2. IInv /\ [Next]_vars => IInv'
    BY NextIInv
<1> QED
    BY <1>1, <1>2, PTL DEF Spec

(* Every variable keeps its type, whatever the threads do. *)
THEOREM TypeCorrect == Spec => []TypeOK
<1>1. IInv => TypeOK
    BY DEF IInv
<1> QED
    BY <1>1, Invariance, PTL

(* submit never reaches an executor that recycle_if_needed, a background
   thread or __exit__ has shut down. *)
THEOREM SubmitReachesOpenPool == Spec => []CurrentPoolOpen
<1>1. IInv => CurrentPoolOpen
    BY DEF IInv
<1> QED
    BY <1>1, Invariance, PTL

(* _tasks is exact: the submit attempts on the current executor, however many
   threads submit and recycle. *)
THEOREM CountExact == Spec => []CountIsAttempts
<1>1. IInv => CountIsAttempts
    BY DEF IInv, CountIsAttempts, CountIsLatest, CurrentPoolOpen, TypeOK, NoPool
<1> QED
    BY <1>1, Invariance, PTL

(* No executor is recycled before recycle_after attempts on it, however many
   threads call recycle_if_needed at once. *)
THEOREM RecyclesAtThreshold == Spec => []ThresholdRespected
<1>1. IInv => ThresholdRespected
    BY DEF IInv
<1> QED
    BY <1>1, Invariance, PTL

-----------------------------------------------------------------------------
(* What __exit__ leaves behind, when recycle_if_needed is called inside the
   with statement (~LateRecycle): a recycle after __exit__ would make an
   executor that belongs to no session. *)

(* A session holds the current executor, or there is none. *)
Sessions ==
    /\ \A p \in Threads : at[p] = "in" => pool # NoPool /\ owner[pool] = p
    /\ pool # NoPool => \E p \in Threads : at[p] = "in"
    /\ \A p \in Threads : at[p] \in {"out", "in"} => leaving[p].pool = NoPool
    /\ \A p \in Threads : leaving[p].pool # NoPool => owner[leaving[p].pool] = p

(* A background thread has an executor that nobody else holds, and the session
   of that executor will join the thread. *)
Joins ==
    \A g \in Gens : cleaner[g] # "none" =>
        /\ g # pool /\ \A p \in Threads : leaving[p].pool # g
        /\ Alive(g) => /\ owner[g] \in Threads
                       /\ \/ at[owner[g]] = "in" /\ g \in cleanups
                          \/ at[owner[g]] = "joining" /\ g \in leaving[owner[g]].threads

(* An executor is in somebody's hands until it has resolved all it accepted. *)
GoneIsDrained == \A g \in Gens : exec[g] = "gone" => Drained(g)

Held ==
    \A g \in Gens : owner[g] # Nobody =>
        exec[g] = "gone" \/ g = pool \/ g = leaving[owner[g]].pool \/ Alive(g)

(* A future that was accepted has an executor. *)
Accepted == \A t \in Tasks : fut[t] \in {"pending", "done"} => where[t] \in Gens

SInv == IInv /\ Sessions /\ Joins /\ GoneIsDrained /\ Held /\ Accepted

(* Before the first session there is nothing to leave behind. *)
LEMMA InitSInv == Init => SInv
<1> SUFFICES ASSUME Init PROVE SInv
    OBVIOUS
<1>1. IInv
    BY InitIInv
<1>2. Sessions /\ Joins /\ GoneIsDrained /\ Held /\ Accepted
    BY DEF Init, PoolInit, Sessions, Joins, GoneIsDrained, Held, Accepted, NoPool, Gens
<1> QED
    BY <1>1, <1>2 DEF SInv

(* Futures, their executors and callbacks alone decide what is drained. *)
LEMMA DrainedKept ==
    ASSUME UNCHANGED <<fut, where, callback>>, NEW g
    PROVE  Drained(g)' <=> Drained(g)
BY DEF Drained, PendingOn, Attempts

(* A thread that is in has the current executor: it is alone. *)
LEMMA OneIn ==
    ASSUME SInv, NEW p \in Threads, at[p] = "in", NEW q \in Threads, at[q] = "in"
    PROVE  p = q
BY DEF SInv, Sessions

(* The executor that is current was not given up by anybody. *)
LEMMA PoolIsOpen ==
    ASSUME SInv, pool # NoPool
    PROVE  /\ pool = gen /\ pool \in Gens /\ exec[pool] \in {"running", "broken"}
           /\ owner[pool] \in Threads /\ at[owner[pool]] = "in"
BY DEF SInv, IInv, CurrentPoolOpen, TypeOK, Sessions

(* __enter__ begins a session with a fresh executor and no background threads. *)
LEMMA EnterSInv == ASSUME SInv, NEW p \in Threads, Enter(p) PROVE (Sessions /\ Joins /\ Held)'
<1> USE DEF SInv, IInv
<1>1. /\ pool = NoPool /\ pool' = gen + 1 /\ gen + 1 \in Gens /\ gen \in Nat /\ at[p] = "out"
      /\ exec' = [exec EXCEPT ![gen + 1] = "running"]
      /\ owner' = [owner EXCEPT ![gen + 1] = p]
      /\ at' = [at EXCEPT ![p] = "in"]
      /\ UNCHANGED <<cleanups, cleaner, leaving>>
    BY MaxGenAssumption DEF Enter, NewPool, TypeOK, Gens
<1>2. \A q \in Threads : at[q] # "in"
    BY <1>1 DEF Sessions
<1>3. \A q \in Threads : leaving[q].pool # gen + 1 /\ leaving[q].pool \in Gens \cup {NoPool}
    BY <1>1 DEF Numbering, TypeOK
<1>4. Sessions'
    BY <1>1, <1>2, <1>3 DEF Sessions, TypeOK, NoPool, Gens
<1>5. \A g \in Gens : cleaner[g] # "none" => g # gen + 1
    BY <1>1 DEF Numbering, Gens
<1>6. Joins'
    <2> SUFFICES ASSUME NEW g \in Gens, cleaner[g] # "none"
                 PROVE  /\ g # gen + 1 /\ \A q \in Threads : leaving[q].pool # g
                        /\ Alive(g) => /\ owner'[g] \in Threads
                                       /\ at'[owner'[g]] = "joining" /\ g \in leaving[owner'[g]].threads
        BY <1>1 DEF Joins, Alive
    <2>1. owner'[g] = owner[g]
        BY <1>1, <1>5 DEF TypeOK
    <2>2. Alive(g) => owner[g] \in Threads /\ owner[g] # p
                      /\ at[owner[g]] = "joining" /\ g \in leaving[owner[g]].threads
        BY <1>1, <1>2 DEF Joins
    <2>3. \A q \in Threads \ {p} : at'[q] = at[q]
        BY <1>1 DEF TypeOK
    <2> QED
        BY <1>5, <2>1, <2>2, <2>3 DEF Joins
<1>7. Held'
    BY <1>1 DEF Held, Alive, TypeOK, PoolTypeOK, NoPool, Gens
<1> QED
    BY <1>4, <1>6, <1>7

(* __exit__ takes the current executor and remembers the threads it is to join. *)
LEMMA ExitSInv == ASSUME SInv, NEW p \in Threads, Exit(p) PROVE (Sessions /\ Joins /\ Held)'
<1> USE DEF SInv, IInv
<1>1. /\ at[p] = "in" /\ at' = [at EXCEPT ![p] = "joining"]
      /\ leaving' = [leaving EXCEPT ![p] = [pool |-> pool, threads |-> cleanups]]
      /\ pool' = NoPool /\ cleanups' = {}
      /\ UNCHANGED <<exec, cleaner, owner>>
    BY DEF Exit, poolVars
<1>2. pool # NoPool /\ pool \in Gens /\ owner[pool] = p
    BY <1>1 DEF Sessions, TypeOK
<1>3. /\ leaving'[p].pool = pool /\ leaving'[p].threads = cleanups
      /\ \A q \in Threads \ {p} : leaving'[q] = leaving[q]
    BY <1>1 DEF TypeOK
<1>4. /\ at'[p] = "joining" /\ \A q \in Threads \ {p} : at'[q] = at[q] /\ at[q] # "in"
    BY <1>1, OneIn DEF TypeOK
<1>5. Sessions'
    BY <1>1, <1>2, <1>3, <1>4 DEF Sessions
<1>6. Joins'
    <2> SUFFICES ASSUME NEW g \in Gens, cleaner[g] # "none"
                 PROVE  /\ g # NoPool /\ \A q \in Threads : leaving'[q].pool # g
                        /\ Alive(g) => /\ owner[g] \in Threads
                                       /\ at'[owner[g]] = "joining" /\ g \in leaving'[owner[g]].threads
        BY <1>1 DEF Joins, Alive
    <2>1. g # NoPool
        BY DEF Gens, NoPool
    <2>2. \A q \in Threads : leaving'[q].pool # g
        BY <1>3 DEF Joins
    <2>3. ASSUME Alive(g)
          PROVE  owner[g] \in Threads /\ at'[owner[g]] = "joining" /\ g \in leaving'[owner[g]].threads
        <3>1. /\ owner[g] \in Threads
              /\ \/ at[owner[g]] = "in" /\ g \in cleanups
                 \/ at[owner[g]] = "joining" /\ g \in leaving[owner[g]].threads
            BY <2>3 DEF Joins
        <3> HIDE DEF IInv, SInv
        <3>2. CASE owner[g] = p
            BY <1>1, <1>3, <1>4, <3>1, <3>2
        <3>3. CASE owner[g] # p
            BY <1>3, <1>4, <3>1, <3>3
        <3> QED
            BY <3>2, <3>3
    <2> QED
        BY <2>1, <2>2, <2>3
<1>7. Held'
    <2> SUFFICES ASSUME NEW g \in Gens, owner[g] # Nobody
                 PROVE  exec[g] = "gone" \/ g = leaving'[owner[g]].pool \/ Alive(g)
        BY <1>1 DEF Held, Alive
    <2>1. CASE g = pool
        BY <1>2, <1>3, <2>1
    <2>2. CASE g # pool
        <3>1. owner[g] = p => g # leaving[p].pool
            BY <1>1 DEF Sessions, Gens, NoPool
        <3>2. owner[g] \in Threads
            BY DEF TypeOK
        <3> QED
            BY <1>3, <2>2, <3>1, <3>2 DEF Held
    <2> QED
        BY <2>1, <2>2
<1> QED
    BY <1>5, <1>6, <1>7

(* A thread that is joined has ended, so its executor is gone. *)
LEMMA ExitJoinedSInv ==
    ASSUME SInv, NEW p \in Threads, ExitJoined(p)
    PROVE  (Sessions /\ Joins /\ GoneIsDrained /\ Held)'
<1> USE DEF SInv, IInv
<1>1. /\ at[p] = "joining" /\ at' = [at EXCEPT ![p] = "closing"]
      /\ \A g \in leaving[p].threads : ~Alive(g)
      /\ exec' = [g \in Gens |-> IF g = leaving[p].pool THEN "shutdown" ELSE exec[g]]
      /\ UNCHANGED <<fut, where, callback, pool, cleanups, cleaner, leaving, owner>>
    BY DEF ExitJoined, selfVars
<1>2. Sessions'
    BY <1>1 DEF Sessions, TypeOK
<1>3. Joins'
    BY <1>1 DEF Joins, Alive, TypeOK
<1>4. GoneIsDrained'
    BY <1>1, DrainedKept DEF GoneIsDrained
<1>5. Held'
    <2> SUFFICES ASSUME NEW g \in Gens, owner[g] # Nobody
                 PROVE  exec'[g] = "gone" \/ g = pool \/ g = leaving[owner[g]].pool \/ Alive(g)
        BY <1>1 DEF Held, Alive
    <2>1. CASE g = leaving[p].pool
        BY <2>1 DEF Sessions, Gens, NoPool
    <2>2. CASE g # leaving[p].pool
        BY <1>1, <2>2 DEF Held
    <2> QED
        BY <2>1, <2>2
<1> QED
    BY <1>2, <1>3, <1>4, <1>5

(* When __exit__ returns, its executor has drained and every thread was joined. *)
LEMMA ExitReturnsSInv ==
    ASSUME SInv, NEW p \in Threads, ExitReturns(p)
    PROVE  (Sessions /\ Joins /\ GoneIsDrained /\ Held)'
<1> USE DEF SInv, IInv
<1>1. /\ at[p] = "closing" /\ at' = [at EXCEPT ![p] = "out"]
      /\ leaving[p].pool # NoPool => Drained(leaving[p].pool)
      /\ exec' = [g \in Gens |-> IF g = leaving[p].pool THEN "gone" ELSE exec[g]]
      /\ leaving' = [leaving EXCEPT ![p] = [pool |-> NoPool, threads |-> {}]]
      /\ UNCHANGED <<fut, where, callback, pool, cleanups, cleaner, owner>>
    BY DEF ExitReturns, selfVars
<1>2. /\ leaving'[p].pool = NoPool
      /\ \A q \in Threads \ {p} : leaving'[q] = leaving[q]
      /\ at'[p] = "out"
      /\ \A q \in Threads \ {p} : at'[q] = at[q]
    BY <1>1 DEF TypeOK
<1>3. Sessions'
    BY <1>1, <1>2 DEF Sessions
<1>4. Joins'
    <2> SUFFICES ASSUME NEW g \in Gens, cleaner[g] # "none"
                 PROVE  /\ g # pool /\ \A q \in Threads : leaving'[q].pool # g
                        /\ Alive(g) => /\ owner[g] \in Threads
                                       /\ \/ at'[owner[g]] = "in" /\ g \in cleanups
                                          \/ at'[owner[g]] = "joining" /\ g \in leaving'[owner[g]].threads
        BY <1>1 DEF Joins, Alive
    <2>1. g # pool /\ g # NoPool /\ \A q \in Threads : leaving[q].pool # g
        BY DEF Joins, Gens, NoPool
    <2>2. Alive(g) => owner[g] \in Threads /\ owner[g] # p
        BY <1>1 DEF Joins
    <2> QED
        BY <1>2, <2>1, <2>2 DEF Joins
<1>5. GoneIsDrained'
    <2> SUFFICES ASSUME NEW g \in Gens, exec'[g] = "gone" PROVE Drained(g)
        BY <1>1, DrainedKept DEF GoneIsDrained
    <2> QED
        BY <1>1 DEF GoneIsDrained, Gens, NoPool
<1>6. Held'
    <2> SUFFICES ASSUME NEW g \in Gens, owner[g] # Nobody
                 PROVE  exec'[g] = "gone" \/ g = pool \/ g = leaving'[owner[g]].pool \/ Alive(g)
        BY <1>1 DEF Held, Alive
    <2>1. owner[g] \in Threads
        BY DEF TypeOK
    <2> QED
        BY <1>1, <1>2, <2>1 DEF Held
<1> QED
    BY <1>3, <1>4, <1>5, <1>6

(* recycle_if_needed inside the statement: the retired executor gets a background
   thread that the exit will join. *)
LEMMA RecycleSInv ==
    ASSUME ~LateRecycle, SInv, RecycleIfNeeded
    PROVE  (Sessions /\ Joins /\ GoneIsDrained /\ Held)'
<1> USE DEF SInv, IInv
<1>1. PICK p \in Threads : at[p] = "in"
    BY DEF RecycleIfNeeded
<1>2. pool # NoPool /\ pool \in Gens /\ pool = gen /\ owner[pool] = p
    BY <1>1, PoolIsOpen DEF Sessions
<1>3. /\ pool' = gen + 1 /\ gen + 1 \in Gens /\ gen \in Nat
      /\ exec' = [exec EXCEPT ![gen + 1] = "running"]
      /\ owner' = [owner EXCEPT ![gen + 1] = p]
      /\ cleaner' = [cleaner EXCEPT ![gen] = "started"]
      /\ cleanups' = {g \in cleanups : Alive(g)} \cup {gen}
      /\ UNCHANGED <<fut, where, callback, at, leaving>>
    BY <1>2, MaxGenAssumption DEF RecycleIfNeeded, NewPool, TypeOK, Gens
<1>4. \A q \in Threads : leaving[q].pool # gen + 1 /\ leaving[q].pool # gen
                         /\ leaving[q].pool \in Gens \cup {NoPool}
    BY <1>2, <1>3 DEF Numbering, TypeOK
<1>5. Sessions'
    <2>1. \A q \in Threads : at[q] = "in" => q = p
        BY <1>1, OneIn
    <2> QED
        BY <1>1, <1>3, <1>4, <2>1 DEF Sessions, TypeOK, NoPool, Gens
<1>6. /\ cleaner'[gen] = "started" /\ \A g \in Gens \ {gen} : cleaner'[g] = cleaner[g]
      /\ \A g \in Gens \ {gen + 1} : owner'[g] = owner[g]
    BY <1>3 DEF TypeOK, Gens
<1>7. Joins'
    <2> SUFFICES ASSUME NEW g \in Gens, cleaner'[g] # "none"
                 PROVE  /\ g # gen + 1 /\ \A q \in Threads : leaving[q].pool # g
                        /\ Alive(g)' => /\ owner'[g] \in Threads
                                        /\ \/ at[owner'[g]] = "in" /\ g \in cleanups'
                                           \/ at[owner'[g]] = "joining" /\ g \in leaving[owner'[g]].threads
        BY <1>3 DEF Joins
    <2>1. CASE g = gen
        BY <1>1, <1>2, <1>3, <1>4, <1>6, <2>1
    <2>2. CASE g # gen
        <3>1. cleaner[g] # "none" /\ g # gen + 1 /\ (Alive(g)' <=> Alive(g)) /\ owner'[g] = owner[g]
            BY <1>3, <1>6, <2>2 DEF Numbering, Alive, Gens
        <3> QED
            BY <1>3, <3>1 DEF Joins
    <2> QED
        BY <2>1, <2>2
<1>8. GoneIsDrained'
    <2> SUFFICES ASSUME NEW g \in Gens, exec'[g] = "gone" PROVE Drained(g)
        BY <1>3, DrainedKept DEF GoneIsDrained
    <2>1. exec[g] = "gone"
        BY <1>3 DEF TypeOK, PoolTypeOK
    <2> QED
        BY <2>1 DEF GoneIsDrained
<1>9. Held'
    <2> SUFFICES ASSUME NEW g \in Gens, owner'[g] # Nobody, g # gen + 1
                 PROVE  exec[g] = "gone" \/ g = leaving[owner[g]].pool \/ Alive(g)'
        BY <1>3, <1>6 DEF Held, TypeOK, PoolTypeOK
    <2>1. CASE g = gen
        BY <1>6, <2>1 DEF Alive
    <2>2. CASE g # gen
        BY <1>2, <1>6, <2>2 DEF Held, Alive
    <2> QED
        BY <2>1, <2>2
<1> QED
    BY <1>5, <1>7, <1>8, <1>9

(* A step of an executor, of a submit or of a callback leaves the with
   statements and the background threads alone. *)
LEMMA HandsKept ==
    ASSUME SInv, UNCHANGED <<pool, cleanups, cleaner, at, leaving, owner>>,
           \A g \in Gens : exec[g] = "gone" => exec'[g] = "gone"
    PROVE  (Sessions /\ Joins /\ Held)'
BY DEF SInv, Sessions, Joins, Held, Alive

(* A submit puts its task on the executor that is current, which the session knows. *)
LEMMA SubmitLockedSInv ==
    ASSUME SInv, NEW t \in Tasks, fut[t] = "new", SubmitLocked(t), UNCHANGED exec,
           \A g \in Gens : callback'[g] \in {callback[g], NoTask}
    PROVE  (GoneIsDrained /\ Accepted)'
<1> USE DEF SInv, IInv
<1>1. CASE pool = NoPool
    <2>1. UNCHANGED where /\ fut' = [fut EXCEPT ![t] = "refused"]
        BY <1>1 DEF SubmitLocked, Refused
    <2>2. \A u \in Tasks : fut'[u] \in {"pending", "done"} => fut[u] = fut'[u]
        BY <2>1 DEF TypeOK, PoolTypeOK
    <2>3. Accepted'
        BY <2>1, <2>2 DEF Accepted
    <2>4. GoneIsDrained'
        BY <2>1, <2>2 DEF GoneIsDrained, Drained, PendingOn, Attempts
    <2> QED
        BY <2>3, <2>4
<1>2. CASE pool # NoPool
    <2>1. pool \in Gens /\ exec[pool] # "gone"
        BY <1>2, PoolIsOpen
    <2>2. /\ where' = [where EXCEPT ![t] = pool]
          /\ \A u \in Tasks \ {t} : fut'[u] = fut[u]
        BY <1>2 DEF SubmitLocked, Handed, TypeOK, PoolTypeOK
    <2>3. where'[t] = pool /\ \A u \in Tasks \ {t} : where'[u] = where[u]
        BY <2>2 DEF TypeOK, PoolTypeOK
    <2>4. Accepted'
        BY <2>1, <2>2, <2>3 DEF Accepted
    <2>5. GoneIsDrained'
        <3> SUFFICES ASSUME NEW g \in Gens, exec[g] = "gone" PROVE Drained(g)'
            BY DEF GoneIsDrained
        <3>1. PendingOn(g) = {} /\ callback[g] = NoTask
            BY DEF GoneIsDrained, Drained
        <3>2. PendingOn(g)' = {}
            BY <2>1, <2>2, <2>3, <3>1 DEF PendingOn, Attempts
        <3> QED
            BY <3>1, <3>2 DEF Drained
    <2> QED
        BY <2>4, <2>5
<1> QED
    BY <1>1, <1>2

(* A callback that submits does so while its own executor is not drained. *)
LEMMA CallbackSInv ==
    ASSUME SInv, NEW g \in Gens, CallbackSubmit(g)
    PROVE  (Sessions /\ Joins /\ GoneIsDrained /\ Held /\ Accepted)'
<1>1. UNCHANGED <<exec, pool, cleanups, cleaner, at, leaving, owner>>
    BY DEF CallbackSubmit
<1>2. callback[g] \in Tasks /\ \A h \in Gens : callback'[h] \in {callback[h], NoTask}
    BY DEF CallbackSubmit, SInv, IInv, TypeOK, PoolTypeOK
<1>3. (Sessions /\ Joins /\ Held)'
    BY <1>1, HandsKept
<1>4. CASE fut[callback[g]] = "new"
    <2>1. SubmitLocked(callback[g])
        BY <1>4 DEF CallbackSubmit
    <2> QED
        BY <1>1, <1>2, <1>3, <1>4, <2>1, SubmitLockedSInv
<1>5. CASE fut[callback[g]] # "new"
    <2>1. UNCHANGED <<fut, where>>
        BY <1>5 DEF CallbackSubmit
    <2>2. GoneIsDrained'
        BY <1>1, <1>2, <2>1 DEF SInv, GoneIsDrained, Drained, PendingOn, Attempts
    <2> QED
        BY <1>3, <2>1, <2>2 DEF SInv, Accepted
<1> QED
    BY <1>4, <1>5

(* A future that is resolved, and its callbacks, only shrink what is open. *)
LEMMA ResolveSInv ==
    ASSUME SInv, NEW t \in Tasks, PoolStep(t)
    PROVE  (Sessions /\ Joins /\ GoneIsDrained /\ Held /\ Accepted)'
<1>1. /\ fut[t] = "pending" /\ fut' = [fut EXCEPT ![t] = "done"]
      /\ callback' = [callback EXCEPT ![where[t]] = Follow[t]]
      /\ UNCHANGED <<exec, where, pool, cleanups, cleaner, at, leaving, owner>>
    BY DEF PoolStep, Resolve, selfVars
<1>2. (Sessions /\ Joins /\ Held)'
    BY <1>1, HandsKept
<1>3. \A u \in Tasks : fut'[u] \in {"pending", "done"} => fut[u] \in {"pending", "done"}
    BY <1>1 DEF SInv, IInv, TypeOK, PoolTypeOK
<1>4. Accepted'
    BY <1>1, <1>3 DEF SInv, Accepted
<1>5. GoneIsDrained'
    <2> SUFFICES ASSUME NEW g \in Gens, exec[g] = "gone" PROVE Drained(g)'
        BY <1>1 DEF GoneIsDrained
    <2>1. PendingOn(g) = {} /\ callback[g] = NoTask
        BY DEF SInv, GoneIsDrained, Drained
    <2>2. where[t] # g
        BY <1>1, <2>1 DEF PendingOn, Attempts
    <2>3. callback'[g] = NoTask
        BY <1>1, <2>1, <2>2 DEF SInv, IInv, TypeOK, PoolTypeOK
    <2>4. \A u \in Tasks : fut'[u] = "pending" => fut[u] = "pending"
        BY <1>1 DEF SInv, IInv, TypeOK, PoolTypeOK
    <2>5. PendingOn(g)' = {}
        BY <1>1, <2>1, <2>4 DEF PendingOn, Attempts
    <2> QED
        BY <2>3, <2>5 DEF Drained
<1> QED
    BY <1>2, <1>4, <1>5

(* A background thread ends only after its executor has drained. *)
LEMMA CleanerSInv ==
    ASSUME SInv, NEW g \in Gens, CleanerStep(g)
    PROVE  (Sessions /\ Joins /\ GoneIsDrained /\ Held)'
<1> USE DEF SInv, IInv
<1>1. UNCHANGED <<fut, where, callback, pool, cleanups, at, leaving, owner>>
    BY DEF CleanerStep, CleanerShutsDown, CleanerEnds, selfVars
<1>2. /\ cleaner[g] \in {"started", "draining"}
      /\ \/ exec' = [exec EXCEPT ![g] = "shutdown"] /\ cleaner' = [cleaner EXCEPT ![g] = "draining"]
         \/ Drained(g) /\ exec' = [exec EXCEPT ![g] = "gone"] /\ cleaner' = [cleaner EXCEPT ![g] = "ended"]
    BY DEF CleanerStep, CleanerShutsDown, CleanerEnds
<1>3. /\ \A h \in Gens \ {g} : exec'[h] = exec[h] /\ cleaner'[h] = cleaner[h]
      /\ \/ exec'[g] = "shutdown" /\ cleaner'[g] = "draining"
         \/ Drained(g) /\ exec'[g] = "gone" /\ cleaner'[g] = "ended"
    <2>1. \A h \in Gens : h \in DOMAIN exec /\ h \in DOMAIN cleaner
        BY DEF TypeOK, PoolTypeOK, Gens
    <2> HIDE DEF SInv, IInv
    <2> QED
        BY <1>2, <2>1
<1>4. Alive(g) /\ \A h \in Gens : (Alive(h)' => Alive(h)) /\ (cleaner'[h] # "none" => cleaner[h] # "none")
    BY <1>2, <1>3 DEF Alive
<1>5. Sessions'
    BY <1>1 DEF Sessions
<1>6. Joins'
    <2> HIDE DEF Alive
    <2> QED
        BY <1>1, <1>4 DEF Joins
<1>7. GoneIsDrained'
    BY <1>1, <1>3, DrainedKept DEF GoneIsDrained
<1>8. Held'
    BY <1>1, <1>3 DEF Held, Alive
<1> QED
    BY <1>5, <1>6, <1>7, <1>8

(* An executor that breaks resolves its futures and stays where it is. *)
LEMMA BreaksSInv ==
    ASSUME SInv, NEW g \in Gens, Breaks(g)
    PROVE  (Sessions /\ Joins /\ GoneIsDrained /\ Held /\ Accepted)'
<1>1. /\ UNCHANGED <<fut, where, callback, pool, cleanups, cleaner, at, leaving, owner>>
      /\ exec[g] = "running" /\ exec' = [exec EXCEPT ![g] = "broken"]
    BY DEF Breaks, WorkerDies, selfVars
<1>2. \A h \in Gens : exec'[h] = "gone" <=> exec[h] = "gone"
    BY <1>1 DEF SInv, IInv, TypeOK, PoolTypeOK
<1>3. GoneIsDrained'
    BY <1>1, <1>2, DrainedKept DEF SInv, GoneIsDrained
<1> QED
    BY <1>1, <1>2, <1>3, HandsKept DEF SInv, Accepted

(* Every step keeps every executor in somebody's hands. *)
LEMMA NextSInv == ASSUME ~LateRecycle, SInv, [Next]_vars PROVE SInv'
<1> USE DEF SInv
<1>1. IInv'
    BY NextIInv
<1>2. ASSUME NEW p \in Threads, Enter(p) PROVE SInv'
    <2>1. UNCHANGED <<fut, where, callback>> /\ \A g \in Gens : exec'[g] = "gone" => exec[g] = "gone"
        BY <1>2 DEF Enter, NewPool, IInv, TypeOK, PoolTypeOK
    <2> QED
        BY <1>1, <1>2, <2>1, EnterSInv, DrainedKept DEF GoneIsDrained, Accepted
<1>3. ASSUME NEW p \in Threads, Exit(p) PROVE SInv'
    <2>1. UNCHANGED <<exec, fut, where, callback>>
        BY <1>3 DEF Exit, poolVars
    <2> QED
        BY <1>1, <1>3, <2>1, ExitSInv, DrainedKept DEF GoneIsDrained, Accepted
<1>4. ASSUME NEW p \in Threads, ExitStep(p) PROVE SInv'
    <2>1. UNCHANGED <<fut, where>>
        BY <1>4 DEF ExitStep, ExitJoined, ExitReturns
    <2> QED
        BY <1>1, <1>4, <2>1, ExitJoinedSInv, ExitReturnsSInv DEF ExitStep, Accepted
<1>5. ASSUME NEW t \in Tasks, Submit(t) PROVE SInv'
    <2>1. /\ fut[t] = "new" /\ SubmitLocked(t)
          /\ UNCHANGED <<exec, callback, pool, cleanups, cleaner, at, leaving, owner>>
        BY <1>5 DEF Submit
    <2> QED
        BY <1>1, <2>1, SubmitLockedSInv, HandsKept
<1>6. ASSUME NEW t \in Tasks, PoolStep(t) PROVE SInv'
    BY <1>1, <1>6, ResolveSInv
<1>7. CASE RecycleIfNeeded
    <2>1. UNCHANGED <<fut, where>>
        BY <1>7 DEF RecycleIfNeeded
    <2> QED
        BY <1>1, <1>7, <2>1, RecycleSInv DEF Accepted
<1>8. ASSUME NEW g \in Gens, CleanerStep(g) PROVE SInv'
    <2>1. UNCHANGED <<fut, where>>
        BY <1>8 DEF CleanerStep, CleanerShutsDown, CleanerEnds
    <2> QED
        BY <1>1, <1>8, <2>1, CleanerSInv DEF Accepted
<1>9. ASSUME NEW g \in Gens, CallbackSubmit(g) PROVE SInv'
    BY <1>1, <1>9, CallbackSInv
<1>10. ASSUME NEW g \in Gens, Breaks(g) PROVE SInv'
    BY <1>1, <1>10, BreaksSInv
<1>11. CASE UNCHANGED vars
    <2>1. UNCHANGED <<exec, fut, where, callback, pool, cleanups, cleaner, at, leaving, owner>>
        BY <1>11 DEF vars, poolVars, selfVars
    <2> QED
        BY <1>1, <2>1, HandsKept, DrainedKept DEF GoneIsDrained, Accepted
<1> QED
    BY <1>2, <1>3, <1>4, <1>5, <1>6, <1>7, <1>8, <1>9, <1>10, <1>11 DEF Next

(* The invariant of sessions holds as long as recycle_if_needed is called inside
   the with statement. *)
THEOREM SessionInvariance == ASSUME ~LateRecycle PROVE Spec => []SInv
<1>1. Init => SInv
    BY InitSInv
<1>2. SInv /\ [Next]_vars => SInv'
    BY NextSInv
<1> QED
    BY <1>1, <1>2, PTL DEF Spec

(* A thread that is out has left nothing: its executors are gone. *)
LEMMA OutHasNothing == SInv => NothingLeftBehind
<1> SUFFICES ASSUME SInv, NEW p \in Threads, at[p] = "out", NEW g \in Gens, owner[g] = p
             PROVE  exec[g] = "gone" /\ Drained(g)
    BY DEF NothingLeftBehind
<1>1. p # Nobody
    BY ThreadsAssumption
<1>2. g # pool
    BY <1>1, PoolIsOpen DEF NoPool, Gens
<1>3. g # leaving[p].pool
    BY DEF SInv, Sessions, NoPool, Gens
<1>4. ~Alive(g)
    BY DEF SInv, Joins, Alive
<1> QED
    BY <1>1, <1>2, <1>3, <1>4 DEF SInv, Held, GoneIsDrained

(* When __exit__ has returned, every executor of its session -- current,
   replaced by whichever thread, broken or still draining -- has resolved all
   it accepted and given its processes back. *)
THEOREM ExitLeavesNothing == ASSUME ~LateRecycle PROVE Spec => []NothingLeftBehind
BY SessionInvariance, OutHasNothing, PTL

-----------------------------------------------------------------------------
(* Recycling is invisible: each step of the pool is a step of the service of
   TaskService or none of them, so no number of replaced executors shows. *)

(* The session of p is what the service sees of p's with statement. *)
Seen(p) == CASE at[p] = "out" -> "out" [] at[p] = "in" -> "open" [] OTHER -> "closing"

OfSession(t) == IF fut[t] \in {"pending", "done"} THEN owner[where[t]] ELSE Nobody

(* A step that resolves no future and changes no owner of an executor that
   exists leaves every accepted task with its session. *)
LEMMA OwnersKept ==
    ASSUME SInv, UNCHANGED <<fut, where>>,
           \A g \in Gens : g <= gen => owner'[g] = owner[g]
    PROVE  \A t \in Tasks : OfSession(t)' = OfSession(t)
BY DEF OfSession, SInv, Accepted, IInv, Numbering

(* __enter__ and the parts of __exit__. *)
LEMMA WithStatementSteps ==
    ASSUME SInv, NEW p \in Threads, Enter(p) \/ Exit(p) \/ ExitStep(p), NothingLeftBehind'
    PROVE  Service!Open(p) \/ Service!Close(p) \/ Service!Closed(p) \/ UNCHANGED Service!vars
<1> DEFINE S == [q \in Threads |-> Seen(q)]
<1> DEFINE O == [t \in Tasks |-> OfSession(t)]
<1>t. at \in [Threads -> {"out", "in", "joining", "closing"}]
    BY DEF SInv, IInv, TypeOK
<1>0. UNCHANGED O /\ UNCHANGED fut
    <2>1. UNCHANGED <<fut, where>>
        BY DEF Enter, Exit, ExitStep, ExitJoined, ExitReturns, poolVars
    <2>2. CASE Enter(p)
        <3>1. owner' = [owner EXCEPT ![gen + 1] = p] /\ owner \in [Gens -> Threads \cup {Nobody}]
            BY <2>2 DEF Enter, NewPool, SInv, IInv, TypeOK
        <3>2. gen \in Nat
            BY DEF SInv, IInv, TypeOK
        <3>3. \A g \in Gens : g <= gen => owner'[g] = owner[g]
            BY <3>1, <3>2, MaxGenAssumption DEF Gens
        <3> QED
            BY <2>1, <3>3, OwnersKept
    <2>3. CASE Exit(p) \/ ExitStep(p)
        <3>1. UNCHANGED owner
            BY <2>3 DEF Exit, ExitStep, ExitJoined, ExitReturns
        <3> QED
            BY <2>1, <3>1, OwnersKept
    <2> QED
        BY <2>2, <2>3
<1>1. CASE Enter(p)
    <2>1. at[p] = "out" /\ pool = NoPool /\ at' = [at EXCEPT ![p] = "in"]
        BY <1>1 DEF Enter
    <2>2. \A q \in Threads : at[q] # "in"
        BY <2>1 DEF SInv, Sessions
    <2>3. S' = [S EXCEPT ![p] = "open"]
        BY <1>t, <2>1 DEF Seen
    <2>4. S[p] = "out" /\ \A q \in Threads : S[q] # "open"
        BY <1>t, <2>1, <2>2 DEF Seen
    <2> QED
        BY <1>0, <2>3, <2>4 DEF Service!Open, Seen, OfSession
<1>2. CASE Exit(p)
    <2>1. at[p] = "in" /\ at' = [at EXCEPT ![p] = "joining"]
        BY <1>2 DEF Exit
    <2>2. S[p] = "open" /\ S' = [S EXCEPT ![p] = "closing"]
        BY <1>t, <2>1 DEF Seen
    <2> QED
        BY <1>0, <2>2 DEF Service!Close, Seen, OfSession
<1>3. CASE ExitJoined(p)
    <2>1. at[p] = "joining" /\ at' = [at EXCEPT ![p] = "closing"]
        BY <1>3 DEF ExitJoined
    <2>2. UNCHANGED S
        BY <1>t, <2>1 DEF Seen
    <2> QED
        BY <1>0, <2>2 DEF Service!vars, Seen, OfSession
<1>4. CASE ExitReturns(p)
    <2>1. at[p] = "closing" /\ at' = [at EXCEPT ![p] = "out"]
        BY <1>4 DEF ExitReturns
    <2>2. S[p] = "closing" /\ S' = [S EXCEPT ![p] = "out"]
        BY <1>t, <2>1 DEF Seen
    <2>3. ASSUME NEW t \in Tasks, O[t] = p PROVE fut[t] # "pending"
        <3>1. p # Nobody
            BY ThreadsAssumption
        <3>2. fut[t] \in {"pending", "done"} /\ where[t] \in Gens /\ owner[where[t]] = p
            BY <2>3, <3>1 DEF OfSession, SInv, Accepted
        <3>3. PICK g \in Gens : g = where[t]
            BY <3>2
        <3>4. at'[p] = "out" /\ owner'[g] = p /\ UNCHANGED <<fut, where>>
            BY <1>4, <1>t, <2>1, <3>2, <3>3 DEF ExitReturns
        <3>5. Drained(g)'
            BY <3>4 DEF NothingLeftBehind
        <3>6. PendingOn(g)' = {}
            BY <3>5 DEF Drained
        <3>7. t \in Attempts(g)' /\ fut'[t] = fut[t]
            BY <3>3, <3>4 DEF Attempts
        <3> QED
            BY <3>6, <3>7 DEF PendingOn
    <2> QED
        BY <1>0, <2>2, <2>3 DEF Service!Closed, Seen, OfSession
<1> QED
    BY <1>1, <1>2, <1>3, <1>4 DEF ExitStep

(* submit, by a caller or a callback: accepted by the session of the current
   executor, or refused. *)
LEMMA SubmitSteps ==
    ASSUME SInv, NEW t \in Tasks, fut[t] = "new", SubmitLocked(t),
           UNCHANGED <<exec, at, owner>>
    PROVE  Service!Refuse(t) \/ \E p \in Threads : Service!Accept(t, p)
<1> DEFINE S == [q \in Threads |-> Seen(q)]
<1> DEFINE O == [u \in Tasks |-> OfSession(u)]
<1>t. fut \in [Tasks -> FutStates] /\ where \in [Tasks -> Gens \cup {NoPool}]
    BY DEF SInv, IInv, TypeOK, PoolTypeOK
<1>s. UNCHANGED S
    BY DEF Seen
<1>1. CASE fut' = [fut EXCEPT ![t] = "refused"] /\ \A u \in Tasks \ {t} : where'[u] = where[u]
    <2>1. fut'[t] = "refused" /\ \A u \in Tasks \ {t} : fut'[u] = fut[u]
        BY <1>t, <1>1
    <2>2. UNCHANGED O
        BY <1>1, <2>1 DEF OfSession
    <2> QED
        BY <1>s, <1>1, <2>2 DEF Service!Refuse, Seen, OfSession
<1>2. CASE pool = NoPool
    BY <1>1, <1>2 DEF SubmitLocked, Refused
<1>3. CASE pool # NoPool
    <2>1. where' = [where EXCEPT ![t] = pool]
        BY <1>3 DEF SubmitLocked, Handed
    <2>2. \A u \in Tasks \ {t} : where'[u] = where[u]
        BY <1>t, <2>1
    <2>3. CASE exec[pool] # "running"
        BY <1>1, <1>3, <2>2, <2>3 DEF SubmitLocked, Handed
    <2>4. CASE exec[pool] = "running"
        <3>1. fut' = [fut EXCEPT ![t] = "pending"]
            BY <1>3, <2>4 DEF SubmitLocked, Handed
        <3>2. PICK p \in Threads : at[p] = "in" /\ owner[pool] = p
            BY <1>3 DEF SInv, Sessions
        <3>3. S[p] = "open"
            BY <3>2 DEF Seen
        <3>4. fut'[t] = "pending" /\ where'[t] = pool /\ \A u \in Tasks \ {t} : fut'[u] = fut[u]
            BY <1>t, <2>1, <3>1
        <3>5. O' = [O EXCEPT ![t] = p]
            BY <2>2, <3>2, <3>4 DEF OfSession
        <3>6. Service!Accept(t, p)
            BY <1>s, <3>1, <3>3, <3>5 DEF Service!Accept, Seen, OfSession
        <3> QED
            BY <3>6
    <2> QED
        BY <2>3, <2>4
<1> QED
    BY <1>2, <1>3

(* Every step of the pool is a step of the service, or invisible. *)
LEMMA StepSimulation ==
    ASSUME ~LateRecycle, SInv, NothingLeftBehind', [Next]_vars
    PROVE  [Service!Next]_(Service!vars)
<1> DEFINE S == [q \in Threads |-> Seen(q)]
<1> DEFINE O == [u \in Tasks |-> OfSession(u)]
<1>1. ASSUME UNCHANGED <<fut, where, at>>, \A g \in Gens : g <= gen => owner'[g] = owner[g]
      PROVE  UNCHANGED Service!vars
    <2>1. UNCHANGED S
        BY <1>1 DEF Seen
    <2>2. UNCHANGED O
        BY <1>1, OwnersKept
    <2> QED
        BY <1>1, <2>1, <2>2 DEF Service!vars, Seen, OfSession
<1>2. ASSUME NEW p \in Threads, Enter(p) \/ Exit(p) \/ ExitStep(p)
      PROVE  [Service!Next]_(Service!vars)
    BY <1>2, WithStatementSteps DEF Service!Next
<1>3. ASSUME NEW t \in Tasks, Submit(t) PROVE Service!Next
    BY <1>3, SubmitSteps DEF Submit, Service!Next
<1>4. ASSUME NEW g \in Gens, CallbackSubmit(g) PROVE [Service!Next]_(Service!vars)
    <2>1. callback[g] \in Tasks /\ UNCHANGED <<exec, at, owner>>
        BY <1>4 DEF CallbackSubmit, SInv, IInv, TypeOK, PoolTypeOK
    <2>2. CASE fut[callback[g]] = "new"
        <3>1. SubmitLocked(callback[g])
            BY <1>4, <2>2 DEF CallbackSubmit
        <3> QED
            BY <2>1, <2>2, <3>1, SubmitSteps DEF Service!Next
    <2>3. CASE fut[callback[g]] # "new"
        BY <1>1, <1>4, <2>1, <2>3 DEF CallbackSubmit
    <2> QED
        BY <2>2, <2>3
<1>5. ASSUME NEW t \in Tasks, PoolStep(t) PROVE Service!Next
    <2>1. fut[t] = "pending" /\ fut' = [fut EXCEPT ![t] = "done"] /\ UNCHANGED <<where, at, owner>>
        BY <1>5 DEF PoolStep, Resolve
    <2>2. UNCHANGED S
        BY <2>1 DEF Seen
    <2>3. \A u \in Tasks : fut'[u] \in {"pending", "done"} <=> fut[u] \in {"pending", "done"}
        BY <2>1 DEF SInv, IInv, TypeOK, PoolTypeOK
    <2>4. UNCHANGED O
        BY <2>1, <2>3 DEF OfSession
    <2>5. Service!Finish(t)
        BY <2>1, <2>2, <2>4 DEF Service!Finish, Seen, OfSession
    <2> QED
        BY <2>5 DEF Service!Next
<1>6. CASE RecycleIfNeeded
    <2>1. \E o : owner' = [owner EXCEPT ![gen + 1] = o]
        BY <1>6 DEF RecycleIfNeeded, NewPool
    <2>2. gen \in Nat /\ owner \in [Gens -> Threads \cup {Nobody}]
        BY DEF SInv, IInv, TypeOK
    <2>3. \A g \in Gens : g <= gen => owner'[g] = owner[g]
        BY <2>1, <2>2, MaxGenAssumption DEF Gens
    <2>4. UNCHANGED <<fut, where, at>>
        BY <1>6 DEF RecycleIfNeeded
    <2> QED
        BY <1>1, <2>3, <2>4
<1>7. ASSUME NEW g \in Gens, CleanerStep(g) \/ Breaks(g) PROVE UNCHANGED Service!vars
    <2>1. UNCHANGED <<fut, where, at, owner>>
        BY <1>7 DEF CleanerStep, CleanerShutsDown, CleanerEnds, Breaks, WorkerDies
    <2> QED
        BY <1>1, <2>1
<1>8. CASE UNCHANGED vars
    <2>1. UNCHANGED <<fut, where, at, owner>>
        BY <1>8 DEF vars, poolVars
    <2> QED
        BY <1>1, <2>1
<1> QED
    BY <1>2, <1>3, <1>4, <1>5, <1>6, <1>7, <1>8 DEF Next

(* RecyclingPool2 is the service of TaskService, safety: a task is accepted
   only by the open session, it is resolved once, and closing a session ends
   only when all it accepted is resolved -- through any number of recycles. *)
THEOREM RecyclingIsInvisible ==
    ASSUME ~LateRecycle PROVE Spec => Service!Init /\ [][Service!Next]_(Service!vars)
<1>1. Init => Service!Init
    <2> SUFFICES ASSUME Init PROVE Service!Init
        OBVIOUS
    <2>1. \A p \in Threads : at[p] = "out"
        BY DEF Init
    <2>2. \A t \in Tasks : fut[t] = "new"
        BY DEF Init, PoolInit
    <2> QED
        BY <2>1, <2>2 DEF Init, PoolInit, Service!Init
<1>2. SInv /\ NothingLeftBehind' /\ [Next]_vars => [Service!Next]_(Service!vars)
    BY StepSimulation
<1> QED
    BY <1>1, <1>2, SessionInvariance, ExitLeavesNothing, PTL DEF Spec
=============================================================================
