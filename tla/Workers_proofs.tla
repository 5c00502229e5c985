--------------------------- MODULE Workers_proofs ---------------------------
(***************************************************************************)
(* run_in_workers for any number of tasks, any arguments and any generator: *)
(* when the generator is resumed, and what the end of the call means.      *)
(***************************************************************************)
EXTENDS Workers, FiniteSetTheorems, TLAPS

(* all_futures holds what the generator submitted, and what may still be
   running is in the pending set. *)
Books ==
    /\ barrier <= yielded
    /\ \A i \in Futures : fut[i] = "new" <=> i > yielded
    /\ \A i \in Futures : fut[i] = "pending" => i \in pending
    /\ \A i \in pending : i <= yielded

(* Outside an exception, whatever left the pending set was looked at. *)
LookedAt ==
    RaiseOnException /\ pc \notin {"unwind", "raised"} =>
        \A i \in Futures : i <= yielded /\ i \notin pending => fut[i] = "ok"

(* A barrier holds from the moment wait_pending(0) returns; a wait for the
   queue length starts behind it. *)
Barriers ==
    /\ pc = "generate" => /\ Cardinality(pending) <= QueueLength
                          /\ \A i \in pending : i > barrier
    /\ pc = "wait" => target = 0 \/ \A i \in pending : i > barrier

(* What each way out of the call relies on. *)
Ends ==
    /\ pc = "start" => pending = {} /\ yielded = 0
    /\ pc = "last" => target = 0
    /\ pc = "returned" => pending = {}
    /\ pc \in {"last", "returned", "raised"} => \A i \in Futures : fut[i] # "pending"
    /\ pc \in {"unwind", "raised"} =>
           args.num_worker = 0 \/ badGen
           \/ (RaiseOnException /\ \E i \in Futures : fut[i] = "failed")

IInv == TypeOK /\ Books /\ LookedAt /\ Barriers /\ Ends

(* A set of futures is finite, and the queue length is a number. *)
LEMMA SetsAreFinite ==
    ASSUME NEW S \in SUBSET Futures
    PROVE  IsFiniteSet(S) /\ Cardinality(S) \in Nat
<1>1. MaxTasks \in Int /\ 1 \in Int
    BY MaxTasksAssumption
<1>2. IsFiniteSet(Futures)
    BY <1>1, FS_Interval DEF Futures
<1>3. IsFiniteSet(S)
    BY <1>2, FS_Subset
<1> QED
    BY <1>3, FS_CardinalityType

(* The queue length is a number, the default one too. *)
LEMMA QueueLengthType == TypeOK => QueueLength \in Nat
<1> SUFFICES ASSUME TypeOK PROVE QueueLength \in Nat
    OBVIOUS
<1>1. args.num_worker \in Nat /\ args.length \in Nat
    BY ArgsAssumption DEF TypeOK, Arguments
<1> QED
    BY <1>1 DEF QueueLength

(* Few of something means nothing for zero. *)
LEMMA NoneLeft ==
    ASSUME NEW S \in SUBSET Futures, Cardinality(S) <= 0
    PROVE  S = {}
BY SetsAreFinite, FS_EmptySet

(* A call begins with nothing pending. *)
LEMMA InitIInv == Init => IInv
<1> SUFFICES ASSUME Init PROVE IInv
    OBVIOUS
<1> USE DEF Init
<1>1. TypeOK
    <2>1. yielded \in 0 .. MaxTasks /\ barrier \in 0 .. MaxTasks
        BY MaxTasksAssumption
    <2> QED
        BY <2>1 DEF TypeOK
<1>2. Books
    BY DEF Books, Futures
<1>3. LookedAt /\ Barriers /\ Ends
    BY DEF LookedAt, Barriers, Ends, Futures
<1> QED
    BY <1>1, <1>2, <1>3 DEF IInv

(* The executor is created, or refuses zero workers. *)
LEMMA StartIInv == ASSUME IInv, Start, UNCHANGED args PROVE IInv'
<1> USE DEF IInv, Start
<1>1. TypeOK'
    BY DEF TypeOK, QueueLength
<1>2. Books' /\ LookedAt'
    BY DEF Books, LookedAt, RaiseOnException
<1>3. \A i \in Futures : fut[i] # "pending"
    BY DEF Ends, Books
<1>4. Ends'
    BY <1>3 DEF Ends
<1>5. Cardinality(pending) <= QueueLength
    BY FS_EmptySet, QueueLengthType DEF Ends
<1>6. Barriers'
    BY <1>5 DEF Barriers, Ends, QueueLength
<1> QED
    BY <1>1, <1>2, <1>4, <1>6

(* One more future; the runner goes on to wait for the queue length. *)
LEMMA YieldIInv == ASSUME IInv, Yield, UNCHANGED args PROVE IInv'
<1> USE DEF IInv, Yield
<1>1. /\ yielded \in 0 .. MaxTasks /\ yielded + 1 \in Futures /\ yielded' = yielded + 1
      /\ barrier \in Nat /\ barrier <= yielded
    BY MaxTasksAssumption DEF TypeOK, Futures, Books
<1>2. fut'[yielded + 1] = "pending" /\ \A i \in Futures \ {yielded + 1} : fut'[i] = fut[i]
    BY <1>1 DEF TypeOK
<1>3. TypeOK'
    <2>1. yielded' \in 0 .. MaxTasks
        BY <1>1, MaxTasksAssumption DEF Futures
    <2>2. fut' \in [Futures -> {"new", "pending", "ok", "failed"}] /\ pending' \subseteq Futures
        BY <1>1 DEF TypeOK
    <2>3. target' \in {0, QueueLength'}
        BY DEF QueueLength
    <2> QED
        BY <2>1, <2>2, <2>3 DEF TypeOK
<1>4. Books'
    BY <1>1, <1>2 DEF Books, TypeOK, Futures
<1>5. LookedAt'
    BY <1>1, <1>2 DEF LookedAt, RaiseOnException, Futures
<1>6. Barriers'
    BY <1>1 DEF Barriers, TypeOK, Futures
<1>7. Ends'
    BY DEF Ends
<1> QED
    BY <1>3, <1>4, <1>5, <1>6, <1>7

(* None, or the end of the generator. *)
LEMMA GeneratorIInv == ASSUME IInv, Barrier \/ GeneratorEnds, UNCHANGED args PROVE IInv'
<1> USE DEF IInv, Barrier, GeneratorEnds
<1>1. TypeOK'
    BY DEF TypeOK, QueueLength
<1>2. Books'
    BY DEF Books, TypeOK
<1>3. LookedAt'
    BY DEF LookedAt, RaiseOnException
<1>4. Barriers'
    BY DEF Barriers
<1>5. Ends'
    BY DEF Ends
<1> QED
    BY <1>1, <1>2, <1>3, <1>4, <1>5

(* A turn of wait_pending takes resolved futures out of the pending set, and
   raises for a failed one. *)
LEMMA WaitTurnIInv == ASSUME IInv, WaitTurn, UNCHANGED args PROVE IInv'
<1> USE DEF IInv
<1> DEFINE done == {i \in pending : Resolved(i)}
<1> HIDE DEF done
<1>1. /\ pc \in {"wait", "last"} /\ pending' = pending \ done
      /\ UNCHANGED <<yielded, target, fut, barrier, badGen>>
    BY DEF WaitTurn, done
<1>2. \/ /\ RaiseOnException /\ \E i \in done : fut[i] = "failed"
         /\ pc' = IF pc = "wait" THEN "unwind" ELSE "raised"
      \/ /\ ~ (RaiseOnException /\ \E i \in done : fut[i] = "failed")
         /\ pc' = pc
    BY DEF WaitTurn, done
<1>3. done \subseteq Futures /\ \A i \in done : fut[i] \in {"ok", "failed"}
    BY DEF done, Resolved, TypeOK
<1>4. TypeOK'
    BY <1>1, <1>2 DEF TypeOK, QueueLength
<1>5. Books'
    BY <1>1, <1>3 DEF Books
<1>6. LookedAt'
    <2> SUFFICES ASSUME RaiseOnException, pc' \notin {"unwind", "raised"},
                        NEW i \in Futures, i <= yielded, i \notin pending \ done
                 PROVE  fut[i] = "ok"
        BY <1>1 DEF LookedAt, RaiseOnException
    <2>1. \A j \in done : fut[j] = "ok"
        BY <1>2, <1>3
    <2> QED
        BY <1>1, <2>1 DEF LookedAt
<1>7. Barriers'
    BY <1>1, <1>2 DEF Barriers
<1>8. Ends'
    BY <1>1, <1>2, <1>3 DEF Ends, RaiseOnException
<1> QED
    BY <1>4, <1>5, <1>6, <1>7, <1>8

(* The wait is over: few enough are pending, or none for a barrier. *)
LEMMA WaitOverIInv == ASSUME IInv, WaitOver, UNCHANGED args PROVE IInv'
<1> USE DEF IInv
<1>1. /\ Cardinality(pending) <= target
      /\ \/ pc = "wait" /\ pc' = "generate"
         \/ pc = "last" /\ pc' = "returned"
      /\ UNCHANGED <<yielded, pending, target, fut, barrier, badGen>>
    BY DEF WaitOver
<1>2. TypeOK'
    BY <1>1 DEF TypeOK, QueueLength
<1>3. Books' /\ LookedAt'
    BY <1>1 DEF Books, LookedAt, RaiseOnException
<1>4. target = 0 => pending = {}
    BY <1>1, NoneLeft DEF TypeOK
<1>5. Cardinality(pending) \in Nat /\ QueueLength \in Nat /\ target \in {0, QueueLength}
    BY SetsAreFinite, QueueLengthType DEF TypeOK
<1>6. Cardinality(pending) <= QueueLength
    BY <1>1, <1>5
<1>7. Barriers'
    BY <1>1, <1>4, <1>6 DEF Barriers, QueueLength
<1>8. Ends'
    BY <1>1, <1>4 DEF Ends
<1> QED
    BY <1>2, <1>3, <1>7, <1>8

(* The executor's with block is left when nothing runs. *)
LEMMA LeaveIInv == ASSUME IInv, Leave, UNCHANGED args PROVE IInv'
<1> USE DEF IInv
<1>1. /\ \A i \in Futures : fut[i] # "pending"
      /\ \/ pc = "leave" /\ pc' = "last" /\ target' = 0
         \/ pc = "unwind" /\ pc' = "raised" /\ target' = target
      /\ UNCHANGED <<yielded, pending, fut, barrier, badGen>>
    BY DEF Leave
<1>2. TypeOK'
    BY <1>1 DEF TypeOK, QueueLength
<1>3. Books' /\ LookedAt'
    BY <1>1 DEF Books, LookedAt, RaiseOnException
<1>4. Barriers' /\ Ends'
    BY <1>1 DEF Barriers, Ends, RaiseOnException
<1> QED
    BY <1>2, <1>3, <1>4

(* A task ends; nothing else moves. *)
LEMMA TaskEndsIInv == ASSUME IInv, NEW i \in Futures, TaskEnds(i) PROVE IInv'
<1> USE DEF IInv
<1>1. fut[i] = "pending" /\ UNCHANGED <<args, pc, yielded, pending, target, barrier, badGen>>
    BY DEF TaskEnds
<1>2. PICK r \in {"ok", "failed"} : fut' = [fut EXCEPT ![i] = r]
    BY DEF TaskEnds
<1>3. fut'[i] = r /\ \A j \in Futures \ {i} : fut'[j] = fut[j]
    BY <1>2 DEF TypeOK
<1>4. i \in pending
    BY <1>1 DEF Books
<1>5. TypeOK'
    BY <1>1, <1>2 DEF TypeOK, QueueLength
<1>6. Books'
    BY <1>1, <1>3 DEF Books
<1>7. LookedAt'
    BY <1>1, <1>3, <1>4 DEF LookedAt, RaiseOnException
<1>8. Barriers'
    BY <1>1 DEF Barriers, QueueLength
<1>9. Ends'
    BY <1>1, <1>3 DEF Ends, RaiseOnException
<1> QED
    BY <1>5, <1>6, <1>7, <1>8, <1>9

(* Every turn of the loop, and every future that ends, keeps the invariant. *)
LEMMA NextIInv == IInv /\ [Next]_vars => IInv'
<1> SUFFICES ASSUME IInv, [Next]_vars PROVE IInv'
    OBVIOUS
<1>1. CASE RunnerStep
    BY <1>1, StartIInv, WaitTurnIInv, WaitOverIInv, LeaveIInv DEF RunnerStep
<1>2. CASE GeneratorStep
    BY <1>2, YieldIInv, GeneratorIInv DEF GeneratorStep
<1>3. ASSUME NEW i \in Futures, TaskEnds(i) PROVE IInv'
    BY <1>3, TaskEndsIInv
<1>4. CASE UNCHANGED vars
    BY <1>4 DEF vars, IInv, TypeOK, Books, LookedAt, Barriers, Ends, QueueLength, RaiseOnException
<1> QED
    BY <1>1, <1>2, <1>3, <1>4 DEF Next

-----------------------------------------------------------------------------

(* The invariant holds in every reachable state of run_in_workers. *)
THEOREM Invariance == Spec => []IInv
<1>1. Init => IInv
    BY InitIInv
<1>2. IInv /\ [Next]_vars => IInv'
    BY NextIInv
<1> QED
    BY <1>1, <1>2, PTL DEF Spec

(* Every variable of run_in_workers keeps its type. *)
THEOREM TypeCorrect == Spec => []TypeOK
<1>1. IInv => TypeOK
    BY DEF IInv
<1> QED
    BY <1>1, Invariance, PTL

(* The generator is resumed only when at most task_queue_length of its tasks
   can still run, and behind a None only when every task before it is over --
   and succeeded, if exceptions are raised. *)
THEOREM GeneratorIsHeldBack == Spec => []ResumesInTime
<1>1. IInv => ResumesInTime
    <2> SUFFICES ASSUME IInv, pc = "generate" PROVE ResumesInTime
        BY DEF ResumesInTime
    <2> USE DEF IInv
    <2> DEFINE running == {i \in Futures : fut[i] = "pending"}
    <2> HIDE DEF running
    <2>1. running \subseteq pending
        BY DEF Books, running
    <2>2. Cardinality(running) \in Nat /\ Cardinality(pending) \in Nat
          /\ Cardinality(running) <= Cardinality(pending)
        BY <2>1, SetsAreFinite, FS_Subset DEF TypeOK
    <2>3. Cardinality(running) <= QueueLength
        BY <2>2, QueueLengthType DEF Barriers
    <2>4. ASSUME NEW i \in 1 .. barrier
          PROVE  IF RaiseOnException THEN fut[i] = "ok" ELSE Resolved(i)
        <3>1. i \in Futures /\ i <= yielded
            BY MaxTasksAssumption DEF TypeOK, Books, Futures
        <3>2. i \notin pending
            BY <3>1 DEF Barriers, TypeOK, Futures
        <3>3. fut[i] \in {"ok", "failed"}
            BY <3>1, <3>2 DEF Books, TypeOK, Futures
        <3> QED
            BY <3>1, <3>2, <3>3 DEF LookedAt, Resolved
    <2> QED
        BY <2>3, <2>4 DEF ResumesInTime, running
<1> QED
    BY <1>1, Invariance, PTL

(* Nothing runs when the call is over; a normal return hides no failure and an
   exception has a cause. *)
THEOREM CallEndsClean == Spec => []EndIsClean
<1>1. IInv => EndIsClean
    <2> SUFFICES ASSUME IInv PROVE EndIsClean
        OBVIOUS
    <2> USE DEF IInv
    <2>1. ASSUME pc = "returned", NEW i \in 1 .. yielded, RaiseOnException PROVE fut[i] = "ok"
        <3>1. i \in Futures /\ i <= yielded
            <4>1. yielded \in Nat /\ yielded <= MaxTasks
                BY MaxTasksAssumption DEF TypeOK
            <4> QED
                BY <4>1, MaxTasksAssumption DEF Futures
        <3> QED
            BY <2>1, <3>1 DEF LookedAt, Ends
    <2> QED
        BY <2>1 DEF EndIsClean, Ends
<1> QED
    BY <1>1, Invariance, PTL
=============================================================================
