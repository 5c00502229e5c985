------------------------ MODULE LokyExecutor_proofs ------------------------
(***************************************************************************)
(* LokyExecutor for any number of workers and items, any retirement count  *)
(* and any bounds: no more than max_workers workers live, and one that leaves; *)
(* only as many are started as items and timeouts explain, a clean exit is *)
(* never taken for a crash, and every item is in one place until it ends.  *)
(***************************************************************************)
EXTENDS LokyExecutor, FiniteSetTheorems, TLAPS

(* The with statement has not asked the workers to stop and none was found
   dead: only now is work given out and are workers started. *)
Working == ~broken /\ main \notin {"stopping", "closed"}

(* The states of workers and items fit what they hold. *)
Books ==
    /\ \A i \in Ids : fut[i] = "new" <=> i > submitted
    /\ Range(results) \subseteq ({"done"} \X Ids) \cup ({"pid", "trace"} \X Workers)
    /\ \A w \in Workers :
           /\ worker[w] = "unborn" <=> w > spawned
           /\ worker[w] = "running" <=> running[w] # 0
           /\ worker[w] \in {"unborn", "starting"} => completed[w] = 0
           /\ worker[w] \in {"idle", "running"} => completed[w] = 0 \/ completed[w] < RetireAfter
           /\ worker[w] = "finished" => completed[w] > 0

(* A worker leaves the registry and has its exit lock released together, and
   not before it announced its exit; one found dead in the registry failed. *)
Registry ==
    /\ processes \subseteq 1 .. spawned /\ released \subseteq 1 .. spawned
    /\ Working => /\ processes = (1 .. spawned) \ released
                  /\ failures = 0 => \A w \in processes : worker[w] # "exited"
    /\ \A w \in Workers :
           /\ <<"pid", w>> \in Range(results) => worker[w] = "retiring" \/ w \in released
           /\ <<"trace", w>> \in Range(results) => failures > 0
    /\ joining # 0 => Working
    /\ broken => /\ main # "new"
                 /\ workIds = <<>> /\ callQueue = <<>> /\ results = <<>>
                 /\ \A w \in Workers : worker[w] \in {"unborn", "exited"}
                 /\ \A i \in Ids : fut[i] # "pending"

(* A worker that left either took an item or timed out: this bounds how many
   are ever started. *)
Used == {w \in Workers : completed[w] > 0 \/ running[w] # 0}
Left == {w \in Workers : worker[w] = "retiring" \/ w \in released}
Spending ==
    /\ Cardinality(Used) + Len(callQueue) + Len(workIds) <= submitted
    /\ Working => Cardinality(Left \ Used) <= timeouts
    /\ spawned <= MaxWorkers + submitted + timeouts

(* An item is in one place while it is pending, a failure may lose it, and in
   none before and after. *)
Placed ==
    \A i \in Ids :
        /\ Places(i) <= 1
        /\ fut[i] # "pending" => Places(i) = 0
        /\ fut[i] = "pending" /\ failures = 0 => Places(i) = 1

(* _adjust_process_count starts no more than are missing in the registry. *)
AtMostMaxWorkers == Cardinality(processes) <= MaxWorkers

(* A worker process is registered or being joined: this bounds those that live. *)
Known == \A w \in Workers : w \in Live => w \in processes \/ w = joining

IInv == TypeOK /\ Books /\ Registry /\ AtMostMaxWorkers /\ CleanRetirement /\ Spending /\ Placed

-----------------------------------------------------------------------------
(* How often an entry occurs in a queue, and what each queue operation does to
   that count. *)
At(s, x) == {k \in DOMAIN s : s[k] = x}
One(x, y) == IF x = y THEN 1 ELSE 0

(* A set that gains at most one element is at most one larger. *)
LEMMA AtMostOneMore ==
    ASSUME NEW S, IsFiniteSet(S), NEW x, NEW T, T \subseteq S \cup {x}
    PROVE  IsFiniteSet(T) /\ Cardinality(T) \in Nat /\ Cardinality(T) <= Cardinality(S) + 1
<1> DEFINE U == S \cup {x}
<1>1. /\ IsFiniteSet(U)
      /\ Cardinality(U) = IF x \in S THEN Cardinality(S) ELSE Cardinality(S) + 1
    BY FS_AddElement
<1> HIDE DEF U
<1>2. IsFiniteSet(T) /\ Cardinality(T) <= Cardinality(U)
    BY <1>1, FS_Subset DEF U
<1>3. Cardinality(T) \in Nat /\ Cardinality(U) \in Nat /\ Cardinality(S) \in Nat
    BY <1>1, <1>2, FS_CardinalityType
<1> QED
    BY <1>1, <1>2, <1>3

(* Append adds its element to the entries. *)
LEMMA RangeAppend ==
    ASSUME NEW S, NEW s \in Seq(S), NEW e \in S
    PROVE  Range(Append(s, e)) = Range(s) \cup {e}
<1>1. /\ DOMAIN Append(s, e) = 1 .. Len(s) + 1 /\ DOMAIN s = 1 .. Len(s) /\ Len(s) \in Nat
      /\ \A k \in 1 .. Len(s) : Append(s, e)[k] = s[k]
      /\ Append(s, e)[Len(s) + 1] = e
    OBVIOUS
<1> QED
    BY <1>1 DEF Range

(* Tail takes entries away and adds none; the head was one. *)
LEMMA RangeTail ==
    ASSUME NEW S, NEW s \in Seq(S), s # <<>>
    PROVE  Range(Tail(s)) \subseteq Range(s) /\ Head(s) \in Range(s)
<1>1. /\ Len(s) \in Nat \ {0} /\ DOMAIN s = 1 .. Len(s) /\ Head(s) = s[1]
      /\ DOMAIN Tail(s) = 1 .. Len(s) - 1
      /\ \A k \in 1 .. Len(s) - 1 : Tail(s)[k] = s[k + 1]
    OBVIOUS
<1> QED
    BY <1>1 DEF Range

(* An empty queue has no entries. *)
LEMMA RangeEmpty == Range(<<>>) = {}
    BY DEF Range

(* Occurrences can be counted. *)
LEMMA AtCount ==
    ASSUME NEW S, NEW s \in Seq(S), NEW x
    PROVE  IsFiniteSet(At(s, x)) /\ Cardinality(At(s, x)) \in Nat
<1>1. At(s, x) \subseteq 1 .. Len(s)
    BY DEF At
<1>2. IsFiniteSet(1 .. Len(s))
    BY FS_Interval
<1> QED
    BY <1>1, <1>2, FS_Subset, FS_CardinalityType

(* Nothing occurs in an empty queue. *)
LEMMA AtEmpty ==
    ASSUME NEW x
    PROVE  Cardinality(At(<<>>, x)) = 0
<1>1. At(<<>>, x) = {}
    BY DEF At
<1> QED
    BY <1>1, FS_EmptySet

(* Append: one more occurrence of its element. *)
LEMMA AtAppend ==
    ASSUME NEW S, NEW s \in Seq(S), NEW e \in S, NEW x
    PROVE  Cardinality(At(Append(s, e), x)) = Cardinality(At(s, x)) + One(e, x)
<1>1. IsFiniteSet(At(s, x)) /\ Cardinality(At(s, x)) \in Nat
    BY AtCount
<1>2. /\ DOMAIN Append(s, e) = 1 .. Len(s) + 1 /\ DOMAIN s = 1 .. Len(s) /\ Len(s) \in Nat
      /\ \A k \in 1 .. Len(s) : Append(s, e)[k] = s[k]
      /\ Append(s, e)[Len(s) + 1] = e
    OBVIOUS
<1>3. CASE e = x
    <2>1. At(Append(s, e), x) = At(s, x) \cup {Len(s) + 1}
        BY <1>2, <1>3 DEF At
    <2>2. Len(s) + 1 \notin At(s, x)
        BY <1>2 DEF At
    <2> QED
        BY <1>1, <1>3, <2>1, <2>2, FS_AddElement DEF One
<1>4. CASE e # x
    <2>1. At(Append(s, e), x) = At(s, x)
        BY <1>2, <1>4 DEF At
    <2> QED
        BY <1>1, <1>4, <2>1 DEF One
<1> QED
    BY <1>3, <1>4

(* Tail: one less of the head. *)
LEMMA AtTail ==
    ASSUME NEW S, NEW s \in Seq(S), s # <<>>, NEW x
    PROVE  Cardinality(At(Tail(s), x)) = Cardinality(At(s, x)) - One(Head(s), x)
<1> DEFINE T == At(Tail(s), x)
           R == At(s, x) \ {1}
           shift == [k \in R |-> k - 1]
<1>1. /\ Len(s) \in Nat \ {0} /\ DOMAIN s = 1 .. Len(s) /\ Head(s) = s[1]
      /\ Tail(s) \in Seq(S) /\ DOMAIN Tail(s) = 1 .. Len(s) - 1
      /\ \A k \in 1 .. Len(s) - 1 : Tail(s)[k] = s[k + 1]
    OBVIOUS
<1>2. IsFiniteSet(At(s, x)) /\ Cardinality(At(s, x)) \in Nat
    BY AtCount
<1>3. R = {k \in 2 .. Len(s) : s[k] = x} /\ T = {k \in 1 .. Len(s) - 1 : s[k + 1] = x}
    BY <1>1 DEF At
<1>4. IsFiniteSet(R)
    BY <1>2, FS_RemoveElement
<1>5. shift \in [R -> T]
    BY <1>1, <1>3
<1>6. \A j, k \in R : shift[j] = shift[k] => j = k
    BY <1>1, <1>3
<1>7. \A t \in T : t + 1 \in R /\ shift[t + 1] = t
    BY <1>1, <1>3
<1>8. shift \in Bijection(R, T)
    BY <1>5, <1>6, <1>7 DEF Bijection, Injection, Surjection, IsInjective
<1>9. Cardinality(T) = Cardinality(R)
    BY <1>4, <1>8, FS_Bijection DEF ExistsBijection
<1>10. Cardinality(R) = Cardinality(At(s, x)) - One(Head(s), x)
    <2>1. 1 \in At(s, x) <=> s[1] = x
        BY <1>1 DEF At
    <2>2. Cardinality(R) = IF s[1] = x THEN Cardinality(At(s, x)) - 1 ELSE Cardinality(At(s, x))
        BY <1>2, <2>1, FS_RemoveElement
    <2> HIDE DEF R
    <2> QED
        BY <1>1, <1>2, <2>2 DEF One
<1> QED
    BY <1>9, <1>10

(* A function that changes at one place. *)
LEMMA AtExcept ==
    ASSUME NEW f, IsFiniteSet(DOMAIN f), NEW g, DOMAIN g = DOMAIN f,
           NEW d \in DOMAIN f, \A y \in DOMAIN f : y # d => g[y] = f[y], NEW x
    PROVE  Cardinality(At(g, x)) = Cardinality(At(f, x)) - One(f[d], x) + One(g[d], x)
<1> DEFINE A == At(f, x)
           B == At(g, x)
<1>1. A \ {d} = B \ {d} /\ A \subseteq DOMAIN f /\ B \subseteq DOMAIN f
    BY DEF At
<1>2. (d \in A <=> f[d] = x) /\ (d \in B <=> g[d] = x)
    BY DEF At
<1>3. IsFiniteSet(A) /\ IsFiniteSet(B)
    BY <1>1, FS_Subset
<1>4. Cardinality(A) \in Nat /\ Cardinality(B) \in Nat
    BY <1>3, FS_CardinalityType
<1> HIDE DEF A, B
<1>5. Cardinality(A \ {d}) = IF f[d] = x THEN Cardinality(A) - 1 ELSE Cardinality(A)
    BY <1>2, <1>3, FS_RemoveElement
<1>6. Cardinality(B \ {d}) = IF g[d] = x THEN Cardinality(B) - 1 ELSE Cardinality(B)
    BY <1>2, <1>3, FS_RemoveElement
<1>7. Cardinality(A \ {d}) = Cardinality(B \ {d})
    BY <1>1
<1>8. Cardinality(B) = Cardinality(A) - One(f[d], x) + One(g[d], x)
    <2>1. CASE f[d] = x /\ g[d] = x
        BY <1>4, <1>5, <1>6, <1>7, <2>1 DEF One
    <2>2. CASE f[d] = x /\ g[d] # x
        BY <1>4, <1>5, <1>6, <1>7, <2>2 DEF One
    <2>3. CASE f[d] # x /\ g[d] = x
        BY <1>4, <1>5, <1>6, <1>7, <2>3 DEF One
    <2>4. CASE f[d] # x /\ g[d] # x
        BY <1>4, <1>5, <1>6, <1>7, <2>4 DEF One
    <2> QED
        BY <2>1, <2>2, <2>3, <2>4
<1> QED
    BY <1>4, <1>8 DEF A, B

(* The constants are numbers, and there are finitely many workers. *)
LEMMA Constants ==
    /\ MaxWorkers \in Nat /\ MaxWorkers > 0 /\ RetireAfter \in Nat /\ MaxWork \in Nat
    /\ MaxTimeouts \in Nat /\ MaxFailures \in Nat /\ QueueSize \in Nat /\ MaxSpawn \in Nat
    /\ IsFiniteSet(Workers)
<1>1. /\ MaxWorkers \in Nat /\ MaxWorkers > 0 /\ RetireAfter \in Nat /\ MaxWork \in Nat
      /\ MaxTimeouts \in Nat /\ MaxFailures \in Nat /\ QueueSize \in Nat
    BY WorkersAssumption, RetireAssumption, BoundsAssumption
<1>2. MaxSpawn \in Nat
    BY <1>1 DEF MaxSpawn
<1>3. IsFiniteSet(1 .. MaxSpawn)
    BY <1>2, FS_Interval
<1> QED
    BY <1>1, <1>2, <1>3 DEF Workers

-----------------------------------------------------------------------------
(* Starting workers.  All those that left the registry took an item or timed
   out, so the workers numbered above spawned suffice. *)

(* While workers are put to work, every worker ever started is registered or left:
   because it took an item or timed out. *)
LEMMA StartedAreExplained ==
    ASSUME IInv, Working
    PROVE  spawned <= Cardinality(processes) + submitted + timeouts
<1>1. /\ spawned \in Nat /\ submitted \in Nat /\ timeouts \in Nat
      /\ processes \subseteq Workers /\ released \subseteq Workers
      /\ Len(callQueue) \in Nat /\ Len(workIds) \in Nat
    BY Constants DEF IInv, TypeOK
<1>2. Left \subseteq Workers /\ Used \subseteq Workers
    BY DEF Left, Used
<1>3. /\ IsFiniteSet(processes) /\ Cardinality(processes) \in Nat
      /\ IsFiniteSet(released) /\ Cardinality(released) \in Nat
      /\ IsFiniteSet(Left) /\ Cardinality(Left) \in Nat
      /\ IsFiniteSet(Used) /\ Cardinality(Used) \in Nat
      /\ IsFiniteSet(Left \ Used) /\ Cardinality(Left \ Used) \in Nat
    BY <1>1, <1>2, Constants, FS_Subset, FS_CardinalityType
<1>4. spawned <= Cardinality(processes) + Cardinality(released)
    <2>1. 1 .. spawned = processes \cup released
        BY DEF IInv, Registry
    <2>2. Cardinality(1 .. spawned) = spawned
        BY <1>1, FS_Interval
    <2>3. Cardinality(processes \cup released) <= Cardinality(processes) + Cardinality(released)
        <3>1. Cardinality(processes \cap released) \in Nat
            BY <1>3, FS_Intersection, FS_CardinalityType
        <3>2. Cardinality(processes \cup released)
                = Cardinality(processes) + Cardinality(released) - Cardinality(processes \cap released)
            BY <1>3, FS_Union
        <3> QED
            BY <1>3, <3>1, <3>2
    <2> QED
        BY <2>1, <2>2, <2>3
<1>5. Cardinality(released) <= Cardinality(Left)
    <2>1. released \subseteq Left
        BY <1>1 DEF Left
    <2> QED
        BY <1>3, <2>1, FS_Subset
<1>6. Cardinality(Left) <= Cardinality(Left \ Used) + Cardinality(Used)
    <2>1. IsFiniteSet(Left \cap Used) /\ Cardinality(Left \cap Used) <= Cardinality(Used)
        BY <1>3, FS_Subset
    <2>2. Cardinality(Left \cap Used) \in Nat
        BY <2>1, FS_CardinalityType
    <2>3. Cardinality(Left \ Used) = Cardinality(Left) - Cardinality(Left \cap Used)
        BY <1>3, FS_Difference
    <2> QED
        BY <1>3, <2>1, <2>2, <2>3
<1>7. Cardinality(Left \ Used) <= timeouts /\ Cardinality(Used) <= submitted
    BY <1>1, <1>3 DEF IInv, Spending
<1> QED
    BY <1>1, <1>3, <1>4, <1>5, <1>6, <1>7

(* _adjust_process_count starts workers up to max_workers and no more than the
   bound of the model. *)
LEMMA Spawning ==
    ASSUME IInv, Working, AdjustProcessCount,
           NEW n \in Nat, submitted <= n, n <= MaxWork
    PROVE  /\ spawned' \in spawned .. MaxSpawn
           /\ spawned' <= MaxWorkers + n + timeouts
           /\ processes' = processes \cup (spawned + 1 .. spawned')
           /\ worker' = [w \in Workers |->
                            IF w \in spawned + 1 .. spawned' THEN "starting" ELSE worker[w]]
           /\ AtMostMaxWorkers'
<1> DEFINE p     == Cardinality(processes)
           fresh == spawned + 1 .. spawned + MaxWorkers - p
<1>1. /\ spawned \in Nat /\ submitted \in 0 .. MaxWork /\ timeouts \in 0 .. MaxTimeouts
      /\ processes \subseteq Workers /\ processes \subseteq 1 .. spawned
    BY Constants DEF IInv, TypeOK, Registry
<1>2. IsFiniteSet(processes) /\ p \in 0 .. MaxWorkers
    <2>1. IsFiniteSet(processes)
        BY <1>1, Constants, FS_Subset
    <2>2. p \in Nat
        BY <2>1, FS_CardinalityType
    <2>3. p <= MaxWorkers
        BY DEF IInv, AtMostMaxWorkers
    <2> QED
        BY <2>1, <2>2, <2>3, Constants
<1> HIDE DEF p
<1>3. IsFiniteSet(fresh) /\ Cardinality(fresh) = MaxWorkers - p
    <2> DEFINE last == spawned + MaxWorkers - p
    <2>1. /\ spawned + 1 \in Int /\ last \in Int
          /\ spawned + 1 > last => MaxWorkers - p = 0
          /\ last - (spawned + 1) + 1 = MaxWorkers - p
        BY <1>1, <1>2, Constants
    <2> HIDE DEF last
    <2>2. /\ IsFiniteSet(spawned + 1 .. last)
          /\ Cardinality(spawned + 1 .. last)
               = IF spawned + 1 > last THEN 0 ELSE last - (spawned + 1) + 1
        BY <2>1, FS_Interval
    <2> QED
        BY <2>1, <2>2 DEF last
<1>4. spawned' = spawned + MaxWorkers - p
    BY <1>1, <1>2, <1>3, Constants DEF AdjustProcessCount, p
<1>5. fresh = spawned + 1 .. spawned'
    BY <1>4
<1>6. spawned <= p + submitted + timeouts
    BY StartedAreExplained DEF p
<1>7. spawned' <= MaxWorkers + n + timeouts /\ spawned' \in spawned .. MaxSpawn
    <2>1. /\ MaxWorkers \in Nat /\ timeouts \in Nat /\ submitted \in Nat
          /\ submitted <= n /\ n <= MaxWork /\ timeouts <= MaxTimeouts
          /\ MaxSpawn = MaxWorkers + MaxWork + MaxTimeouts /\ MaxWork \in Nat /\ MaxTimeouts \in Nat
        BY <1>1, Constants DEF MaxSpawn
    <2>2. spawned' \in Int /\ spawned <= spawned' /\ spawned \in Nat /\ p \in Nat
        BY <1>1, <1>2, <1>4, <2>1
    <2>3. spawned' <= MaxWorkers + n + timeouts
        BY <1>4, <1>6, <2>1, <2>2
    <2>4. spawned' <= MaxSpawn
        BY <2>1, <2>2, <2>3
    <2> QED
        BY <2>1, <2>2, <2>3, <2>4
<1>8. /\ processes' = processes \cup fresh
      /\ worker' = [w \in Workers |-> IF w \in fresh THEN "starting" ELSE worker[w]]
    BY DEF AdjustProcessCount, p
<1>9. Cardinality(processes \cup fresh) <= MaxWorkers
    <2>1. processes \cap fresh = {}
        BY <1>1, <1>2, Constants
    <2>2. Cardinality(processes \cap fresh) = 0
        BY <2>1, FS_EmptySet
    <2> HIDE DEF fresh
    <2>3. Cardinality(processes \cup fresh) = p + Cardinality(fresh) - Cardinality(processes \cap fresh)
        BY <1>2, <1>3, FS_Union DEF p
    <2> QED
        BY <1>2, <1>3, <2>2, <2>3, Constants
<1> QED
    BY <1>5, <1>7, <1>8, <1>9 DEF AtMostMaxWorkers

(* What a started worker leaves as it was. *)
LEMMA SpawningTypes ==
    ASSUME IInv, Working, AdjustProcessCount, NEW n \in Nat, submitted <= n, n <= MaxWork
    PROVE  /\ spawned' \in 0 .. MaxSpawn /\ spawned' >= spawned
           /\ processes' \subseteq Workers
           /\ worker' \in [Workers -> WorkerStates]
           /\ \A w \in Workers : worker'[w] # worker[w] =>
                  worker[w] = "unborn" /\ worker'[w] = "starting"
           /\ \A w \in Workers : worker'[w] = "unborn" <=> w > spawned'
           /\ \A w \in processes' \ processes : worker'[w] = "starting"
<1>1. /\ spawned \in Nat /\ MaxSpawn \in Nat /\ processes \subseteq Workers
      /\ worker \in [Workers -> WorkerStates]
      /\ \A w \in Workers : worker[w] = "unborn" <=> w > spawned
    BY Constants DEF IInv, TypeOK, Books
<1>2. /\ spawned' \in spawned .. MaxSpawn
      /\ processes' = processes \cup (spawned + 1 .. spawned')
      /\ worker' = [w \in Workers |->
                       IF w \in spawned + 1 .. spawned' THEN "starting" ELSE worker[w]]
    BY Spawning
<1>3. spawned + 1 .. spawned' \subseteq Workers
    BY <1>1, <1>2 DEF Workers
<1> QED
    BY <1>1, <1>2, <1>3 DEF WorkerStates, Workers

-----------------------------------------------------------------------------
(* Types and books. *)

(* What the manager thread reads is a result or the notice of a worker. *)
LEMMA HeadOfResults ==
    ASSUME IInv, results # <<>>
    PROVE  /\ Head(results) \in Range(results) /\ Range(Tail(results)) \subseteq Range(results)
           /\ Head(results)[1] = "done" =>
                  Head(results)[2] \in Ids /\ Head(results) = <<"done", Head(results)[2]>>
           /\ Head(results)[1] \in {"pid", "trace"} =>
                  /\ Head(results)[2] \in Workers
                  /\ Head(results) = <<Head(results)[1], Head(results)[2]>>
<1>1. Head(results) \in Range(results) /\ Range(Tail(results)) \subseteq Range(results)
    BY RangeTail DEF IInv, TypeOK
<1>2. Head(results) \in ({"done"} \X Ids) \cup ({"pid", "trace"} \X Workers)
    BY <1>1 DEF IInv, Books
<1> QED
    BY <1>1, <1>2

(* Initially no worker is started. *)
LEMMA InitIInv == ASSUME Init PROVE IInv
<1> USE DEF Init
<1>1. TypeOK
    <2>1. /\ submitted \in 0 .. MaxWork /\ spawned \in 0 .. MaxSpawn
          /\ timeouts \in 0 .. MaxTimeouts /\ failures \in 0 .. MaxFailures
          /\ \A w \in Workers : completed[w] \in 0 .. RetireAfter + 1 /\ completed[w] <= RetireAfter
        BY Constants
    <2>2. /\ <<>> \in Seq(Ids) /\ <<>> \in Seq({"done", "pid", "trace"} \X (Ids \cup Workers))
          /\ Len(<<>>) <= QueueSize
        BY Constants
    <2> QED
        BY <2>1, <2>2 DEF TypeOK, MainStates, WorkerStates
<1>2. Books
    <2>1. \A i \in Ids : fut[i] = "new" /\ i > submitted
        BY Constants DEF Ids
    <2>2. \A w \in Workers : worker[w] = "unborn" /\ running[w] = 0 /\ completed[w] = 0 /\ w > spawned
        BY Constants DEF Workers
    <2> QED
        BY <2>1, <2>2, RangeEmpty DEF Books
<1>3. Registry
    BY RangeEmpty, Constants DEF Registry
<1>4. AtMostMaxWorkers /\ CleanRetirement
    BY FS_EmptySet, Constants DEF AtMostMaxWorkers, CleanRetirement
<1>5. Spending
    <2>1. Used = {} /\ Left = {}
        BY Constants DEF Used, Left
    <2>2. Cardinality(Used) = 0 /\ Cardinality(Left \ Used) = 0
        BY <2>1, FS_EmptySet
    <2> QED
        BY <2>2, Constants DEF Spending
<1>6. Placed
    <2> SUFFICES ASSUME NEW i \in Ids PROVE Places(i) = 0 /\ fut[i] = "new"
        BY DEF Placed
    <2>1. i # 0
        BY Constants DEF Ids
    <2>2. /\ {k \in DOMAIN workIds : workIds[k] = i} = {}
          /\ {k \in DOMAIN callQueue : callQueue[k] = i} = {}
          /\ {w \in Workers : running[w] = i} = {}
          /\ {k \in DOMAIN results : results[k] = <<"done", i>>} = {}
        BY <2>1
    <2>3. Cardinality({}) = 0
        BY FS_EmptySet
    <2>4. Places(i) = 0 + 0 + 0 + 0
        BY <2>2, <2>3 DEF Places
    <2> QED
        BY <2>4
<1> QED
    BY <1>1, <1>2, <1>3, <1>4, <1>5, <1>6 DEF IInv

Spawns == Enter \/ WarmUpSubmits \/ Submit \/ Joined
Parent == Warm \/ EnterRaises \/ Exit \/ StopWorkers \/ Closed
Acts(w) == \/ Initialized(w) \/ InitializerRaises(w) \/ Take(w) \/ TakeRaises(w) \/ LeaveIdle(w)
           \/ Run(w) \/ Retire(w) \/ Continue(w) \/ Leave(w)
Reads == FeedCallQueue \/ ReadResult \/ ReadPid \/ Break

(* A step that starts workers comes while work is done, and submits at most
   one item more. *)
LEMMA SpawnsFacts ==
    ASSUME IInv, Spawns
    PROVE  /\ Working /\ Working'
           /\ UNCHANGED <<callQueue, results, running, completed, released, broken, timeouts, failures>>
           /\ \/ AdjustProcessCount /\ UNCHANGED <<submitted, fut, workIds>>
              \/ SubmitItem
              \/ UNCHANGED <<submitted, fut, workIds, spawned, processes, worker>>
           /\ joining' \in {0, joining} /\ main' \in MainStates
<1> USE DEF Working, mainVars, queueVars, workerVars, spawnVars, managerVars, limitVars
<1>1. main = "new" => ~broken
    BY DEF IInv, Registry
<1>2. main \in MainStates
    BY DEF IInv, TypeOK
<1>3. CASE Enter
    BY <1>1, <1>3 DEF Enter, MainStates
<1>4. CASE WarmUpSubmits \/ Submit
    BY <1>2, <1>4 DEF WarmUpSubmits, Submit, SubmitItem
<1>5. CASE Joined
    BY <1>2, <1>5 DEF Joined, IInv, Registry
<1> QED
    BY <1>3, <1>4, <1>5 DEF Spawns

(* What submit and the manager thread do when they start workers. *)
LEMMA SpawnsEffect ==
    ASSUME IInv, Spawns
    PROVE  /\ submitted' \in 0 .. MaxWork /\ spawned' \in 0 .. MaxSpawn
           /\ spawned' >= spawned /\ spawned' <= MaxWorkers + submitted' + timeouts
           /\ processes' = processes \cup (spawned + 1 .. spawned') /\ processes' \subseteq Workers
           /\ worker' \in [Workers -> WorkerStates]
           /\ \A w \in Workers : worker'[w] # worker[w] =>
                  worker[w] = "unborn" /\ worker'[w] = "starting"
           /\ \A w \in Workers : worker'[w] = "unborn" <=> w > spawned'
           /\ \A w \in processes' \ processes : worker'[w] = "starting"
           /\ AtMostMaxWorkers'
<1>1. /\ submitted \in 0 .. MaxWork /\ spawned \in 0 .. MaxSpawn /\ timeouts \in 0 .. MaxTimeouts
      /\ MaxWork \in Nat /\ MaxSpawn \in Nat /\ spawned <= MaxWorkers + submitted + timeouts
    BY Constants DEF IInv, TypeOK, Spending
<1>2. Working
    BY SpawnsFacts
<1>3. CASE AdjustProcessCount /\ UNCHANGED <<submitted, fut, workIds>>
    <2>1. submitted \in Nat /\ submitted <= submitted /\ submitted <= MaxWork
        BY <1>1
    <2>2. /\ spawned' <= MaxWorkers + submitted + timeouts
          /\ processes' = processes \cup (spawned + 1 .. spawned')
          /\ AtMostMaxWorkers'
        BY <1>2, <1>3, <2>1, Spawning
    <2> QED
        BY <1>1, <1>2, <1>3, <2>1, <2>2, SpawningTypes
<1>4. CASE SubmitItem
    <2> DEFINE n == submitted + 1
    <2>1. n \in Nat /\ submitted <= n /\ n <= MaxWork /\ submitted' = n /\ AdjustProcessCount
        BY <1>1, <1>4 DEF SubmitItem
    <2> HIDE DEF n
    <2>2. /\ spawned' <= MaxWorkers + n + timeouts
          /\ processes' = processes \cup (spawned + 1 .. spawned')
          /\ AtMostMaxWorkers'
        BY <1>2, <2>1, Spawning
    <2> QED
        BY <1>1, <1>2, <2>1, <2>2, SpawningTypes
<1>5. CASE UNCHANGED <<submitted, fut, workIds, spawned, processes, worker>>
    <2>1. spawned + 1 .. spawned = {}
        BY <1>1
    <2> QED
        BY <1>1, <1>5, <2>1 DEF IInv, TypeOK, Books, AtMostMaxWorkers
<1> QED
    BY <1>3, <1>4, <1>5, SpawnsFacts

(* The terms of Places. *)
InWork(i)    == Cardinality(At(workIds, i))
InCall(i)    == Cardinality(At(callQueue, i))
InHand(i)    == Cardinality(At(running, i))
InResults(i) == Cardinality(At(results, <<"done", i>>))

(* The places of an item are counted place by place. *)
LEMMA PlacesSum ==
    ASSUME TypeOK, NEW i
    PROVE  /\ InWork(i) \in Nat /\ InCall(i) \in Nat /\ InHand(i) \in Nat /\ InResults(i) \in Nat
           /\ Places(i) = InWork(i) + InCall(i) + InHand(i) + InResults(i)
<1>1. /\ InWork(i) \in Nat /\ InCall(i) \in Nat /\ InResults(i) \in Nat
    BY AtCount DEF TypeOK, InWork, InCall, InResults
<1>2. InHand(i) \in Nat
    <2>1. At(running, i) \subseteq Workers
        BY DEF At, TypeOK
    <2> QED
        BY <2>1, Constants, FS_Subset, FS_CardinalityType DEF InHand
<1>3. Places(i) = InWork(i) + InCall(i) + InHand(i) + InResults(i)
    BY DEF Places, At, TypeOK, InWork, InCall, InHand, InResults
<1> QED
    BY <1>1, <1>2, <1>3

-----------------------------------------------------------------------------
(* Steps that start workers. *)

(* Starting workers keeps the invariant. *)
LEMMA SpawnsIInv == ASSUME IInv, Spawns PROVE IInv'
<1>1. /\ Working /\ Working'
      /\ UNCHANGED <<callQueue, results, running, completed, released, broken, timeouts, failures>>
      /\ joining' \in {0, joining} /\ main' \in MainStates
    BY SpawnsFacts
<1> DEFINE Result == /\ TypeOK' /\ Books' /\ Placed'
                     /\ Cardinality(Used) + Len(callQueue') + Len(workIds') <= submitted'
<1>2. ASSUME SubmitItem PROVE Result
    <2> DEFINE n == submitted + 1
    <2>1. /\ n \in Ids /\ submitted' = n /\ submitted \in Nat /\ fut[n] = "new"
          /\ fut' = [fut EXCEPT ![n] = "pending"] /\ workIds' = Append(workIds, n)
        BY <1>2, Constants DEF SubmitItem, IInv, TypeOK, Books, Ids
    <2>2. TypeOK'
        <3>1. workIds' \in Seq(Ids)
            BY <2>1 DEF IInv, TypeOK
        <3>2. fut' \in [Ids -> {"new", "pending", "done", "failed"}]
            BY <2>1 DEF IInv, TypeOK
        <3>3. /\ submitted' \in 0 .. MaxWork /\ spawned' \in 0 .. MaxSpawn /\ processes' \subseteq Workers
              /\ worker' \in [Workers -> WorkerStates]
            BY SpawnsEffect
        <3> QED
            BY <1>1, <3>1, <3>2, <3>3 DEF IInv, TypeOK
    <2>3. Books'
        <3>1. \A i \in Ids : fut'[i] = "new" <=> i > submitted'
            BY <2>1 DEF IInv, Books, TypeOK, Ids
        <3> QED
            BY <1>1, <3>1, SpawnsEffect DEF IInv, Books, TypeOK
    <2>4. Cardinality(Used) + Len(callQueue') + Len(workIds') <= submitted'
        <3>1. Len(workIds') = Len(workIds) + 1 /\ Len(workIds) \in Nat /\ Len(callQueue) \in Nat
            BY <2>1 DEF IInv, TypeOK
        <3>2. Cardinality(Used) \in Nat
            BY Constants, FS_Subset, FS_CardinalityType DEF Used
        <3>3. Cardinality(Used) + Len(callQueue) + Len(workIds) <= submitted
            BY DEF IInv, Spending
        <3> QED
            BY <1>1, <2>1, <3>1, <3>2, <3>3
    <2>5. Placed'
        <3> SUFFICES ASSUME NEW i \in Ids
                     PROVE  /\ Places(i)' <= 1
                            /\ fut'[i] # "pending" => Places(i)' = 0
                            /\ fut'[i] = "pending" /\ failures' = 0 => Places(i)' = 1
            BY DEF Placed
        <3>1. InWork(i)' = InWork(i) + One(n, i)
            BY <2>1, AtAppend DEF InWork, IInv, TypeOK
        <3>2. InCall(i)' = InCall(i) /\ InHand(i)' = InHand(i) /\ InResults(i)' = InResults(i)
            BY <1>1 DEF InCall, InHand, InResults
        <3>3. Places(i)' = InWork(i)' + InCall(i)' + InHand(i)' + InResults(i)'
            BY <2>2 DEF Places, At, TypeOK, InWork, InCall, InHand, InResults
        <3>4. Places(i)' = Places(i) + One(n, i)
            BY <3>1, <3>2, <3>3, PlacesSum DEF IInv, One
        <3>5. /\ Places(i) \in Nat /\ Places(i) <= 1
              /\ fut[i] # "pending" => Places(i) = 0
              /\ fut[i] = "pending" /\ failures = 0 => Places(i) = 1
            BY PlacesSum DEF IInv, Placed
        <3>6. CASE i = n
            <4>1. Places(i) = 0 /\ One(n, i) = 1
                BY <2>1, <3>5, <3>6 DEF One
            <4>2. Places(i)' = 1
                BY <3>4, <4>1
            <4>3. fut'[i] = "pending"
                BY <2>1, <3>6 DEF IInv, TypeOK
            <4> QED
                BY <4>2, <4>3
        <3>7. CASE i # n
            <4>1. Places(i)' = Places(i)
                BY <3>4, <3>5, <3>7 DEF One
            <4>2. fut'[i] = fut[i]
                BY <2>1, <3>7 DEF IInv, TypeOK
            <4> QED
                BY <1>1, <3>5, <4>1, <4>2
        <3> QED
            BY <3>6, <3>7
    <2> QED
        BY <2>2, <2>3, <2>4, <2>5
<1>3. ASSUME UNCHANGED <<submitted, fut, workIds>> PROVE Result
    <2>1. TypeOK'
        BY <1>1, <1>3, SpawnsEffect DEF IInv, TypeOK
    <2>2. Books'
        BY <1>1, <1>3, SpawnsEffect DEF IInv, Books
    <2>3. Cardinality(Used) + Len(callQueue') + Len(workIds') <= submitted'
        BY <1>1, <1>3 DEF IInv, Spending
    <2>4. Placed'
        BY <1>1, <1>3 DEF IInv, Placed, Places
    <2> QED
        BY <2>1, <2>2, <2>3, <2>4
<1>4. Result
    BY <1>2, <1>3, SpawnsFacts
<1>5. Registry'
    <2>1. processes' \subseteq 1 .. spawned' /\ released' \subseteq 1 .. spawned'
          /\ processes' = (1 .. spawned') \ released'
        <3>1. /\ spawned \in Nat /\ spawned' \in Nat /\ spawned <= spawned' /\ released' = released
              /\ processes' = processes \cup (spawned + 1 .. spawned')
            BY <1>1, SpawnsEffect, Constants DEF IInv, TypeOK
        <3>2. processes \subseteq 1 .. spawned /\ released \subseteq 1 .. spawned
              /\ processes = (1 .. spawned) \ released
            BY <1>1 DEF IInv, Registry
        <3> QED
            BY <3>1, <3>2
    <2>2. failures' = 0 => \A w \in processes' : worker'[w] # "exited"
        BY <1>1, SpawnsEffect DEF IInv, Registry
    <2>3. \A w \in Workers : worker[w] = "retiring" => worker'[w] = "retiring"
        BY SpawnsEffect
    <2> QED
        BY <1>1, <2>1, <2>2, <2>3 DEF IInv, Registry, Working
<1>6. Spending'
    <2>1. Used' = Used /\ Left' = Left
        BY <1>1, SpawnsEffect DEF Used, Left
    <2>2. Cardinality(Left \ Used) <= timeouts
        BY <1>1 DEF IInv, Spending
    <2> QED
        BY <1>1, <1>4, <2>1, <2>2, SpawnsEffect DEF Spending
<1> QED
    BY <1>1, <1>4, <1>5, <1>6, SpawnsEffect DEF IInv, CleanRetirement

-----------------------------------------------------------------------------
(* Steps of a worker. *)

(* A step of one worker leaves the parent and the other workers alone. *)
LEMMA ActsFrame ==
    ASSUME IInv, NEW w \in Workers, Acts(w)
    PROVE  /\ ~broken
           /\ UNCHANGED <<main, submitted, fut, workIds, processes, spawned, released, joining, broken>>
           /\ \A v \in Workers \ {w} :
                  worker'[v] = worker[v] /\ running'[v] = running[v] /\ completed'[v] = completed[v]
           /\ worker[w] \notin {"unborn", "exited"} /\ worker'[w] \in WorkerStates \ {"unborn"}
           /\ worker' \in [Workers -> WorkerStates]
           /\ running' = [running EXCEPT ![w] = running'[w]]
           /\ completed' = [completed EXCEPT ![w] = completed'[w]]
<1> USE DEF mainVars, spawnVars, managerVars, workerVars, queueVars, limitVars, WorkerStates
<1>1. /\ worker \in [Workers -> WorkerStates] /\ running \in [Workers -> Ids \cup {0}]
      /\ completed \in [Workers -> 0 .. RetireAfter + 1]
    BY DEF IInv, TypeOK
<1>2. broken => worker[w] \in {"unborn", "exited"}
    BY DEF IInv, Registry
<1>3. CASE Initialized(w) \/ InitializerRaises(w)
    BY <1>1, <1>2, <1>3 DEF Initialized, InitializerRaises
<1>4. CASE Continue(w) \/ Leave(w)
    BY <1>1, <1>2, <1>4 DEF Continue, Leave
<1>5. CASE Take(w) \/ TakeRaises(w)
    BY <1>1, <1>2, <1>5 DEF Take, TakeRaises
<1>6. CASE LeaveIdle(w) \/ Retire(w)
    BY <1>1, <1>2, <1>6 DEF LeaveIdle, Retire
<1>7. CASE Run(w)
    BY <1>1, <1>2, <1>7 DEF Run
<1> QED
    BY <1>3, <1>4, <1>5, <1>6, <1>7 DEF Acts

(* What becomes of the queues: an item may be taken from the call queue, and an
   entry may be put in the results. *)
LEMMA ActsQueues ==
    ASSUME IInv, NEW w \in Workers, Acts(w)
    PROVE  /\ timeouts' \in 0 .. MaxTimeouts /\ failures' \in 0 .. MaxFailures
           /\ timeouts' >= timeouts /\ failures' >= failures
           /\ \/ UNCHANGED results
              \/ /\ results' = Append(results, <<"done", running[w]>>)
                 /\ running[w] \in Ids /\ Run(w)
              \/ results' = Append(results, <<"pid", w>>) /\ worker'[w] = "retiring"
              \/ results' = Append(results, <<"trace", w>>) /\ failures' > 0
           /\ \/ UNCHANGED callQueue
              \/ callQueue # <<>> /\ callQueue' = Tail(callQueue) /\ (Take(w) \/ TakeRaises(w))
<1> USE DEF mainVars, spawnVars, managerVars, workerVars, queueVars, limitVars
<1>1. timeouts \in 0 .. MaxTimeouts /\ failures \in 0 .. MaxFailures /\ running \in [Workers -> Ids \cup {0}]
      /\ worker \in [Workers -> WorkerStates]
    BY DEF IInv, TypeOK
<1>2. MaxTimeouts \in Nat /\ MaxFailures \in Nat
    BY Constants
<1>3. CASE Initialized(w) \/ InitializerRaises(w)
    BY <1>1, <1>2, <1>3 DEF Initialized, InitializerRaises
<1>4. CASE Continue(w) \/ Leave(w)
    BY <1>1, <1>2, <1>4 DEF Continue, Leave
<1>5. CASE Take(w) \/ TakeRaises(w)
    BY <1>1, <1>2, <1>5 DEF Take, TakeRaises
<1>6. CASE LeaveIdle(w) \/ Retire(w)
    BY <1>1, <1>2, <1>6 DEF LeaveIdle, Retire
<1>7. CASE Run(w)
    <2>1. running[w] \in Ids
        BY <1>1, <1>7 DEF Run, IInv, Books
    <2> QED
        BY <1>1, <1>2, <1>7, <2>1 DEF Run
<1> QED
    BY <1>3, <1>4, <1>5, <1>6, <1>7 DEF Acts

(* A step of a worker keeps the types and the books. *)
LEMMA ActsBooks ==
    ASSUME IInv, NEW w \in Workers, Acts(w)
    PROVE  TypeOK' /\ Books'
<1>1. /\ completed'[w] \in 0 .. RetireAfter + 1 /\ (RetireAfter > 0 => completed'[w] <= RetireAfter)
      /\ running'[w] \in Ids \cup {0} /\ (worker'[w] = "running" <=> running'[w] # 0)
      /\ worker'[w] # "starting"
      /\ worker'[w] \in {"idle", "running"} => completed'[w] = 0 \/ completed'[w] < RetireAfter
      /\ worker'[w] = "finished" => completed'[w] > 0
    <2> USE DEF workerVars
    <2>1. /\ worker \in [Workers -> WorkerStates] /\ running \in [Workers -> Ids \cup {0}]
          /\ completed \in [Workers -> 0 .. RetireAfter + 1] /\ RetireAfter \in Nat
          /\ (RetireAfter > 0 => completed[w] <= RetireAfter)
          /\ worker[w] = "running" <=> running[w] # 0
          /\ worker[w] \in {"unborn", "starting"} => completed[w] = 0
          /\ worker[w] \in {"idle", "running"} => completed[w] = 0 \/ completed[w] < RetireAfter
          /\ worker[w] = "finished" => completed[w] > 0
        BY Constants DEF IInv, TypeOK, Books
    <2>2. callQueue # <<>> => Head(callQueue) \in Ids /\ Head(callQueue) # 0
        BY Constants DEF IInv, TypeOK, Ids
    <2>3. CASE Initialized(w) \/ InitializerRaises(w)
        BY <2>1, <2>3 DEF Initialized, InitializerRaises
    <2>4. CASE Continue(w) \/ Leave(w)
        BY <2>1, <2>4 DEF Continue, Leave, ReachedMax
    <2>5. CASE Take(w) \/ TakeRaises(w)
        BY <2>1, <2>2, <2>5 DEF Take, TakeRaises
    <2>6. CASE LeaveIdle(w) \/ Retire(w)
        BY <2>1, <2>6 DEF LeaveIdle, Retire
    <2>7. CASE Run(w)
        BY <2>1, <2>7 DEF Run
    <2> QED
        BY <2>3, <2>4, <2>5, <2>6, <2>7 DEF Acts
<1>2. /\ results' \in Seq({"done", "pid", "trace"} \X (Ids \cup Workers))
      /\ Range(results') \subseteq ({"done"} \X Ids) \cup ({"pid", "trace"} \X Workers)
    <2> DEFINE E == ({"done"} \X Ids) \cup ({"pid", "trace"} \X Workers)
               S == {"done", "pid", "trace"} \X (Ids \cup Workers)
    <2>1. results \in Seq(S) /\ Range(results) \subseteq E /\ E \subseteq S
        BY DEF IInv, TypeOK, Books
    <2>2. results' = results \/ \E e \in E : results' = Append(results, e)
        BY ActsQueues
    <2> HIDE DEF E, S
    <2>3. ASSUME NEW e \in E, results' = Append(results, e)
          PROVE  results' \in Seq(S) /\ Range(results') \subseteq E
        <3>1. e \in S
            BY <2>1
        <3>2. Range(Append(results, e)) = Range(results) \cup {e}
            BY <2>1, <3>1, RangeAppend
        <3> QED
            BY <2>1, <2>3, <3>1, <3>2
    <2>4. results' \in Seq(S) /\ Range(results') \subseteq E
        BY <2>1, <2>2, <2>3
    <2> QED
        BY <2>4 DEF E, S
<1>3. callQueue' \in Seq(Ids) /\ Len(callQueue') <= QueueSize
    <2>1. callQueue \in Seq(Ids) /\ Len(callQueue) <= QueueSize /\ QueueSize \in Nat
        BY Constants DEF IInv, TypeOK
    <2>2. CASE callQueue' = callQueue
        BY <2>1, <2>2
    <2>3. CASE callQueue # <<>> /\ callQueue' = Tail(callQueue)
        <3>1. Tail(callQueue) \in Seq(Ids) /\ Len(Tail(callQueue)) <= QueueSize
            BY <2>1, <2>3
        <3> QED
            BY <2>3, <3>1
    <2> QED
        BY <2>2, <2>3, ActsQueues
<1>4. TypeOK'
    <2>1. /\ completed' \in [Workers -> 0 .. RetireAfter + 1] /\ running' \in [Workers -> Ids \cup {0}]
          /\ RetireAfter > 0 => \A v \in Workers : completed'[v] <= RetireAfter
        <3>1. /\ completed' = [completed EXCEPT ![w] = completed'[w]]
              /\ running' = [running EXCEPT ![w] = running'[w]]
              /\ \A v \in Workers \ {w} : completed'[v] = completed[v]
            BY ActsFrame
        <3>2. /\ completed \in [Workers -> 0 .. RetireAfter + 1] /\ running \in [Workers -> Ids \cup {0}]
              /\ RetireAfter > 0 => \A v \in Workers : completed[v] <= RetireAfter
            BY DEF IInv, TypeOK
        <3>3. completed' \in [Workers -> 0 .. RetireAfter + 1]
            BY <1>1, <3>1, <3>2
        <3>4. running' \in [Workers -> Ids \cup {0}]
            BY <1>1, <3>1, <3>2
        <3> QED
            BY <1>1, <3>1, <3>2, <3>3, <3>4
    <2>2. /\ UNCHANGED <<main, submitted, fut, workIds, processes, spawned, released, joining, broken>>
          /\ worker' \in [Workers -> WorkerStates]
          /\ timeouts' \in 0 .. MaxTimeouts /\ failures' \in 0 .. MaxFailures
        BY ActsFrame, ActsQueues
    <2> QED
        BY <1>2, <1>3, <2>1, <2>2 DEF IInv, TypeOK
<1>5. Books'
    <2>1. UNCHANGED <<fut, submitted, spawned>> /\ (worker[w] # "unborn") /\ (worker'[w] # "unborn")
        BY ActsFrame
    <2>2. \A v \in Workers \ {w} :
              worker'[v] = worker[v] /\ running'[v] = running[v] /\ completed'[v] = completed[v]
        BY ActsFrame
    <2>3. \A v \in Workers : worker'[v] = "unborn" <=> v > spawned'
        BY <2>1, <2>2 DEF IInv, Books
    <2>4. \A v \in Workers :
              /\ worker'[v] = "running" <=> running'[v] # 0
              /\ worker'[v] \in {"unborn", "starting"} => completed'[v] = 0
        BY <1>1, <2>1, <2>2 DEF IInv, Books
    <2>5. \A v \in Workers :
              /\ worker'[v] \in {"idle", "running"} => completed'[v] = 0 \/ completed'[v] < RetireAfter
              /\ worker'[v] = "finished" => completed'[v] > 0
        BY <1>1, <2>2 DEF IInv, Books
    <2> QED
        BY <1>2, <2>1, <2>3, <2>4, <2>5 DEF IInv, Books
<1> QED
    BY <1>4, <1>5

(* A worker does not take itself out of the registry. *)
LEMMA ActsRegistry ==
    ASSUME IInv, NEW w \in Workers, Acts(w)
    PROVE  Registry'
<1>1. /\ worker[w] = "retiring" => w \in released
      /\ worker'[w] = "exited" => failures' > 0 \/ w \in released
    <2> USE DEF workerVars
    <2>1. worker \in [Workers -> WorkerStates] /\ failures \in Nat
        BY Constants DEF IInv, TypeOK
    <2>2. CASE Initialized(w) \/ InitializerRaises(w)
        BY <2>1, <2>2 DEF Initialized, InitializerRaises
    <2>3. CASE Continue(w) \/ Leave(w)
        BY <2>1, <2>3 DEF Continue, Leave
    <2>4. CASE Take(w) \/ TakeRaises(w)
        BY <2>1, <2>4 DEF Take, TakeRaises
    <2>5. CASE LeaveIdle(w) \/ Retire(w) \/ Run(w)
        BY <2>1, <2>5 DEF LeaveIdle, Retire, Run
    <2> QED
        BY <2>2, <2>3, <2>4, <2>5 DEF Acts
<1>2. (Working' <=> Working) /\ (failures > 0 => failures' > 0) /\ failures \in Nat /\ failures' \in Nat
    BY ActsFrame, ActsQueues, Constants DEF Working, IInv, TypeOK
<1>3. Working => \/ failures' > 0
                 \/ \A v \in processes : worker'[v] # "exited"
    <2> SUFFICES ASSUME Working, ~(failures' > 0), NEW v \in processes, worker'[v] = "exited"
                 PROVE  FALSE
        OBVIOUS
    <2>1. failures = 0 /\ v \in Workers
        BY <1>2 DEF IInv, TypeOK
    <2>2. v \notin released /\ worker[v] # "exited"
        BY <2>1 DEF IInv, Registry
    <2> QED
        BY <1>1, <2>1, <2>2, ActsFrame
<1>4. \A v \in Workers :
          /\ <<"pid", v>> \in Range(results') => worker'[v] = "retiring" \/ v \in released
          /\ <<"trace", v>> \in Range(results') => failures' > 0
    <2> DEFINE S == {"done", "pid", "trace"} \X (Ids \cup Workers)
    <2>1. \A v \in Workers : worker[v] = "retiring" \/ v \in released =>
                              worker'[v] = "retiring" \/ v \in released
        BY <1>1, ActsFrame
    <2>2. results \in Seq(S) /\ <<"pid", w>> \in S /\ <<"trace", w>> \in S
        BY DEF IInv, TypeOK
    <2>3. \A v \in Workers :
              /\ <<"pid", v>> \in Range(results) => worker[v] = "retiring" \/ v \in released
              /\ <<"trace", v>> \in Range(results) => failures > 0
        BY DEF IInv, Registry
    <2> HIDE DEF S
    <2>4. CASE UNCHANGED results
        BY <1>2, <2>1, <2>3, <2>4
    <2>5. CASE results' = Append(results, <<"done", running[w]>>) /\ running[w] \in Ids
        <3>1. Range(results') = Range(results) \cup {<<"done", running[w]>>}
            BY <2>2, <2>5, RangeAppend DEF S
        <3> QED
            BY <1>2, <2>1, <2>3, <3>1
    <2>6. CASE results' = Append(results, <<"pid", w>>) /\ worker'[w] = "retiring"
        <3>1. Range(results') = Range(results) \cup {<<"pid", w>>}
            BY <2>2, <2>6, RangeAppend
        <3> QED
            BY <1>2, <2>1, <2>3, <2>6, <3>1
    <2>7. CASE results' = Append(results, <<"trace", w>>) /\ failures' > 0
        <3>1. Range(results') = Range(results) \cup {<<"trace", w>>}
            BY <2>2, <2>7, RangeAppend
        <3> QED
            BY <1>2, <2>1, <2>3, <2>7, <3>1
    <2> QED
        BY <2>4, <2>5, <2>6, <2>7, ActsQueues
<1>5. Working' => /\ processes' = (1 .. spawned') \ released'
                  /\ failures' = 0 => \A v \in processes' : worker'[v] # "exited"
    BY <1>2, <1>3, ActsFrame DEF IInv, Registry
<1>6. processes' \subseteq 1 .. spawned' /\ released' \subseteq 1 .. spawned'
    BY ActsFrame DEF IInv, Registry
<1>7. (joining' # 0 => Working') /\ ~broken'
    BY <1>2, ActsFrame DEF IInv, Registry
<1> QED
    BY <1>4, <1>5, <1>6, <1>7, ActsFrame DEF Registry

(* A worker that leaves has taken an item or timed out. *)
LEMMA ActsSpending ==
    ASSUME IInv, NEW w \in Workers, Acts(w)
    PROVE  Spending'
<1> USE DEF workerVars, limitVars, queueVars
<1>1. /\ callQueue \in Seq(Ids) /\ Len(callQueue) \in Nat /\ Len(workIds) \in Nat
      /\ submitted \in Nat /\ timeouts \in Nat /\ spawned \in Nat /\ MaxWorkers \in Nat
      /\ worker \in [Workers -> WorkerStates] /\ running \in [Workers -> Ids \cup {0}]
      /\ completed \in [Workers -> 0 .. RetireAfter + 1]
    BY Constants DEF IInv, TypeOK
<1>2. /\ worker[w] = "running" => w \in Used
      /\ worker[w] = "finished" => w \in Used
    BY DEF Used, IInv, Books
<1>3. Used \subseteq Workers /\ Left \subseteq Workers /\ Used' \subseteq Workers
    BY DEF Used, Left
<1>4. /\ IsFiniteSet(Used) /\ Cardinality(Used) \in Nat
      /\ IsFiniteSet(Left \ Used) /\ Cardinality(Left \ Used) \in Nat
    <2>1. IsFiniteSet(Used) /\ IsFiniteSet(Left \ Used)
        BY <1>3, Constants, FS_Subset
    <2> QED
        BY <2>1, FS_CardinalityType
<1>5. Take(w) => /\ Used' \subseteq Used \cup {w} /\ Left' = Left
                 /\ callQueue # <<>> /\ callQueue' = Tail(callQueue) /\ UNCHANGED timeouts
    BY <1>1 DEF Take, Used, Left, managerVars
<1>6. ~Take(w) => Used' \subseteq Used
    <2>1. CASE Run(w)
        BY <1>1, <1>2, <2>1, ActsFrame DEF Run, Used
    <2>2. CASE ~Run(w) /\ ~Take(w)
        BY <2>2 DEF Acts, Initialized, InitializerRaises, Continue, Leave, TakeRaises, LeaveIdle,
                    Retire, Used
    <2> QED
        BY <2>1, <2>2
<1>7. ~Take(w) => Used \subseteq Used'
    <2>1. CASE Run(w)
        BY <1>1, <2>1, Constants DEF Run, Used
    <2>2. CASE ~Run(w) /\ ~Take(w)
        BY <2>2 DEF Acts, Initialized, InitializerRaises, Continue, Leave, TakeRaises, LeaveIdle,
                    Retire, Used
    <2> QED
        BY <2>1, <2>2
<1>8. Cardinality(Used') + Len(callQueue') + Len(workIds') <= submitted'
    <2>1. Len(workIds') = Len(workIds) /\ submitted' = submitted
        BY ActsFrame
    <2>2. Cardinality(Used) + Len(callQueue) + Len(workIds) <= submitted
        BY DEF IInv, Spending
    <2>3. CASE Take(w)
        <3>1. Len(callQueue') = Len(callQueue) - 1
            BY <1>1, <1>5, <2>3
        <3>2. Cardinality(Used') \in Nat /\ Cardinality(Used') <= Cardinality(Used) + 1
            BY <1>4, <1>5, <2>3, AtMostOneMore
        <3> QED
            BY <1>1, <1>4, <2>1, <2>2, <3>1, <3>2
    <2>4. CASE ~Take(w)
        <3>1. Used' = Used
            BY <1>6, <1>7, <2>4
        <3>2. callQueue' = callQueue \/ (callQueue # <<>> /\ callQueue' = Tail(callQueue))
            BY ActsQueues
        <3>3. Len(callQueue') \in Nat /\ Len(callQueue') <= Len(callQueue)
            BY <1>1, <3>2
        <3> QED
            BY <1>1, <1>4, <2>1, <2>2, <3>1, <3>3
    <2> QED
        BY <2>3, <2>4
<1>9. ASSUME Working' PROVE Cardinality((Left \ Used)') <= timeouts'
    <2>1. Working /\ main # "stopping" /\ Cardinality(Left \ Used) <= timeouts
        BY <1>9, ActsFrame DEF Working, IInv, Spending
    <2>2. CASE LeaveIdle(w)
        <3>1. timeouts' = timeouts + 1 /\ Left' \subseteq Left \cup {w}
            BY <2>1, <2>2, <1>1 DEF LeaveIdle, Left, managerVars
        <3>2. (Left \ Used)' \subseteq (Left \ Used) \cup {w}
            BY <1>7, <2>2, <3>1 DEF LeaveIdle, Take
        <3>3. /\ Cardinality((Left \ Used)') \in Nat
              /\ Cardinality((Left \ Used)') <= Cardinality(Left \ Used) + 1
            BY <1>4, <3>2, AtMostOneMore
        <3> QED
            BY <1>1, <1>4, <2>1, <3>1, <3>3
    <2>3. CASE ~LeaveIdle(w)
        <3>1. UNCHANGED timeouts
            BY <2>3 DEF Acts, Initialized, InitializerRaises, Continue, Leave, Take, TakeRaises,
                        Retire, Run
        <3>2. Left' \subseteq Left \cup Used
            BY <1>1, <1>2, <2>3, ActsFrame DEF Acts, Initialized, InitializerRaises, Continue, Leave,
               Take, TakeRaises, Retire, Run, Left
        <3>3. Used \subseteq Used'
            <4>1. ASSUME Take(w) PROVE Used \subseteq Used'
                <5>1. callQueue # <<>> /\ Head(callQueue) \in Ids
                    BY <1>1, <4>1 DEF Take
                <5>2. running'[w] # 0 /\ completed' = completed
                    BY <1>1, <4>1, <5>1 DEF Take, Ids
                <5> QED
                    BY <5>2, ActsFrame DEF Used
            <4> QED
                BY <1>7, <4>1
        <3>4. (Left \ Used)' \subseteq Left \ Used
            BY <3>2, <3>3
        <3>5. Cardinality((Left \ Used)') <= Cardinality(Left \ Used) /\ Cardinality((Left \ Used)') \in Nat
            BY <1>4, <3>4, FS_Subset, FS_CardinalityType
        <3> QED
            BY <1>1, <1>4, <2>1, <3>1, <3>5
    <2> QED
        BY <2>2, <2>3
<1>10. spawned' <= MaxWorkers + submitted' + timeouts'
    <2>1. PICK t \in Nat : t = timeouts' /\ timeouts <= t
        BY <1>1, ActsQueues, Constants
    <2>2. spawned <= MaxWorkers + submitted + timeouts
        BY DEF IInv, Spending
    <2>3. timeouts <= t
        BY <2>1
    <2>4. spawned <= MaxWorkers + submitted + t
        BY <1>1, <2>2, <2>3
    <2> QED
        BY <2>1, <2>4, ActsFrame
<1> QED
    BY <1>8, <1>9, <1>10 DEF Spending

(* A step of one worker changes what that worker has in hand. *)
LEMMA HandExcept ==
    ASSUME TypeOK, NEW w \in Workers, DOMAIN running' = Workers,
           \A v \in Workers : v # w => running'[v] = running[v], NEW i
    PROVE  InHand(i)' = InHand(i) - One(running[w], i) + One(running'[w], i)
<1>1. DOMAIN running = Workers /\ IsFiniteSet(Workers)
    BY Constants DEF TypeOK
<1> QED
    BY <1>1, AtExcept DEF InHand

(* A worker moves an item from the queue to its hand and on to the results. *)
LEMMA ActsPlaced ==
    ASSUME IInv, NEW w \in Workers, Acts(w)
    PROVE  Placed'
<1> USE DEF workerVars, limitVars, queueVars
<1> SUFFICES ASSUME NEW i \in Ids
             PROVE  /\ Places(i)' <= 1
                    /\ fut'[i] # "pending" => Places(i)' = 0
                    /\ fut'[i] = "pending" /\ failures' = 0 => Places(i)' = 1
    BY DEF Placed
<1>1. /\ callQueue \in Seq(Ids) /\ workIds \in Seq(Ids)
      /\ results \in Seq({"done", "pid", "trace"} \X (Ids \cup Workers))
      /\ running \in [Workers -> Ids \cup {0}] /\ worker \in [Workers -> WorkerStates]
      /\ failures \in Nat /\ i # 0 /\ IsFiniteSet(Workers)
    BY Constants DEF IInv, TypeOK, Ids
<1>2. /\ InWork(i) \in Nat /\ InCall(i) \in Nat /\ InHand(i) \in Nat /\ InResults(i) \in Nat
      /\ Places(i) = InWork(i) + InCall(i) + InHand(i) + InResults(i)
    BY PlacesSum DEF IInv
<1>3. /\ Places(i) <= 1
      /\ fut[i] # "pending" => Places(i) = 0
      /\ fut[i] = "pending" /\ failures = 0 => Places(i) = 1
    BY DEF IInv, Placed
<1>4. TypeOK'
    BY ActsBooks
<1>5. Places(i)' = InWork(i)' + InCall(i)' + InHand(i)' + InResults(i)'
    BY <1>4 DEF Places, At, TypeOK, InWork, InCall, InHand, InResults
<1>6. InWork(i)' = InWork(i) /\ fut' = fut
    BY ActsFrame DEF InWork
<1>7. failures' = 0 => failures = 0
    BY <1>1, ActsQueues, Constants
<1>8. CASE Take(w)
    <2>1. InCall(i)' = InCall(i) - One(Head(callQueue), i) /\ InCall(i)' \in Nat
        <3>1. callQueue # <<>> /\ callQueue' = Tail(callQueue) /\ Tail(callQueue) \in Seq(Ids)
            BY <1>1, <1>8 DEF Take
        <3> QED
            BY <1>1, <3>1, AtTail, AtCount DEF InCall
    <2>2. InHand(i)' = InHand(i) + One(Head(callQueue), i)
        <3>1. One(running[w], i) = 0
            BY <1>1, <1>8 DEF Take, IInv, Books, One
        <3>2. /\ DOMAIN running' = Workers /\ running'[w] = Head(callQueue)
              /\ \A v \in Workers : v # w => running'[v] = running[v]
            BY <1>1, <1>8 DEF Take
        <3>3. InHand(i)' = InHand(i) - One(running[w], i) + One(running'[w], i)
            BY <3>2, HandExcept DEF IInv
        <3> QED
            BY <1>2, <3>1, <3>2, <3>3
    <2>3. InResults(i)' = InResults(i)
        BY <1>8 DEF Take, InResults
    <2>4. One(Head(callQueue), i) \in Nat
        BY DEF One
    <2>5. Places(i)' = Places(i)
        BY <1>2, <1>5, <1>6, <2>1, <2>2, <2>3, <2>4
    <2> QED
        BY <1>3, <1>6, <1>7, <2>5
<1>9. CASE TakeRaises(w)
    <2>1. InCall(i)' = InCall(i) - One(Head(callQueue), i) /\ InCall(i)' \in Nat
        <3>1. callQueue # <<>> /\ callQueue' = Tail(callQueue) /\ Tail(callQueue) \in Seq(Ids)
            BY <1>1, <1>9 DEF TakeRaises
        <3> QED
            BY <1>1, <3>1, AtTail, AtCount DEF InCall
    <2>2. InHand(i)' = InHand(i)
        BY <1>9 DEF TakeRaises, InHand
    <2>3. InResults(i)' = InResults(i)
        <3>1. results' = Append(results, <<"trace", w>>) /\ One(<<"trace", w>>, <<"done", i>>) = 0
            BY <1>9 DEF TakeRaises, One
        <3>2. <<"trace", w>> \in {"done", "pid", "trace"} \X (Ids \cup Workers)
            OBVIOUS
        <3>3. InResults(i)' = InResults(i) + One(<<"trace", w>>, <<"done", i>>)
            BY <1>1, <3>1, <3>2, AtAppend DEF InResults
        <3> QED
            BY <1>2, <3>1, <3>3
    <2>4. One(Head(callQueue), i) \in Nat
        BY DEF One
    <2>5. Places(i)' \in Nat /\ Places(i)' <= Places(i)
        BY <1>2, <1>5, <1>6, <2>1, <2>2, <2>3, <2>4
    <2>6. failures' # 0
        BY <1>1, <1>9 DEF TakeRaises
    <2> QED
        BY <1>2, <1>3, <1>6, <2>5, <2>6
<1>10. CASE Run(w)
    <2>1. InCall(i)' = InCall(i)
        BY <1>10 DEF Run, InCall
    <2>2. InHand(i)' = InHand(i) - One(running[w], i)
        <3>1. One(0, i) = 0
            BY <1>1 DEF One
        <3>2. /\ DOMAIN running' = Workers /\ running'[w] = 0
              /\ \A v \in Workers : v # w => running'[v] = running[v]
            BY <1>1, <1>10 DEF Run
        <3>3. InHand(i)' = InHand(i) - One(running[w], i) + One(running'[w], i)
            BY <3>2, HandExcept DEF IInv
        <3>4. One(running[w], i) \in Nat
            BY DEF One
        <3> QED
            BY <1>2, <3>1, <3>2, <3>3, <3>4
    <2>3. InResults(i)' = InResults(i) + One(running[w], i)
        <3>1. running[w] \in Ids
            BY <1>1, <1>10 DEF Run, IInv, Books
        <3>2. results' = Append(results, <<"done", running[w]>>)
            BY <1>10 DEF Run
        <3> DEFINE e == <<"done", running[w]>>
        <3>3. e \in {"done", "pid", "trace"} \X (Ids \cup Workers)
            BY <3>1
        <3>4. One(e, <<"done", i>>) = One(running[w], i)
            BY DEF One
        <3> HIDE DEF e
        <3>5. InResults(i)' = InResults(i) + One(e, <<"done", i>>)
            BY <1>1, <3>2, <3>3, AtAppend DEF InResults, e
        <3> QED
            BY <3>4, <3>5
    <2>4. One(running[w], i) \in Nat
        BY DEF One
    <2>5. Places(i)' = Places(i)
        BY <1>2, <1>5, <1>6, <2>1, <2>2, <2>3, <2>4
    <2> QED
        BY <1>3, <1>6, <1>7, <2>5
<1>11. CASE ~Take(w) /\ ~TakeRaises(w) /\ ~Run(w)
    <2>1. UNCHANGED <<callQueue, running>>
        BY <1>11 DEF Acts, Initialized, InitializerRaises, Continue, Leave, LeaveIdle, Retire
    <2>2. results' = results \/ results' = Append(results, <<"pid", w>>)
        BY <1>11 DEF Acts, Initialized, InitializerRaises, Continue, Leave, LeaveIdle, Retire
    <2>3. InResults(i)' = InResults(i)
        <3>1. ASSUME results' = Append(results, <<"pid", w>>) PROVE InResults(i)' = InResults(i)
            <4>1. <<"pid", w>> \in {"done", "pid", "trace"} \X (Ids \cup Workers)
                OBVIOUS
            <4>2. InResults(i)' = InResults(i) + One(<<"pid", w>>, <<"done", i>>)
                BY <1>1, <3>1, <4>1, AtAppend DEF InResults
            <4>3. One(<<"pid", w>>, <<"done", i>>) = 0
                BY DEF One
            <4> QED
                BY <1>2, <4>2, <4>3
        <3> QED
            BY <2>2, <3>1 DEF InResults
    <2>4. InCall(i)' = InCall(i) /\ InHand(i)' = InHand(i)
        BY <2>1 DEF InCall, InHand
    <2>5. Places(i)' = Places(i)
        BY <1>2, <1>5, <1>6, <2>3, <2>4
    <2> QED
        BY <1>3, <1>6, <1>7, <2>5
<1> QED
    BY <1>8, <1>9, <1>10, <1>11

(* A step of a worker keeps the invariant. *)
LEMMA ActsIInv == ASSUME IInv, NEW w \in Workers, Acts(w) PROVE IInv'
<1>1. AtMostMaxWorkers' /\ CleanRetirement'
    BY ActsFrame DEF IInv, AtMostMaxWorkers, CleanRetirement
<1> QED
    BY <1>1, ActsBooks, ActsRegistry, ActsSpending, ActsPlaced DEF IInv

-----------------------------------------------------------------------------
(* The with statement's own steps. *)

(* The caller: submit, prefork and shutdown keep the invariant. *)
LEMMA ParentIInv == ASSUME IInv, Parent PROVE IInv'
<1> USE DEF mainVars, queueVars, workerVars, spawnVars, managerVars, limitVars
<1>1. /\ UNCHANGED <<submitted, fut, queueVars, workerVars, spawned, joining, broken, limitVars>>
      /\ main' \in MainStates \ {"new"}
      /\ processes' \in {processes, {}} /\ released' \in {released, released \cup processes}
      /\ Working' => Working /\ UNCHANGED <<processes, released>>
      /\ joining # 0 /\ Working => Working'
    <2>1. CASE Warm
        BY <2>1 DEF Warm, MainStates, Working
    <2>2. CASE EnterRaises
        BY <2>2 DEF EnterRaises, MainStates, Working
    <2>3. CASE Exit
        BY <2>3 DEF Exit, MainStates, Working
    <2>4. CASE StopWorkers
        BY <2>4 DEF StopWorkers, MainStates, Working
    <2>5. CASE Closed
        BY <2>5 DEF Closed, MainStates, Working
    <2> QED
        BY <2>1, <2>2, <2>3, <2>4, <2>5 DEF Parent
<1>2. TypeOK' /\ Books'
    BY <1>1 DEF IInv, TypeOK, Books
<1>3. Registry'
    BY <1>1 DEF IInv, Registry
<1>4. AtMostMaxWorkers'
    BY <1>1, FS_EmptySet, Constants DEF IInv, AtMostMaxWorkers
<1>5. Spending'
    BY <1>1 DEF IInv, Spending, Used, Left
<1>6. Placed' /\ CleanRetirement'
    BY <1>1 DEF IInv, Placed, Places, CleanRetirement
<1> QED
    BY <1>2, <1>3, <1>4, <1>5, <1>6 DEF IInv

-----------------------------------------------------------------------------
(* Steps of the manager thread. *)

(* An item goes from the pending ones to the call queue. *)
LEMMA FeedIInv == ASSUME IInv, FeedCallQueue PROVE IInv'
<1> USE DEF mainVars, queueVars, workerVars, spawnVars, managerVars, limitVars
<1>1. /\ ~broken /\ workIds # <<>> /\ Len(callQueue) < QueueSize
      /\ callQueue' = Append(callQueue, Head(workIds)) /\ workIds' = Tail(workIds)
      /\ UNCHANGED <<mainVars, fut, results, workerVars, spawnVars, managerVars, limitVars>>
    BY DEF FeedCallQueue, ManagerLoops
<1>2. callQueue \in Seq(Ids) /\ workIds \in Seq(Ids) /\ QueueSize \in Nat
    BY Constants DEF IInv, TypeOK
<1>3. /\ Head(workIds) \in Ids /\ workIds' \in Seq(Ids) /\ callQueue' \in Seq(Ids)
      /\ Len(callQueue') <= QueueSize
      /\ Len(callQueue') + Len(workIds') = Len(callQueue) + Len(workIds)
      /\ Len(workIds) \in Nat /\ Len(callQueue) \in Nat
      /\ Len(workIds') \in Nat /\ Len(callQueue') \in Nat
    BY <1>1, <1>2
<1>4. TypeOK' /\ Books' /\ AtMostMaxWorkers' /\ CleanRetirement'
    BY <1>1, <1>3 DEF IInv, TypeOK, Books, AtMostMaxWorkers, CleanRetirement
<1>5. Registry'
    BY <1>1 DEF IInv, Registry, Working
<1>6. Spending'
    <2>1. Used' = Used /\ Left' = Left /\ (Working' <=> Working)
        BY <1>1 DEF Used, Left, Working
    <2>2. Cardinality(Used) \in Nat
        BY Constants, FS_Subset, FS_CardinalityType DEF Used
    <2>3. Cardinality(Used) + Len(callQueue) + Len(workIds) <= submitted /\ submitted \in Nat
        BY Constants DEF IInv, Spending, TypeOK
    <2>4. Cardinality(Used) + Len(callQueue') + Len(workIds') <= submitted
        BY <1>3, <2>2, <2>3
    <2> QED
        BY <1>1, <2>1, <2>4 DEF IInv, Spending
<1>7. Placed'
    <2> SUFFICES ASSUME NEW i \in Ids PROVE Places(i)' = Places(i)
        BY <1>1 DEF IInv, Placed
    <2>1. InCall(i)' = InCall(i) + One(Head(workIds), i)
        BY <1>1, <1>2, <1>3, AtAppend DEF InCall
    <2>2. InWork(i)' = InWork(i) - One(Head(workIds), i)
        BY <1>1, <1>2, AtTail DEF InWork
    <2>3. InHand(i)' = InHand(i) /\ InResults(i)' = InResults(i)
        BY <1>1 DEF InHand, InResults
    <2>4. Places(i)' = InWork(i)' + InCall(i)' + InHand(i)' + InResults(i)'
        BY <1>4 DEF Places, At, TypeOK, InWork, InCall, InHand, InResults
    <2>5. One(Head(workIds), i) \in Nat
        BY DEF One
    <2>6. /\ InWork(i) \in Nat /\ InCall(i) \in Nat /\ InHand(i) \in Nat /\ InResults(i) \in Nat
          /\ Places(i) = InWork(i) + InCall(i) + InHand(i) + InResults(i)
        BY PlacesSum DEF IInv
    <2> QED
        BY <2>1, <2>2, <2>3, <2>4, <2>5, <2>6
<1> QED
    BY <1>4, <1>5, <1>6, <1>7 DEF IInv

(* The manager thread reads a result and resolves its future. *)
LEMMA ReadResultIInv == ASSUME IInv, ReadResult PROVE IInv'
<1> USE DEF mainVars, queueVars, workerVars, spawnVars, managerVars, limitVars
<1> DEFINE r == Head(results)[2]
           S == {"done", "pid", "trace"} \X (Ids \cup Workers)
<1>1. /\ ~broken /\ results # <<>> /\ fut' = [fut EXCEPT ![r] = "done"] /\ results' = Tail(results)
      /\ UNCHANGED <<mainVars, workIds, callQueue, workerVars, spawnVars, managerVars, limitVars>>
    BY DEF ReadResult, ManagerLoops
<1>2. /\ r \in Ids /\ Head(results) = <<"done", r>> /\ Head(results) \in Range(results)
      /\ Range(results') \subseteq Range(results)
    BY <1>1, HeadOfResults DEF ReadResult
<1>3. results \in Seq(S) /\ results' \in Seq(S) /\ fut \in [Ids -> {"new", "pending", "done", "failed"}]
    BY <1>1 DEF IInv, TypeOK
<1> HIDE DEF r
<1>4. TypeOK'
    BY <1>1, <1>2, <1>3 DEF IInv, TypeOK
<1>5. /\ fut[r] = "pending" /\ Places(r) = 1
    <2>1. 1 \in At(results, <<"done", r>>)
        BY <1>1, <1>2, <1>3 DEF At
    <2>2. InResults(r) # 0
        BY <1>3, <2>1, AtCount, FS_EmptySet DEF InResults
    <2>3. /\ InWork(r) \in Nat /\ InCall(r) \in Nat /\ InHand(r) \in Nat /\ InResults(r) \in Nat
          /\ Places(r) = InWork(r) + InCall(r) + InHand(r) + InResults(r)
        BY PlacesSum DEF IInv
    <2>4. Places(r) # 0 /\ Places(r) \in Nat
        BY <2>2, <2>3
    <2>5. Places(r) <= 1 /\ (fut[r] # "pending" => Places(r) = 0)
        BY <1>2 DEF IInv, Placed
    <2> QED
        BY <2>4, <2>5
<1>6. Books' /\ AtMostMaxWorkers' /\ CleanRetirement'
    <2>1. \A i \in Ids : fut'[i] = "new" <=> fut[i] = "new"
        BY <1>1, <1>2, <1>3, <1>5
    <2> QED
        BY <1>1, <1>2, <2>1 DEF IInv, Books, AtMostMaxWorkers, CleanRetirement
<1>7. Registry'
    BY <1>1, <1>2 DEF IInv, Registry, Working
<1>8. Spending'
    BY <1>1 DEF IInv, Spending, Used, Left, Working
<1>9. Placed'
    <2> SUFFICES ASSUME NEW i \in Ids
                 PROVE  /\ Places(i)' <= 1
                        /\ fut'[i] # "pending" => Places(i)' = 0
                        /\ fut'[i] = "pending" /\ failures' = 0 => Places(i)' = 1
        BY DEF Placed
    <2>1. InCall(i)' = InCall(i) /\ InWork(i)' = InWork(i) /\ InHand(i)' = InHand(i)
        BY <1>1 DEF InCall, InWork, InHand
    <2>2. InResults(i)' = InResults(i) - One(r, i)
        <3>1. InResults(i)' = InResults(i) - One(<<"done", r>>, <<"done", i>>)
            BY <1>1, <1>2, <1>3, AtTail DEF InResults
        <3>2. One(<<"done", r>>, <<"done", i>>) = One(r, i)
            BY DEF One
        <3> QED
            BY <3>1, <3>2
    <2>3. Places(i)' = InWork(i)' + InCall(i)' + InHand(i)' + InResults(i)'
        BY <1>4 DEF Places, At, TypeOK, InWork, InCall, InHand, InResults
    <2>4. /\ InWork(i) \in Nat /\ InCall(i) \in Nat /\ InHand(i) \in Nat /\ InResults(i) \in Nat
          /\ Places(i) = InWork(i) + InCall(i) + InHand(i) + InResults(i)
        BY PlacesSum DEF IInv
    <2>5. One(r, i) \in Nat
        BY DEF One
    <2>6. Places(i)' = Places(i) - One(r, i) /\ Places(i) \in Nat
        BY <2>1, <2>2, <2>3, <2>4, <2>5
    <2>7. CASE i = r
        <3>1. Places(i)' = 0 /\ fut'[i] = "done"
            BY <1>1, <1>3, <1>5, <2>6, <2>7 DEF One
        <3> QED
            BY <3>1
    <2>8. CASE i # r
        <3>1. Places(i)' = Places(i) /\ fut'[i] = fut[i] /\ failures' = failures
            BY <1>1, <1>3, <2>6, <2>8 DEF One
        <3> QED
            BY <3>1 DEF IInv, Placed
    <2> QED
        BY <2>7, <2>8
<1> QED
    BY <1>4, <1>6, <1>7, <1>8, <1>9 DEF IInv

(* The manager thread reads that a worker leaves and takes it out. *)
LEMMA ReadPidIInv == ASSUME IInv, ReadPid PROVE IInv'
<1> USE DEF mainVars, queueVars, workerVars, spawnVars, managerVars, limitVars
<1> DEFINE w == Head(results)[2]
           S == {"done", "pid", "trace"} \X (Ids \cup Workers)
<1>1. /\ ManagerLoops /\ results # <<>> /\ results' = Tail(results)
      /\ processes' = processes \ {w} /\ released' = released \cup {w} /\ joining' = w
      /\ UNCHANGED <<mainVars, fut, workIds, callQueue, workerVars, spawned, broken, limitVars>>
    BY DEF ReadPid
<1>2. /\ w \in Workers /\ Head(results) = <<"pid", w>> /\ Head(results) \in Range(results)
      /\ Range(results') \subseteq Range(results)
    BY <1>1, HeadOfResults DEF ReadPid
<1>3. results \in Seq(S) /\ results' \in Seq(S)
    BY <1>1 DEF IInv, TypeOK
<1> HIDE DEF w
<1>4. Working /\ Working'
    BY <1>1 DEF ManagerLoops, Working
<1>5. worker[w] = "retiring" \/ w \in released
    BY <1>2 DEF IInv, Registry
<1>6. w \in 1 .. spawned
    <2>1. worker[w] = "retiring" => ~(w > spawned)
        BY <1>2 DEF IInv, Books
    <2>2. w \in Nat /\ w >= 1 /\ spawned \in Nat
        BY <1>2, Constants DEF IInv, TypeOK, Workers
    <2> QED
        BY <1>5, <2>1, <2>2 DEF IInv, Registry
<1>7. TypeOK' /\ Books'
    BY <1>1, <1>2, <1>3 DEF IInv, TypeOK, Books
<1>8. AtMostMaxWorkers' /\ CleanRetirement'
    <2>1. processes \subseteq Workers
        BY DEF IInv, TypeOK
    <2>2. IsFiniteSet(processes)
        BY <2>1, Constants, FS_Subset
    <2>3. Cardinality(processes') <= Cardinality(processes) /\ Cardinality(processes') \in Nat
        BY <1>1, <2>2, FS_Subset, FS_CardinalityType
    <2>4. Cardinality(processes) <= MaxWorkers /\ Cardinality(processes) \in Nat
        BY <2>2, FS_CardinalityType DEF IInv, AtMostMaxWorkers
    <2> QED
        BY <1>1, <2>3, <2>4, Constants DEF IInv, AtMostMaxWorkers, CleanRetirement
<1>9. Registry'
    BY <1>1, <1>2, <1>4, <1>6 DEF IInv, Registry, Working
<1>10. Spending'
    <2>1. Left' = Left
        BY <1>1, <1>2, <1>5 DEF Left
    <2> QED
        BY <1>1, <1>4, <2>1 DEF IInv, Spending, Used
<1>11. Placed'
    <2> SUFFICES ASSUME NEW i \in Ids PROVE Places(i)' = Places(i)
        BY <1>1 DEF IInv, Placed
    <2>1. InCall(i)' = InCall(i) /\ InWork(i)' = InWork(i) /\ InHand(i)' = InHand(i)
        BY <1>1 DEF InCall, InWork, InHand
    <2>2. InResults(i)' = InResults(i) - One(<<"pid", w>>, <<"done", i>>)
        BY <1>1, <1>2, <1>3, AtTail DEF InResults
    <2>3. One(<<"pid", w>>, <<"done", i>>) = 0
        BY DEF One
    <2>4. Places(i)' = InWork(i)' + InCall(i)' + InHand(i)' + InResults(i)'
        BY <1>7 DEF Places, At, TypeOK, InWork, InCall, InHand, InResults
    <2>5. /\ InWork(i) \in Nat /\ InCall(i) \in Nat /\ InHand(i) \in Nat /\ InResults(i) \in Nat
          /\ Places(i) = InWork(i) + InCall(i) + InHand(i) + InResults(i)
        BY PlacesSum DEF IInv
    <2> QED
        BY <2>1, <2>2, <2>3, <2>4, <2>5
<1> QED
    BY <1>7, <1>8, <1>9, <1>10, <1>11 DEF IInv

(* The manager thread finds a dead worker and flags the executor broken. *)
LEMMA BreakIInv == ASSUME IInv, Break PROVE IInv'
<1> USE DEF mainVars, queueVars, workerVars, spawnVars, managerVars, limitVars
<1>1. /\ ManagerLoops /\ broken' = TRUE
      /\ fut' = [i \in Ids |-> IF fut[i] = "pending" THEN "failed" ELSE fut[i]]
      /\ workIds' = <<>> /\ callQueue' = <<>> /\ results' = <<>> /\ processes' = {}
      /\ worker' = [w \in Workers |-> IF worker[w] = "unborn" THEN "unborn" ELSE "exited"]
      /\ running' = [w \in Workers |-> 0]
      /\ UNCHANGED <<mainVars, completed, spawned, released, joining, limitVars>>
    BY DEF Break
<1>2. Working /\ ~Working' /\ joining = 0
    BY <1>1 DEF ManagerLoops, Working
<1>3. failures > 0
    <2>1. CASE results # <<>> /\ Head(results)[1] = "trace"
        BY <2>1, HeadOfResults DEF IInv, Registry
    <2>2. CASE \E w \in processes : worker[w] = "exited"
        <3>1. failures # 0
            BY <1>2, <2>2 DEF IInv, Registry
        <3> QED
            BY <3>1, Constants DEF IInv, TypeOK
    <2> QED
        BY <2>1, <2>2 DEF Break
<1>4. TypeOK'
    <2>1. <<>> \in Seq(Ids) /\ <<>> \in Seq({"done", "pid", "trace"} \X (Ids \cup Workers))
          /\ Len(<<>>) <= QueueSize
        BY Constants
    <2>2. /\ fut' \in [Ids -> {"new", "pending", "done", "failed"}]
          /\ worker' \in [Workers -> WorkerStates] /\ running' \in [Workers -> Ids \cup {0}]
        BY <1>1 DEF IInv, TypeOK, WorkerStates
    <2> QED
        BY <1>1, <2>1, <2>2 DEF IInv, TypeOK
<1>5. Books'
    <2>1. \A i \in Ids : fut'[i] = "new" <=> fut[i] = "new"
        BY <1>1
    <2>2. \A w \in Workers : /\ worker'[w] \in {"unborn", "exited"} /\ running'[w] = 0
                             /\ worker'[w] = "unborn" <=> worker[w] = "unborn"
        BY <1>1
    <2>3. Range(results') = {}
        BY <1>1, RangeEmpty
    <2> QED
        BY <1>1, <2>1, <2>2, <2>3 DEF IInv, Books
<1>6. Registry'
    <2>1. Range(results') = {}
        BY <1>1, RangeEmpty
    <2>2. \A i \in Ids : fut'[i] # "pending"
        BY <1>1
    <2> QED
        BY <1>1, <1>2, <2>1, <2>2 DEF IInv, Registry, ManagerLoops
<1>7. AtMostMaxWorkers' /\ CleanRetirement'
    BY <1>1, <1>3, FS_EmptySet, Constants DEF AtMostMaxWorkers, CleanRetirement
<1>8. Spending'
    <2>1. Used' \subseteq Used
        BY <1>1 DEF Used
    <2>2. IsFiniteSet(Used) /\ Cardinality(Used) \in Nat
        BY Constants, FS_Subset, FS_CardinalityType DEF Used
    <2>3. Cardinality(Used') <= Cardinality(Used) /\ Cardinality(Used') \in Nat
        BY <2>1, <2>2, FS_Subset, FS_CardinalityType
    <2>4. /\ Len(callQueue) \in Nat /\ Len(workIds) \in Nat /\ submitted \in Nat
          /\ Len(callQueue') = 0 /\ Len(workIds') = 0 /\ submitted' = submitted
        BY <1>1, Constants DEF IInv, TypeOK
    <2>5. Cardinality(Used) + Len(callQueue) + Len(workIds) <= submitted
        BY DEF IInv, Spending
    <2>6. Cardinality(Used') + Len(callQueue') + Len(workIds') <= submitted'
        BY <2>2, <2>3, <2>4, <2>5
    <2> QED
        BY <1>1, <1>2, <2>6 DEF IInv, Spending
<1>9. Placed'
    <2> SUFFICES ASSUME NEW i \in Ids PROVE Places(i)' = 0 /\ fut'[i] # "pending"
        BY DEF Placed
    <2>1. At(running', i) = {}
        BY <1>1, Constants DEF At, Ids
    <2>2. InWork(i)' = 0 /\ InCall(i)' = 0 /\ InResults(i)' = 0 /\ InHand(i)' = 0
        BY <1>1, <2>1, AtEmpty, FS_EmptySet DEF InWork, InCall, InResults, InHand
    <2>3. Places(i)' = InWork(i)' + InCall(i)' + InHand(i)' + InResults(i)'
        BY <1>4 DEF Places, At, TypeOK, InWork, InCall, InHand, InResults
    <2> QED
        BY <1>1, <2>2, <2>3
<1> QED
    BY <1>4, <1>5, <1>6, <1>7, <1>8, <1>9 DEF IInv

-----------------------------------------------------------------------------
(* The specification. *)

(* Every step keeps the invariant. *)
LEMMA NextIInv == ASSUME IInv, [Next]_vars PROVE IInv'
<1>1. CASE Spawns
    BY <1>1, SpawnsIInv
<1>2. CASE Parent
    BY <1>2, ParentIInv
<1>3. CASE \E w \in Workers : Acts(w)
    BY <1>3, ActsIInv
<1>4. CASE Reads
    BY <1>4, FeedIInv, ReadResultIInv, ReadPidIInv, BreakIInv DEF Reads
<1>5. CASE UNCHANGED vars
    <2> USE DEF vars, mainVars, queueVars, workerVars, spawnVars, managerVars, limitVars
    <2>1. TypeOK'
        BY <1>5 DEF IInv, TypeOK
    <2>2. Books'
        BY <1>5 DEF IInv, Books
    <2>3. Registry'
        BY <1>5 DEF IInv, Registry, Working
    <2>4. Spending'
        BY <1>5 DEF IInv, Spending, Used, Left, Working
    <2>5. Placed' /\ AtMostMaxWorkers' /\ CleanRetirement'
        BY <1>5 DEF IInv, Placed, Places, AtMostMaxWorkers, CleanRetirement
    <2> QED
        BY <2>1, <2>2, <2>3, <2>4, <2>5 DEF IInv
<1>6. Next => Spawns \/ Parent \/ (\E w \in Workers : Acts(w)) \/ Reads
    BY DEF Next, WorkerStep, ManagerStep, Spawns, Parent, Acts, Reads
<1> QED
    BY <1>1, <1>2, <1>3, <1>4, <1>5, <1>6

(* The inductive invariant: the worker loop of _process_worker_countdown, the
   spawning of __enter__ and submit, and loky's manager keep their books. *)
THEOREM Invariance == Spec => []IInv
<1>1. Init => IInv
    BY InitIInv
<1>2. IInv /\ [Next]_vars => IInv'
    BY NextIInv
<1> QED
    BY <1>1, <1>2, PTL DEF Spec

(* Types; among them that no more workers are ever started than max_workers,
   the items submitted and the idle timeouts account for. *)
THEOREM TypeCorrect == Spec => []TypeOK
<1>1. IInv => TypeOK
    BY DEF IInv
<1> QED
    BY <1>1, Invariance, PTL

(* Every step keeps track of the living: a worker is registered when it is
   started, joined when the manager takes it out, and forgotten when it exited. *)
LEMMA NextKnown == ASSUME IInv, Known, [Next]_vars PROVE Known'
<1> USE DEF mainVars, queueVars, workerVars, spawnVars, managerVars, limitVars
<1>1. 0 \notin Workers /\ worker \in [Workers -> WorkerStates]
    BY DEF Workers, IInv, TypeOK
<1>2. CASE Spawns
    <2>1. /\ processes \subseteq processes'
          /\ \A w \in Workers : worker'[w] = worker[w] \/ w \in processes'
        <3>1. /\ processes' = processes \cup (spawned + 1 .. spawned')
              /\ spawned \in Nat /\ spawned' \in Nat
              /\ \A w \in Workers : worker'[w] # worker[w] =>
                     worker[w] = "unborn" /\ worker'[w] = "starting"
              /\ \A w \in Workers : worker'[w] = "unborn" <=> w > spawned'
              /\ \A w \in Workers : worker[w] = "unborn" <=> w > spawned
            <4>1. /\ spawned \in 0 .. MaxSpawn /\ MaxSpawn \in Nat
                  /\ \A w \in Workers : worker[w] = "unborn" <=> w > spawned
                BY Constants DEF IInv, TypeOK, Books
            <4>2. /\ processes' = processes \cup (spawned + 1 .. spawned')
                  /\ spawned' \in 0 .. MaxSpawn
                  /\ \A w \in Workers : worker'[w] # worker[w] =>
                         worker[w] = "unborn" /\ worker'[w] = "starting"
                  /\ \A w \in Workers : worker'[w] = "unborn" <=> w > spawned'
                BY <1>2, SpawnsEffect
            <4> QED
                BY <4>1, <4>2
        <3>2. ASSUME NEW w \in Workers, worker'[w] # worker[w] PROVE w \in spawned + 1 .. spawned'
            <4>1. w \in Nat /\ w > spawned /\ ~(w > spawned')
                BY <3>1, <3>2 DEF Workers
            <4> QED
                BY <3>1, <4>1
        <3> QED
            BY <3>1, <3>2
    <2>2. joining' = joining \/ worker[joining] = "exited"
        BY <1>2 DEF Spawns, Enter, WarmUpSubmits, Submit, SubmitItem, Joined
    <2> QED
        BY <1>1, <2>1, <2>2 DEF Known, Live
<1>3. CASE Parent
    <2>1. /\ UNCHANGED <<worker, joining>>
          /\ processes' = processes \/ \A w \in processes : worker[w] = "exited"
        BY <1>3 DEF Parent, Warm, EnterRaises, Exit, StopWorkers, Closed
    <2> QED
        BY <2>1 DEF Known, Live
<1>4. CASE \E w \in Workers : Acts(w)
    BY <1>4, ActsFrame DEF Known, Live
<1>5. CASE ReadPid
    <2>1. joining = 0 /\ worker' = worker /\ processes' = processes \ {joining'}
        BY <1>5 DEF ReadPid, ManagerLoops
    <2> QED
        BY <1>1, <2>1 DEF Known, Live
<1>6. CASE Break
    <2>1. \A w \in Workers : worker'[w] \in {"unborn", "exited"}
        BY <1>6 DEF Break
    <2> QED
        BY <2>1 DEF Known, Live
<1>7. CASE FeedCallQueue \/ ReadResult \/ UNCHANGED vars
    <2>1. UNCHANGED <<worker, processes, joining>>
        BY <1>7 DEF FeedCallQueue, ReadResult, vars
    <2> QED
        BY <2>1 DEF Known, Live
<1>8. Next => Spawns \/ Parent \/ (\E w \in Workers : Acts(w)) \/ Reads
    BY DEF Next, WorkerStep, ManagerStep, Spawns, Parent, Acts, Reads
<1> QED
    BY <1>2, <1>3, <1>4, <1>5, <1>6, <1>7, <1>8 DEF Reads

(* So the living are the registered and at most one more. *)
LEMMA KnownBounds == ASSUME IInv, Known PROVE LiveAreBounded
<1>1. /\ IsFiniteSet(processes) /\ Cardinality(processes) \in Nat
      /\ Cardinality(processes) <= MaxWorkers /\ MaxWorkers \in Nat
    BY Constants, FS_Subset, FS_CardinalityType DEF IInv, TypeOK, AtMostMaxWorkers
<1>2. Live \subseteq processes \cup {joining}
    BY DEF Known, Live
<1>3. Cardinality(Live) \in Nat /\ Cardinality(Live) <= Cardinality(processes) + 1
    BY <1>1, <1>2, AtMostOneMore
<1>4. CASE joining \in Live
    BY <1>1, <1>3, <1>4 DEF LiveAreBounded
<1>5. CASE joining \notin Live
    <2>1. Live \subseteq processes
        BY <1>2, <1>5
    <2>2. Cardinality(Live) <= Cardinality(processes)
        BY <1>1, <2>1, FS_Subset
    <2> QED
        BY <1>1, <1>3, <1>5, <2>2 DEF LiveAreBounded
<1> QED
    BY <1>4, <1>5

(* However retirements, timeouts, replacements and submits interleave, no more
   than max_workers worker processes live, and one that the manager joins. *)
THEOREM WorkersAreBounded == Spec => []LiveAreBounded
<1>1. Init => Known
    BY DEF Init, Known, Live
<1>2. IInv /\ Known => LiveAreBounded
    BY KnownBounds
<1>3. IInv /\ Known /\ [Next]_vars => Known'
    BY NextKnown
<1> QED
    BY <1>1, <1>2, <1>3, Invariance, PTL DEF Spec

(* The executor is flagged broken only after a worker really failed: neither
   retirement nor a timeout is taken for a crash. *)
THEOREM RetirementIsClean == Spec => []CleanRetirement
<1>1. IInv => CleanRetirement
    BY DEF IInv
<1> QED
    BY <1>1, Invariance, PTL

(* An item is neither lost nor run twice by a worker that retires: while it is
   pending it is in one queue or one worker, and in none once it is done. *)
THEOREM ItemsStayInOnePlace == Spec => []OnePlace
<1>1. IInv => OnePlace
    BY DEF IInv, Placed, OnePlace
<1> QED
    BY <1>1, Invariance, PTL
=============================================================================
