# A verification project for ihate-library

TLA+ models of the parts of `ihate_work` that keep state and are used from several threads, processes or
callbacks; TLC configurations that check them on small instances; TLAPS proofs of what matters most for every
instance. `PROJECT.json` lists the runs, the source lines of every definition, the hazards, the findings and the
theorems. Paths below are relative to `src/ihate_work/` of the repository.

Check a run with `tlc -config Storage.cfg MCStorage`, proofs with `tlapm RecyclingPool2_proofs.tla`.

## The system

The library is a collection of helpers for batch and LLM work. The parts hardly call each other; what makes each
one hard is how its callers use it: from several threads, through futures and callbacks that run elsewhere, from
several processes on one file, or through generators that stay suspended half-way.

| Component | State | Operations | What is hard | What makes it correct |
|---|---|---|---|---|
| `util/concurrency/recycling_pool2.py` `RecyclingPool2` | `_pool`, `_gen`, `_tasks`, `_cleanup_threads` under one lock; one background thread per retired executor | `__enter__`, `__exit__`, `submit`, `recycle_if_needed` | threads, done-callbacks that submit, broken executors, executors draining behind the caller's back | submissions reach an open executor; each executor is retired after enough tasks, freed, and finished when `__exit__` returns |
| `util/concurrency/recycling_pool.py` `RecyclingPool` | `_pool`, `_tasks` under one lock | the same, with `drain_fn` | the lock is held while an executor drains, and released between the decision to recycle and the swap | one executor at a time, never discarded with work on it; waits end |
| `util/concurrency/loky_executor.py` `LokyExecutor` | loky's queues and process table, a task count per worker | prefork warm-up, worker loop, retirement, spawning | retirement, idle timeout, leak check and crash of workers racing the manager thread | no item lost or run twice, live processes bounded, a retirement never looks like a crash |
| `util/concurrency/workers.py` `run_in_workers` | the pending set, all futures | one loop over the caller's generator | barriers, failures, exceptions in the generator | back-pressure, barriers that hold, nothing left running |
| `util/versatile.py` | a global dictionary of caches, and one per streamlit session | `with_global_cache`, `with_st_session_cache`, `in_worker`, calls | two lock regions around an unlocked computation; keys that are hashes | a cached call returns what the function returns |
| `llm/langchain/sqlite_byte_store.py` | one SQLite connection per store, its implicit transaction | `mget`, `mset`, `mdelete`, `yield_keys` | re-entrance: the iterable of `mset` and suspended listings share the connection and its transaction; other processes on the file | what `mset` acknowledges is committed or was visibly taken back; what it refuses is not |
| `storage/pg_storage.py` | a connection pool | statements, queries, streams, `close` | abandoned streams, lost connections, `close` at any time | no working connection leaked; the outcome tells what was committed |
| `storage/duckdb_storage.py` | a root connection, `_is_newly_created` | open, cursors, streams, import, delete | several objects and processes opening one file | whoever created the file knows |
| `util/iter.py` `IteratorChain`, `batched` | the local variables of one generator per adapter, `_moved` | adapters, `__next__`, `to_list`, `group_into_dict` | generators that pull from one another, stay suspended and die of a caller's exception; a chain that was moved can still drain the shared generators | what arrives is what the eager adapters make of the list; nothing is read too early |
| `util/prefix_counter.py` `PrefixCounter` | a tree with a count and a sample at each node | `add`, `own_count` | `add` counts on the way down and may raise half-way | counts agree with the tuples given |
| `util/nlp/cjk_variants/` | a union-find; downloaded files, `variants.jsonl` | `find`, `union`, `clusters`; `build`; `VariantMap` | path halving rewrites the forest that is being walked; downloads that are cut off, builds that die, a file shipped by the package and loaded while it is rewritten | clusters are connected components; every map that loads is a normalisation |
| `o11y/`, `bootstrap/` | the root logger's handlers, two set-up-once flags | import, `setup_structlog`, `setup_otel`, `emit` | the flag is set before work that may raise; the list of handlers is read and assigned without a lock; handlers share a record | a record is printed, exported and filed once, and no handler disturbs another |
| `util/uniq_by.py` | none | one dictionary comprehension | | |
| `util/perf`, `util/meta`, `util/text_cleaner`, `llm/llm_clients`, `llm/litellm`, `llm/langchain` factories | none worth a model | arithmetic, import hooks, regular expressions, HTTP wrappers | | |

## Modules

| Module | Models | How it corresponds to the code |
|---|---|---|
| `ProcessPool` | `concurrent.futures.ProcessPoolExecutor` (external) | executors numbered by creation; `Handed` and `Refused` are the two ends of a submit call, `Resolve` a future that gets its result in the manager thread and enters its done-callback, `WorkerDies` a broken pool; `Drained` is what `shutdown(wait=True)` waits for |
| `TaskService` | the promise of both pools, without executors | a session opens, accepts tasks, finishes them all, closes |
| `RecyclingPool2` | the pool that recycles in the background | every `with self._lock` block is one action (it never waits); `ExitJoined` and `ExitReturns` are `__exit__` after the lock; `CleanerShutsDown` and `CleanerEnds` are `_shutdown_pool` in its thread; `CallbackSubmit` is `submit` in a manager thread |
| `RecyclingPool` | the pool that drains first | the lock has a holder; a block that waits for an executor is two actions and others queue up; `recycle_if_needed` is two blocks with `drain_fn` in between |
| `LokyExecutor` | the worker loop and the manager's protocol | `worker[w]` is the place in `_process_worker_countdown`; queues are sequences; the manager thread's turns are `FeedCallQueue`, `ReadResult`, `ReadPid`, `Joined`, `Break` |
| `Workers` | `run_in_workers` and `wait_pending` | `pc` is the place in the two functions; a turn of the wait loop is `WaitTurn`; the arguments are chosen in `Init` |
| `Versatile` | the cached call | lookup, computation and store are three actions; a function may return something else from call to call (`Results`); a store of caches (the global one, or a session's) is a map from signature to hash to value; a call without a cache computes and returns |
| `SqliteByteStore` | the store and its transaction | `MSet`, `Insert` (one pair each), `MSetReturns`, `MSetRaises` are `mset`; the other operations may run between two inserts, as the iterable may call them; `Commit` and `Rollback` are the two ends of `with self.conn`, and `CallRaises` is any call that leaves its block by an exception |
| `PgStorage` | `use_conn` and what runs in it | one `pc` per operation through `getconn`, body, commit or rollback, `putconn`; a stream is a body that stays open; `Drop` loses the server's end of a connection, and the client finds out when it next sends something, which may be in `putconn` (`PutRaises`) |
| `DuckdbStorage` | objects on one file | the constructor is `LookForFile` and `Connect`; streams and cursors are counted; an object in use is not deleted, a caller's cursor outlives it |
| `IteratorChain` | adapters as generators | a request travels down the chain (`AskBelow`, `SourceReplies`) and its reply up (`PassItem`, `PassStop`, `PassError`): each is one step of one generator; `gens[i]` are its locals; an item is the sequence of source elements it is made of, so a chunk or a mapped item can be told from others |
| `PrefixCounter` | the tree | a node is named by its prefix; `add` is one action, also when it raises after the nodes above have counted |
| `Partition` | the promise of a union-find: classes and joined pairs | |
| `UnionFind` | `_UnionFind` as `_build` drives it | every iteration of the loop of `find` is a step (`Climb`), because it rewrites the forest; `clusters` visits its keys in any order |
| `VariantBuild` | the build and the map | downloads, parsing, opening, flushes and the close of the output are actions; `DownloadCut` and `BuildDies` may end a build anywhere; a load reads some lines at a time (`LoadBegins`, `LoadReads`, `LoadEnds`, `LoadRaises`) while the build goes on; at first the file is the shipped one or none; the clusters are those of `Partition` |
| `LogSetup` | logging set-up | every statement that touches the list of handlers is an action, and raises where it may (`ImportRaises`, `LevelRaises`, `AddRaises`); `Log` sends a record through the handlers in order |
| `MC*` | instances for TLC | a behaviour of `MCStorage`, `MCUtil` or `MCVariants` is of one of the components they hold, which share nothing; `Parts` (or the initial choice) says which, and an invariant is evaluated where its component runs |
| `*_proofs` | theorems | a module of proofs for each module or group of modules, see below |

Mutants are wrong variants of a definition, written just before it and marked; each checked property fails when one
of them takes the definition's place.

## Runs

No run looks for deadlock, because the systems really stop: callers submit a bounded number
of tasks, `run_in_workers` returns, calls are counted.

| Run | Instance | Shows |
|---|---|---|
| `rp2` | 2 threads, 3 tasks, one submitted by another's callback, 3 executors, threshold 1 | the pool's invariants, that retired executors are freed, and that it implements `TaskService` with its liveness |
| `rp1` | the same | one executor at a time, drained before it goes, waits end; safety part of `TaskService` |
| `rp1_recycle` | no callbacks | finding: of two threads that decided on one count, the second recycles the fresh executor of the first |
| `rp1_callback` | a callback that submits | finding: `__exit__` and the callback wait for each other |
| `loky` | 2 workers, retirement after 3, 4 items of which 2 noops, an idle timeout, leaks, a failure | no item lost, at most `max_workers` live processes and the one that the manager waits for, clean retirement, every item resolved, `__exit__` returns |
| `loky_warm` | 2 workers, retirement after 2 | finding: `__enter__` returns before every worker is warm |
| `workers` | 0 to 2 workers, queue length default or 1, 5 futures | the generator is resumed in time (back-pressure, barriers), an end is clean, termination |
| `util` | cache: 2 threads, 2 functions, one of which may return two values, 2 arguments, 2 stores or none, 4 calls; chains of up to 2 of 12 adapters over lists of up to 3 items; 4 adds of 9 tuples, reservoirs of 2; 2 threads that set logging up, one foreign handler | right answers, and entries that settle; lazy chains agree with eager ones and read no more than they need; counts add up; logging is set up once and handlers do not disturb one another |
| `variants` | unions of 4 characters; 3 dictionaries over 5 characters, a shipped file of other pairs | the union-find implements `Partition` and its clusters are the connected components; a loaded map is a normalisation, a finished build has written the clusters |
| `cache_collision` | two arguments of one hash | finding: wrong answer |
| `storage` | 2 stores and 2 keys, 2 `mset` calls; 3 operations on at most 2 connections; 4 objects in 3 processes | what is acknowledged is stored or was taken back by an inner block, no working connection leaks, the creator of a file knows |
| `sqlite_abandon` | the byte stores alone | finding: a call that raises, or a listing that is dropped, inside `mset`'s iterable takes its pairs back, and `mset` returns |

Bounds. Two threads and a third task behind a callback give every pair of methods a chance to overlap; three
executors are one current, one draining and one of a later session. With a threshold of 1 every submit allows a
recycle. Two loky workers with a threshold of 3 and four items let a worker retire by its count while items wait;
the noops count as in the code. Five futures exceed the default queue length of two workers. Two stores are enough for a lock-out
in either direction, two keys for half a batch. Three operations on two connections meet an exhausted pool.

Two calls in one store and one outside it, or two that miss together and a third that reads what they stored, are within
four calls. Two adapters show every pair of neighbours, and a third would only ask the second as the
second asks the first; three items are a full chunk and a part of one, with a duplicate;
longer chains and lists are covered by the proof. Four characters are the fewest
that give a root of rank 2 and a `find` that halves a path of length two; the proof covers the rest. The dictionaries have
two clusters that are joined across files and a cut that would join them wrongly.

The `variants` run takes permutations of the characters of the union-find as symmetric: the module compares characters for
equality only, and the properties checked are safety properties that name none. No other run uses symmetry.

Fairness. Started threads run; a task's function returns, so its future is resolved; manager threads run their
callbacks; the runner of `run_in_workers` is scheduled. Weak fairness of these steps is all that is assumed: no caller is obliged to
submit, to recycle or to leave, and in `RecyclingPool` no thread is promised the lock. A generator may stop yielding, so
`RunEnds` speaks of the waits and the exit only. Storage, cache, iterators, the variant
build and the logging set-up state no liveness: they wait for their callers, for the server or for the network.

## Proofs

TLAPS checks, for every value of the constants that the named assumptions allow:

- `RecyclingPool2_proofs`: `TypeOK`, `CurrentPoolOpen`, `CountIsAttempts`, `ThresholdRespected`. The invariants hold
  together: the number of the current executor is `_gen`, every executor that exists was numbered before, an
  executor whose number was not given out has no attempts, and one with a cleanup thread was retired. From that a
  submit raises the count and the attempts of the same executor, and a recycle, which finds the count at the
  threshold, finds as many attempts. This part does not need `recycle_if_needed` to be called inside a session.
  Under `~LateRecycle`, when it is called inside the `with` statement as in the docstring and the tests, a second
  invariant (`SInv`) follows the executors of a session from `submit` to the threads that `__exit__` joins. It gives
  `NothingLeftBehind`, and the safety part of `TaskService`: each step of the pool is a step of a service without
  executors, or none. The liveness part of `ImplementsService` stays with TLC.
- `RecyclingPool_proofs`: `TypeOK`, `OneExecutor`, `GoneIsDrained`, and `ImplementsService`. The invariant says that at
  most one executor is alive, that whoever waits for an executor to drain holds the lock, that tasks are of the session that runs, and
  that an executor that is gone was drained; it covers overlapping recycles and callbacks that submit.
- `Workers_proofs`: `TypeOK`, `ResumesInTime`, `EndIsClean`, for any number of workers and futures and any queue length. The
  books relate the pending set to the futures that run; `LookedAt` says what a turn of the wait loop has seen,
  `Barriers` that a barrier is met before the generator goes on, `Ends` what each way out has waited for.
- `LokyExecutor_proofs`: `TypeOK`, `LiveAreBounded`, `CleanRetirement`, `OnePlace`, for any numbers of workers, items,
  timeouts and failures. `Registry` says that the process table is what was started less what was released; `Known`,
  that a worker that lives is registered or is the one that the manager joins; `Spending`
  that a worker that left took an item or timed out, from which the number ever started is bounded; `Placed`
  counts the occurrences of an item in the queues, in workers' hands and among the results, which is one while it is pending.
- `Storage_proofs`, for the three classes of `MCStorage`. Byte store: `TypeOK` and `LockOnlyInCall`;
  `UntouchedWhenRaised`; `StoredOrUndone`. The strengthening is that
  what is written and not committed is written under the lock, that an `mset` left alone by its iterable is still in its
  transaction and has lost nothing, and that every pair of a batch is waiting, written, committed or taken back. `PgStorage`, for finitely many operations
  and any bounds of the pool: `NoConnectionLeaked` and `OutcomeTellsEffect`; the invariant says which connection is
  lent to whom or stays behind, closed, because `putconn` found its link lost, whose work is open on it, and how far each operation got. `DuckdbStorage`, for any objects and
  processes: `CreatorKnows`, because as long as there is no file every object that has looked for it says that it is new.
- `Util_proofs`, for the four parts of `MCUtil`.
  Cache: the types and `EntriesSettle` outright, for functions that return something else each time and keys that
  collide: an entry changes only by threads that missed it before it was there, once each. `AnswersRight` from `NoCollision`, the
  condition that calls sharing an entry may return the same. `AnswersRight` is not inductive: one needs that a thread holds the right result
  (`ComputedRight`) and that every entry is right for every call that can find it (`EntriesRight`). `cache_collision`
  shows that the condition is needed, and that CPython's hashes do not meet it.
  Logging: `SetUpOnce` and `HandlersSeeTheSame`, for any number of callers. Whoever dresses the root logger is alone,
  since the flag is set before the work, so each phase of `setup_structlog` fixes how many handlers of each kind there
  are, and so does each place where it may raise; other code may add its own at any time. The list comprehension that drops the default handler is shown to drop no
  other, and the record that travels through the handlers to be the same at each of them.
  Prefix counter: `CountsAddUp`, for any finite set of tuples. A node counts the tuples whose path it is on; a path that does not
  end at a node goes on to exactly one of its children, so what the children count are disjoint sets, and their sum is the count of
  the union.
  Iterator chain: its types. `UtilTypeCorrect` is the type invariant of the four.
- `IteratorChain_proofs`: `AgreesWithEager` and `ReadsOnlyWhatItNeeds`, for any lists, chains of any length of the nine adapters with any
  numbers, any functions of the caller (`map` gives an item and `flatmap` a list of items, which may be empty; any of them may
  raise on any items) and any order of `next`, `to_list` and replacements. These are the assumptions `ChainValues`, with the bounds of
  `UtilArguments`. The locals of a generator do not remember what went by, so the invariant (`ChainInv`) says that
  some history `o` explains the state, where `o[i]` is what generator `i` has delivered to the one above. What a generator has delivered,
  with what is on its way and in its queue, is what its adapter makes of what it has read (`GenRight`), and its locals are what the
  adapter has to know of that: a count, the keys seen, the items since the last multiple of `n` (`Remembers`). It has read no more than
  it needs: of a shorter list its adapter would have made less than it delivered, or it was asked for more (`GenLazy`, `Slack`).
  A generator that is done has read the end, or is a `take` that has seen one item too many (`Sated`), and the end is reported only by a
  generator that has nothing more to give (`Complete`). From bottom to top, what a generator delivered then begins what the
  adapters make of the whole list, and is all of it at the end; and what they make of fewer elements is shorter than what was
  delivered. After an exception a dead generator stands in the way: nothing comes from it or from above it again (`DeadFrom`), so
  what was received stays the beginning that it was. Once a chain that was moved is read, two callers share its generators and
  the two properties, hence the invariant, say nothing.
- `Variants_proofs`. `UnionFind`, for any set of characters that the empty mark of a local variable is not one of: `TypeOK`,
  `ClustersAreClasses`, that ranks grow towards the root (no `find` can go round in a circle), and that `UnionFind`
  implements `Partition`. Classes are said without recursion: a set of characters is *closed* when it holds a character exactly if it
  holds its parent, and a tree is what no closed set separates. The invariant says that the closed sets are those that
  cut through no joined pair, so trees are connected components at any time, also in the middle of a `find`; and that some
  function gives every character its root, a function that path halving leaves alone and that linking two roots changes
  for one tree. From it the last step of a union is a step of `Partition`, and every other step a stutter.
  `VariantBuild`, for any dictionaries over finitely many characters: `LoadedIsSound`, `OutputMatchesSources` and the
  types of the build and the union-find. Once a build has opened the output the downloaded files change no more, so whatever is written,
  flushed or read is an initial part of one list, which has each cluster of more than one character once; before, it is that of
  the shipped file. Clusters are disjoint
  because the complement of a set that cuts no pair cuts none.

`CountIsAttempts` and `LockOnlyInCall` are stated by theorems only: they are parts of the arguments above and no run needs them.

Every invariant and every safety refinement that a passing run checks is proved. Where a definition is a recursive function
(the sum of `own_count`, the record that goes through the handlers, `FlattenSeq`, the stages of a chain in `ItemsFrom`) the theorems
do not use induction over data, which is out of the prover's reach: they exhibit the function and exclude a least counterexample.
The conditions of the theorems are named in their statements: `NoCollision` and `~LateRecycle` are
preconditions that a finding shows to be needed or a docstring asks for; the others say what values the constants are.
Liveness, that is the promise of `TaskService` and `RetiredIsFreed` for `RecyclingPool2`, that waits end, that items are resolved and that `run_in_workers`
terminates, is model-checked only: fairness and ENABLED are out of the prover's reach.

## Findings

The violations above are disagreements of the code with its documentation or tests; `PROJECT.json` quotes the
lines.

- `rp1_recycle`, `recycling_pool.py:88`: the lock is released between the decision to recycle and the swap, so of two threads
  that decided on one count the second drains and replaces the fresh executor of the first.
- `rp1_callback`: a done-callback that submits and `__exit__` wait for each other.
- `loky_warm`: `__enter__` returns before every worker is warm.
- `cache_collision`: arguments of one hash get each other's answers.
- `sqlite_abandon`: an exception that leaves an inner call of the same store, or a listing that is dropped, rolls the outer `mset` back;
  if the iterable goes on, `mset` returns and the rows are lost silently.

Behaviour that no run is about is part of the models and of the preconditions of their properties:

- `urlretrieve` leaves a part of a file when it is cut off and `build` does not look into a file that is there.
  `OutputMatchesSources` therefore promises the clusters of the sources only if no download was cut off, and those of
  the files otherwise; a file that ends within a character makes every later build fail at `Parse`.
- Between the assignment of the handlers and the new console handler nothing prints, and a set-up that raises in between (a level
  that `setLevel` refuses) leaves no console handler for good, as its flag is set; `SetUpOnce` names both cases. A set-up
  that raises earlier keeps the default handler. A handler that other code
  adds between the reading of the list and its assignment is lost.
- After an abandoned stream `putconn` itself rolls back. When the link was lost and nobody noticed, that raises, and the pool counts a
  closed connection as out for good: `NoConnectionLeaked` excepts it and says that it is closed.
- Threads that miss one entry together compute it each and store it over one another, so two callers may hold different
  results of one call; `EntriesSettle` says that this ends.
- A load whose file is emptied and rewritten under it may mix lines of two dictionaries, and raises if the place where it goes on is
  within an object; `LoadedIsSound` is about the other loads. What reading on within a line gives if it happens to parse is not
  modelled, since nothing is said of such a load.
- `RecyclingPool` keeps `_tasks` when a session ends and when the next one begins (`Enter`), so the first `recycle_if_needed` of that one
  may replace an executor that was never used. One thread is enough; it is not the race that `rp1_recycle` shows.
- Two objects that look for a DuckDB file before either has made it both say that it is newly created; `CreatorKnows` says that the one that
  made it does.
- `to_list` and `group_into_dict` of a chain that was moved read the generators of the longer chain;
  `AgreesWithEager` is about chains that are read at one end.
- `add` that raises leaves its count in the nodes above; `CountsAddUp` counts the tuple where it stopped.

## Not modelled

- The executor of `in_worker`: its threads are callers like any other, but a nested call that waits for a slot of the
  same executor can use it up. No document promises otherwise.
- The prefix pattern and `close` of the byte store; SQLite's read locks, as every read is finished in the statement that begins
  it. An `mset` inside the iterable of another `mset` of the same store is represented by `MDelete` when it returns and
  by `CallRaises` when it does not: a write that joins the open transaction and ends it.
- Two closures of one `def` have one signature in `versatile`; that functions share entries is the subject of `cache_collision` and
  what `NoCollision` excludes.
- The 30 seconds after which a loky worker that waits for the exit lock leaves anyway: its identifier is already on its way to the
  manager. Adapters added to a chain that was read before.
- A `Thread.start` that fails in the pools.
- Levels, filters and the coercion of values for OTLP in `o11y`, the file of `$IHATE_LOG_DIR` and the set-up of litellm in `bootstrap`.
- The treemap, `pprint` and `__str__` of `PrefixCounter`, which draw; `count` of `IteratorChain`, a fold; the random source of the
  reservoirs, which is any choice.
- `uniq_by`, `perf`, `meta`, `text_cleaner`, the LLM clients and the factories: no state, or calls to a server and nothing else.

Values of tasks, rows and documents are abstract; characters are numbers, and a dictionary line is the sequence of its words.

## Plan

1. Done: the two pools and their service, loky workers, `run_in_workers`, the cache, the storage classes, iterators, the prefix
   counter, the variants, the logging set-up; proofs of the safety properties of all of them.
2. The executor of `in_worker`, if a property of it earns its run.
