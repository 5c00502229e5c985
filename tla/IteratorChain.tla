---------------------------- MODULE IteratorChain ----------------------------
(***************************************************************************)
(* util/iter.py: IteratorChain, whose adapters are generators that pull    *)
(* from one another, and batched, a generator of the same kind.  Nothing   *)
(* is read before it is asked for, so a request travels down the chain     *)
(* until a generator has something to say, and its reply travels up.       *)
(*                                                                         *)
(* Generator 0 is the source; generator i + 1 pulls from generator i.  An  *)
(* item is the sequence of source elements it is made of.                  *)
(***************************************************************************)
EXTENDS Naturals, Sequences, SequencesExt

CONSTANTS
    Adapters,       \* records [op, n, strict] of the adapters that may be used
    MaxLinks,       \* bound: length of a chain
    Sources,        \* the lists that chains are made of
    Apply(_),       \* the caller's functions: of map,
    Spread(_),      \*   of flatmap, to a sequence of items,
    Key(_),         \*   of uniq_by,
    Keep(_),        \*   and of filter;
    Raises(_)       \* the items on which they raise

VARIABLES
    source, pos,    \* what the source iterates over, and how much it has given
    links,          \* the adapters applied so far
    gens,           \* local variables of their generators
    at,             \* the generator that runs
    reply,          \* what it is told: to go on, an item, the end or an exception
    mode, top,      \* the call that the caller waits for, and of which chain
    received,       \* items the caller got from the last chain
    ended,          \* the caller has been told that there is no more
    broken,         \* history: a generator ended with an exception
    reused          \* history: a chain was read after it was moved

chain  == <<source, links>>
caller == <<mode, top, received, ended, reused>>
vars   == <<chain, caller, pos, gens, at, reply, broken>>

Ask      == [is |-> "ask"]
Stop     == [is |-> "stop"]
Error    == [is |-> "error"]
Item(v)  == [is |-> "item", value |-> v]

(* queue: items to yield before anything else is asked for. *)
NewGen == [n |-> 0, buffer |-> <<>>, seen |-> {}, queue |-> <<>>, done |-> FALSE]

TypeOK ==
    /\ source \in Sources \cup {<<>>} /\ pos \in 0 .. Len(source)
    /\ Len(links) <= MaxLinks /\ Range(links) \subseteq Adapters
    /\ Len(gens) = Len(links)
    /\ at \in 0 .. Len(links)
    /\ reply.is \in {"ask", "item", "stop", "error"}
    /\ mode \in {"idle", "next", "to_list"}
    /\ top \in 0 .. Len(links)
    /\ {ended, broken, reused} \subseteq BOOLEAN

Init ==
    /\ source = <<>> /\ pos = 0
    /\ links = <<>> /\ gens = <<>> /\ at = 0 /\ reply = Ask
    /\ mode = "idle" /\ top = 0 /\ received = <<>>
    /\ ended = FALSE /\ broken = FALSE /\ reused = FALSE

-----------------------------------------------------------------------------
(* One item goes into a generator: its locals afterwards, with what it is to
   yield in the queue, and done when it reads no further. *)

(* Mutant: take looks at its count after it has passed the item on. *)
TakeLate(l, g, v) ==
    [g EXCEPT !.n = @ + 1, !.queue = <<v>>, !.done = (g.n = l.n)]

Take(l, g, v) ==
    IF g.n = l.n THEN [g EXCEPT !.done = TRUE] ELSE [g EXCEPT !.n = @ + 1, !.queue = <<v>>]

Skip(l, g, v) ==
    IF g.n < l.n THEN [g EXCEPT !.n = @ + 1] ELSE [g EXCEPT !.queue = <<v>>]

(* Mutant: chunk looks at its count before it adds the item. *)
ChunkLate(l, g, v) ==
    IF g.n = l.n /\ g.n > 0
    THEN [g EXCEPT !.n = 1, !.buffer = v, !.queue = <<g.buffer>>]
    ELSE [g EXCEPT !.n = @ + 1, !.buffer = @ \o v]

(* chunk(0) never finds its count reached: everything is one chunk. *)
Chunk(l, g, v) ==
    IF g.n + 1 = l.n
    THEN [g EXCEPT !.n = 0, !.buffer = <<>>, !.queue = <<g.buffer \o v>>]
    ELSE [g EXCEPT !.n = @ + 1, !.buffer = @ \o v]

Uniq(g, v, key) ==
    IF key \in g.seen THEN g ELSE [g EXCEPT !.seen = @ \cup {key}, !.queue = <<v>>]

Map(g, v)     == [g EXCEPT !.queue = <<Apply(v)>>]
Flatmap(g, v) == [g EXCEPT !.queue = Spread(v)]
Filter(g, v)  == IF Keep(v) THEN [g EXCEPT !.queue = <<v>>] ELSE g

OnItem(l, g, v) ==
    CASE l.op = "take"    -> Take(l, g, v)
      [] l.op = "skip"    -> Skip(l, g, v)
      [] l.op \in {"chunk", "batched"} -> Chunk(l, g, v)
      [] l.op = "uniq"    -> Uniq(g, v, v)
      [] l.op = "uniq_by" -> Uniq(g, v, Key(v))
      [] l.op = "map"     -> Map(g, v)
      [] l.op = "flatmap" -> Flatmap(g, v)
      [] l.op = "filter"  -> Filter(g, v)

Calls(l) == l.op \in {"uniq_by", "map", "flatmap", "filter"}

-----------------------------------------------------------------------------
(* The caller. *)

(* __init__: a chain that has not been read is made of another list. *)
New(list) ==
    /\ mode = "idle" /\ source = <<>> /\ links = <<>> /\ ~ended
    /\ source' = list
    /\ UNCHANGED <<links, pos, gens, at, reply, caller, broken>>

(* _replace: the chain is moved into a longer one.  Chains are built before
   they are read. *)
Replace(l) ==
    /\ mode = "idle" /\ pos = 0 /\ ~ended /\ ~reused
    /\ Len(links) < MaxLinks
    /\ links' = Append(links, l) /\ gens' = Append(gens, NewGen)
    /\ UNCHANGED <<source, pos, at, reply, caller, broken>>

Call(m, i) ==
    /\ mode = "idle"
    /\ mode' = m /\ top' = i
    /\ at' = i /\ reply' = Ask
    /\ UNCHANGED <<chain, pos, gens, received, ended, broken>>

(* __next__ or to_list of the last chain. *)
Read(m) == Call(m, Len(links)) /\ UNCHANGED reused

(* A chain that was moved refuses __next__, but to_list and group_into_dict do
   not look at _moved: they drain the generators that the last chain reads. *)
ReadMoved(i) == i < Len(links) /\ Call("to_list", i) /\ reused' = TRUE

(* The reply reaches the caller; to_list asks again until the end. *)
Return ==
    /\ mode # "idle" /\ at = top /\ reply # Ask
    /\ IF top = Len(links)
       THEN /\ received' = IF reply.is = "item" THEN Append(received, reply.value) ELSE received
            /\ ended' = (ended \/ reply = Stop)
       ELSE UNCHANGED <<received, ended>>
    /\ mode' = IF mode = "to_list" /\ reply.is = "item" THEN mode ELSE "idle"
    /\ reply' = Ask
    /\ UNCHANGED <<chain, pos, gens, at, top, broken, reused>>

-----------------------------------------------------------------------------
(* A generator that is asked. *)
Asked(i) == mode # "idle" /\ at = i /\ reply = Ask

(* The source gives its next element or says that there is none. *)
SourceReplies ==
    /\ Asked(0)
    /\ IF pos < Len(source)
       THEN pos' = pos + 1 /\ reply' = Item(<<source[pos + 1]>>)
       ELSE reply' = Stop /\ UNCHANGED pos
    /\ UNCHANGED <<chain, gens, at, caller, broken>>

Yield(i) ==
    /\ Asked(i) /\ gens[i].queue # <<>>
    /\ reply' = Item(Head(gens[i].queue))
    /\ gens' = [gens EXCEPT ![i].queue = Tail(@)]
    /\ UNCHANGED <<chain, pos, at, caller, broken>>

Finished(i) ==
    /\ Asked(i) /\ gens[i].queue = <<>> /\ gens[i].done
    /\ reply' = Stop
    /\ UNCHANGED <<chain, pos, gens, at, caller, broken>>

(* batched refuses a size of 0. *)
Refuses(i) == links[i].op = "batched" /\ links[i].n = 0

AskBelow(i) ==
    /\ Asked(i) /\ gens[i].queue = <<>> /\ ~gens[i].done /\ ~Refuses(i)
    /\ at' = i - 1
    /\ UNCHANGED <<chain, pos, gens, reply, caller, broken>>

(* An exception ends the generator that it leaves. *)
RaiseFrom(i) ==
    /\ at' = i /\ reply' = Error /\ broken' = TRUE
    /\ gens' = [gens EXCEPT ![i].done = TRUE]
    /\ UNCHANGED <<chain, pos, caller>>

Refuse(i) ==
    Asked(i) /\ gens[i].queue = <<>> /\ ~gens[i].done /\ Refuses(i) /\ RaiseFrom(i)

-----------------------------------------------------------------------------
(* A reply goes from a generator to i, the one above it. *)
Told(i, what) == mode # "idle" /\ at = i - 1 /\ at < top /\ reply.is = what

PassItem(i) ==
    /\ Told(i, "item") /\ ~(Calls(links[i]) /\ Raises(reply.value))
    /\ gens' = [gens EXCEPT ![i] = OnItem(links[i], @, reply.value)]
    /\ at' = i /\ reply' = Ask
    /\ UNCHANGED <<chain, pos, caller, broken>>

CallbackRaises(i) ==
    Told(i, "item") /\ Calls(links[i]) /\ Raises(reply.value) /\ RaiseFrom(i)

PassError(i) == Told(i, "error") /\ RaiseFrom(i)

(* The end: what is left in a buffer is yielded, or refused when strict. *)
Left(i) == gens[i].buffer # <<>>

PassStop(i) ==
    /\ Told(i, "stop") /\ ~(Left(i) /\ links[i].strict)
    /\ gens' = [gens EXCEPT ![i].done = TRUE, ![i].buffer = <<>>,
                            ![i].queue = IF Left(i) THEN <<gens[i].buffer>> ELSE @]
    /\ at' = i /\ reply' = Ask
    /\ UNCHANGED <<chain, pos, caller, broken>>

StrictRaises(i) == Told(i, "stop") /\ Left(i) /\ links[i].strict /\ RaiseFrom(i)

Next ==
    \/ \E list \in Sources : New(list)
    \/ \E l \in Adapters : Replace(l)
    \/ \E m \in {"next", "to_list"} : Read(m)
    \/ \E i \in 0 .. MaxLinks - 1 : ReadMoved(i)
    \/ SourceReplies \/ Return
    \/ \E i \in 1 .. MaxLinks :
          \/ Yield(i) \/ Finished(i) \/ AskBelow(i) \/ Refuse(i)
          \/ PassItem(i) \/ CallbackRaises(i) \/ PassError(i) \/ PassStop(i) \/ StrictRaises(i)

Spec == Init /\ [][Next]_vars

-----------------------------------------------------------------------------
(* What an adapter makes of a list as a whole, by position: what it yields on
   account of the k-th item, and at the end. *)
When(condition, v) == IF condition THEN <<v>> ELSE <<>>

Yields(l, xs, k) ==
    LET v == xs[k]
    IN  CASE l.op = "take"    -> When(k <= l.n, v)
          [] l.op = "skip"    -> When(k > l.n, v)
          [] l.op \in {"chunk", "batched"} ->
               When(l.n > 0 /\ k % l.n = 0, FlattenSeq(SubSeq(xs, k - l.n + 1, k)))
          [] l.op = "uniq"    -> When(\A j \in 1 .. k - 1 : xs[j] # v, v)
          [] l.op = "uniq_by" -> When(\A j \in 1 .. k - 1 : Key(xs[j]) # Key(v), v)
          [] l.op = "map"     -> <<Apply(v)>>
          [] l.op = "flatmap" -> Spread(v)
          [] l.op = "filter"  -> When(Keep(v), v)

Made(l, xs) == FlattenSeq([k \in DOMAIN xs |-> Yields(l, xs, k)])

(* The last chunk is the items that are too few for one. *)
Rest(l, xs) ==
    LET few == IF l.n = 0 THEN Len(xs) ELSE Len(xs) % l.n
    IN  When(l.op \in {"chunk", "batched"} /\ few > 0,
             FlattenSeq(SubSeq(xs, Len(xs) - few + 1, Len(xs))))

(* More of a list may come unless it is whole; take needs to see no more. *)
Eager(l, list) ==
    [items |-> Made(l, list.items) \o IF list.whole THEN Rest(l, list.items) ELSE <<>>,
     whole |-> list.whole \/ (l.op = "take" /\ Len(list.items) > l.n)]

(* What the chain makes of the first m elements of the source. *)
ItemsFrom(m, whole) ==
    LET made[i \in 0 .. Len(links)] ==
            IF i = 0 THEN [items |-> [k \in 1 .. m |-> <<source[k]>>], whole |-> whole]
                     ELSE Eager(links[i], made[i - 1])
    IN  made[Len(links)].items

(* However it is read, a chain gives what its adapters would make of the whole
   list one after the other: in that order, and all of it when it says that it
   has ended -- unless a callback raised: then it says so too early. *)
AgreesWithEager ==
    ~reused =>
        /\ IsPrefix(received, ItemsFrom(Len(source), TRUE))
        /\ ended /\ ~broken => received = ItemsFrom(Len(source), TRUE)

(* No element of the source is read before it is needed for the last item that
   the caller got. *)
ReadsOnlyWhatItNeeds ==
    mode = "idle" /\ ~ended /\ ~broken /\ ~reused =>
        \A m \in 0 .. pos - 1 : Len(ItemsFrom(m, FALSE)) < Len(received)
=============================================================================
