-------------------------------- MODULE MCUtil --------------------------------
(***************************************************************************)
(* Small instances of Versatile, IteratorChain, PrefixCounter and LogSetup *)
(* for TLC.  They share nothing, so a behaviour is one of Versatile        *)
(* (extended) or of one of the others (instantiated); Parts says of which. *)
(***************************************************************************)
EXTENDS Versatile, Sequences

CONSTANTS Parts, p1, p2, f1, f2, a1, a2, global, session

(* Every function returns values of its own for every argument, and f1 not
   always the same. *)
Distinct == [f \in Functions |-> [a \in Args |-> {f} \X {a} \X IF f = f1 THEN {1, 2} ELSE {1}]]
Returned == Functions \X Args \X {1, 2}

OwnSignature == [f \in Functions |-> f]
OwnHash      == [a \in Args |-> a]

(* hash of (-1, int) and of (-2, int) are equal in CPython. *)
SharedHash == [a \in Args |-> a1]

-----------------------------------------------------------------------------
VARIABLES
    part,
    source, pos, links, gens, at, reply, mode, top, received, ended, broken, reused,
    count, samples, added,
    handlers, processors, structlogDone, otelDone, providers, stage, snapshot, options, cutShort, shown

CONSTANTS
    Adapters, MaxLinks, Sources, Apply(_), Spread(_), Key(_), Keep(_), Raises(_),
    Tuples, Unhashable, Capacity, MaxAdds,
    MaxForeign

Adapter(op, n) == [op |-> op, n |-> n, strict |-> FALSE]
AllAdapters ==
    {Adapter("take", n) : n \in 0 .. 1} \cup {Adapter("chunk", n) : n \in {0, 2}}
    \cup {Adapter(op, 0) : op \in {"uniq", "uniq_by", "map", "flatmap", "filter", "batched"}}
    \cup {Adapter("skip", 1), [op |-> "batched", n |-> 2, strict |-> TRUE]}
Lists == UNION {[1 .. n -> 1 .. 3] : n \in 0 .. 3}

(* A map that marks, a flatmap that drops items or takes them apart, and
   callbacks that raise on items that begin with 3. *)
Mark(v)   == Append(v, 0)
Split(v)  == IF Head(v) = 2 THEN <<>> ELSE [k \in DOMAIN v |-> <<v[k]>>]
Odd(v)    == Head(v) % 2
NotOne(v) == Head(v) # 1
Three(v)  == Head(v) = 3

Iter == INSTANCE IteratorChain

(* 9 cannot be hashed. *)
SomeTuples == {<<>>, <<1>>, <<2>>, <<1, 1>>, <<1, 2>>, <<1, 2, 1>>, <<2, 9, 1>>, <<9, 1>>, <<1, 9>>}

Counter == INSTANCE PrefixCounter

Logging == INSTANCE LogSetup WITH Callers <- Threads

iterVars == <<source, pos, links, gens, at, reply, mode, top, received, ended, broken, reused>>
treeVars == <<count, samples, added>>
logVars  == <<handlers, processors, structlogDone, otelDone, providers, stage, snapshot, options, cutShort, shown>>

AllInit == part \in Parts /\ Init /\ Iter!Init /\ Counter!Init /\ Logging!Init

AllNext ==
    \/ part = "cache" /\ Next /\ UNCHANGED <<part, iterVars, treeVars, logVars>>
    \/ part = "iter" /\ Iter!Next /\ UNCHANGED <<part, vars, treeVars, logVars>>
    \/ part = "tree" /\ Counter!Next /\ UNCHANGED <<part, vars, iterVars, logVars>>
    \/ part = "log" /\ Logging!Next /\ UNCHANGED <<part, vars, iterVars, treeVars>>

AllSpec == AllInit /\ [][AllNext]_<<part, vars, iterVars, treeVars, logVars>>

(* The type invariants of the four modules; a module that does not run in a
   behaviour is in its initial state all along, and is not looked at again. *)
AllTypeOK ==
    CASE part = "cache" -> TypeOK
      [] part = "iter"  -> Iter!TypeOK
      [] part = "tree"  -> Counter!TypeOK
      [] part = "log"   -> Logging!TypeOK

(* See IteratorChain: a chain gives what its adapters make of the whole list. *)
AgreesWithEager == part = "iter" => Iter!AgreesWithEager

(* See IteratorChain: nothing is read before it is needed. *)
ReadsOnlyWhatItNeeds == part = "iter" => Iter!ReadsOnlyWhatItNeeds

(* See PrefixCounter: own_count is the tuples that stopped at the node. *)
CountsAddUp == part = "tree" => Counter!CountsAddUp

(* See LogSetup: one console handler, one exporter, one file. *)
SetUpOnce == part = "log" => Logging!SetUpOnce

(* See LogSetup: handlers do not disturb one another. *)
HandlersSeeTheSame == part = "log" => Logging!HandlersSeeTheSame
=============================================================================
