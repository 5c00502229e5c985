----------------------------- MODULE Versatile -----------------------------
(***************************************************************************)
(* util/versatile.py: functions wrapped so that calls go through a cache,  *)
(* the global one (with_global_cache) or that of a streamlit session       *)
(* (with_st_session_cache), or through none, from the caller's thread or   *)
(* from an executor thread (in_worker).  In each store a cache belongs to  *)
(* a signature (_get_signature), and an entry to the hash of the arguments *)
(* -- not to the arguments.                                                *)
(*                                                                         *)
(* _call_with_cache looks the entry up under the lock, calls the function  *)
(* without it and stores the result under the lock again, so a call is     *)
(* three actions.                                                          *)
(***************************************************************************)
EXTENDS Naturals, FiniteSets

CONSTANTS
    Threads,    \* callers and executor threads
    Functions,  \* wrapped callables
    Args,       \* argument tuples
    Stores,     \* dictionaries of caches: _global_cache and one per session
    NoStore,    \* the policy of a call without a cache
    Values,
    Signature,  \* Signature[f]: what _get_signature says of f
    Hash,       \* Hash[a]: hash(_make_key(args, kwargs, typed=True))
    Results,    \* Results[f][a]: what f may return, from call to call
    Absent,     \* no entry
    MaxCalls    \* bound: calls made

ASSUME MapsAssumption ==
    /\ Functions # {} /\ Args # {}
    /\ Results \in [Functions -> [Args -> SUBSET Values]]
    /\ Absent \notin Values /\ NoStore \notin Stores
    /\ MaxCalls \in Nat

Signatures == {Signature[f] : f \in Functions}
Hashes     == {Hash[a] : a \in Args}

VARIABLES
    cache,      \* store -> signature -> hash -> value or Absent
    pc,         \* pc[p]: "idle", "missed" or "computed"
    call,       \* call[p]: function, arguments and store of p's call
    result,     \* result[p]: local result of the computation
    answer,     \* answer[p]: what p's last call returned
    stored,     \* history: stored[p]: the entries that p has stored
    calls       \* bound: calls made so far

vars == <<cache, pc, call, result, answer, stored, calls>>

Calls == [f : Functions, a : Args, in : Stores \cup {NoStore}]

TypeOK ==
    /\ cache \in [Stores -> [Signatures -> [Hashes -> Values \cup {Absent}]]]
    /\ pc \in [Threads -> {"idle", "missed", "computed"}]
    /\ call \in [Threads -> Calls]
    /\ result \in [Threads -> Values \cup {Absent}]
    /\ answer \in [Threads -> Values \cup {Absent}]
    /\ stored \in [Threads -> SUBSET (Stores \X Signatures \X Hashes)]
    /\ calls \in 0 .. MaxCalls

Init ==
    /\ cache = [s \in Stores |-> [g \in Signatures |-> [h \in Hashes |-> Absent]]]
    /\ pc = [p \in Threads |-> "idle"]
    /\ call = [p \in Threads |-> CHOOSE c \in Calls : TRUE]
    /\ result = [p \in Threads |-> Absent]
    /\ answer = [p \in Threads |-> Absent]
    /\ stored = [p \in Threads |-> {}]
    /\ calls = 0

SigOf(c)  == Signature[c.f]
HashOf(c) == Hash[c.a]
Entry(c)  == cache[c.in][SigOf(c)][HashOf(c)]
Hit(c)    == c.in \in Stores /\ Entry(c) # Absent
Slot(c)  == <<c.in, SigOf(c), HashOf(c)>>

(* The lookup under the lock: a hit returns, a miss leaves the lock.  Without a
   store nothing is looked up. *)
Lookup(p, c) ==
    /\ pc[p] = "idle"
    /\ calls < MaxCalls
    /\ calls' = calls + 1
    /\ call' = [call EXCEPT ![p] = c]
    /\ IF Hit(c)
       THEN answer' = [answer EXCEPT ![p] = Entry(c)] /\ UNCHANGED pc
       ELSE pc' = [pc EXCEPT ![p] = "missed"] /\ answer' = [answer EXCEPT ![p] = Absent]
    /\ UNCHANGED <<cache, result, stored>>

(* The function runs, without the lock; another run may return something else. *)
Compute(p) ==
    /\ pc[p] = "missed"
    /\ pc' = [pc EXCEPT ![p] = "computed"]
    /\ \E v \in Results[call[p].f][call[p].a] : result' = [result EXCEPT ![p] = v]
    /\ UNCHANGED <<cache, call, answer, stored, calls>>

(* The function raises: the call ends and nothing is stored. *)
ComputeRaises(p) ==
    /\ pc[p] = "missed"
    /\ pc' = [pc EXCEPT ![p] = "idle"]
    /\ UNCHANGED <<cache, call, result, answer, stored, calls>>

(* Mutants -- wrong variants of the definition that follows, used to show that
   a property can fail -- are marked so.  Mutant: the entry goes to every
   signature's cache. *)
FillEverywhere(p) ==
    /\ pc[p] = "computed"
    /\ pc' = [pc EXCEPT ![p] = "idle"]
    /\ call[p].in \in Stores
    /\ cache' = [cache EXCEPT ![call[p].in] =
                   [g \in Signatures |-> [@[g] EXCEPT ![HashOf(call[p])] = result[p]]]]
    /\ answer' = [answer EXCEPT ![p] = result[p]]
    /\ stored' = [stored EXCEPT ![p] = @ \cup {Slot(call[p])}]
    /\ UNCHANGED <<call, result, calls>>

(* Mutant: the result replaces the signature's cache. *)
FillReplaces(p) ==
    /\ pc[p] = "computed"
    /\ pc' = [pc EXCEPT ![p] = "idle"]
    /\ call[p].in \in Stores
    /\ cache' = [cache EXCEPT ![call[p].in][SigOf(call[p])] = result[p]]
    /\ answer' = [answer EXCEPT ![p] = result[p]]
    /\ stored' = [stored EXCEPT ![p] = @ \cup {Slot(call[p])}]
    /\ UNCHANGED <<call, result, calls>>

(* The result is stored, over whatever another thread stored meanwhile. *)
Fill(p) ==
    /\ pc[p] = "computed"
    /\ pc' = [pc EXCEPT ![p] = "idle"]
    /\ call[p].in \in Stores
    /\ cache' = [cache EXCEPT ![call[p].in][SigOf(call[p])][HashOf(call[p])] = result[p]]
    /\ answer' = [answer EXCEPT ![p] = result[p]]
    /\ stored' = [stored EXCEPT ![p] = @ \cup {Slot(call[p])}]
    /\ UNCHANGED <<call, result, calls>>

(* Without a store the result is returned as it is. *)
Return(p) ==
    /\ pc[p] = "computed" /\ call[p].in = NoStore
    /\ pc' = [pc EXCEPT ![p] = "idle"]
    /\ answer' = [answer EXCEPT ![p] = result[p]]
    /\ UNCHANGED <<cache, call, result, stored, calls>>

Next ==
    \E p \in Threads :
        \/ \E c \in Calls : Lookup(p, c)
        \/ Compute(p) \/ ComputeRaises(p) \/ Fill(p) \/ Return(p)

Spec == Init /\ [][Next]_vars

-----------------------------------------------------------------------------
(* A call that returns returns what its function may return for its arguments,
   computed now or by another thread earlier, whichever store it goes through. *)
AnswersRight ==
    \A p \in Threads : answer[p] # Absent => answer[p] \in Results[call[p].f][call[p].a]

(* An entry that calls may have read is changed only by a thread that had missed
   it before it was there, and that never stored it before: threads that missed
   together overwrite one another at most once each, and then it stays. *)
EntriesSettle ==
    [][\A s \in Stores, g \in Signatures, h \in Hashes :
        cache[s][g][h] # Absent /\ cache'[s][g][h] # cache[s][g][h] =>
            /\ cache'[s][g][h] # Absent
            /\ \E p \in Threads : /\ pc[p] = "computed" /\ Slot(call[p]) = <<s, g, h>>
                                  /\ <<s, g, h>> \notin stored[p]]_vars

(* Functions that share a cache entry agree on it. *)
NoCollision ==
    \A c, d \in Calls :
        SigOf(c) = SigOf(d) /\ HashOf(c) = HashOf(d) => Results[c.f][c.a] = Results[d.f][d.a]
=============================================================================
