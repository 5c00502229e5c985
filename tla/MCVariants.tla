----------------------------- MODULE MCVariants -----------------------------
(***************************************************************************)
(* Small instances of UnionFind (extended) and VariantBuild (instantiated) *)
(* for TLC.  The build uses the union-find by what it promises, so a       *)
(* behaviour is one of either; Parts says of which.                        *)
(***************************************************************************)
EXTENDS UnionFind, Sequences, TLC

CONSTANTS Parts, Points, Source, Earlier, NoFile

(* The union-find never compares two characters but for equality. *)
Symmetry == Permutations(Chars)

VARIABLES part, raw, out, phase, at, found, pending, intact, complete, loaded

(* Two dictionaries and rewrite.def.  1 and 2 are one cluster, 3, 4 and 5
   another; cut in two, the value of two characters joins them. *)
Dictionaries == <<
    << << <<1>>, <<2>> >>, << <<4>>, <<3>>, <<4>> >> >>,
    << << <<5>>, <<1, 2>>, <<4>> >>, << <<1, 4>>, <<2>> >> >>,
    << << <<2>> >> >> >>

(* Then 5 was in no dictionary. *)
EarlierPairs == {<<1, 2>>, <<4, 3>>}

Build == INSTANCE VariantBuild

buildVars == <<raw, out, phase, at, found, pending, intact, complete, loaded>>

AllInit == part \in Parts /\ Init /\ Build!Init

AllNext ==
    \/ part = "unionfind" /\ Next /\ UNCHANGED <<part, buildVars>>
    \/ part = "build" /\ Build!Next /\ UNCHANGED <<part, vars>>

AllSpec == AllInit /\ [][AllNext]_<<part, vars, buildVars>>

(* The type invariants of the two modules. *)
AllTypeOK == TypeOK /\ Build!TypeOK

(* See VariantBuild: a map loaded at any time is a normalisation. *)
LoadedIsSound == Build!LoadedIsSound

(* See VariantBuild: a finished build has written the clusters. *)
OutputMatchesSources == Build!OutputMatchesSources
=============================================================================
