----------------------------- MODULE VariantBuild -----------------------------
(***************************************************************************)
(* util/nlp/cjk_variants: build_dict.py downloads dictionaries, merges     *)
(* their pairs and writes variants.jsonl; variant_map.py loads that file.  *)
(* The package ships that file, made of earlier dictionaries, and none of  *)
(* its downloads.  The builder may be interrupted anywhere and run again,  *)
(* and the file may be loaded at any time: half written too, and while the *)
(* builder goes on.  What _UnionFind returns is what UnionFind is shown to *)
(* return: the classes of Partition.                                       *)
(*                                                                         *)
(* Text is cut down to what decides the outcome: a character is a number   *)
(* (its code point), a word a sequence of characters, and a line of a      *)
(* dictionary the sequence of its words, the key first.                    *)
(***************************************************************************)
EXTENDS Naturals, Sequences, FiniteSets, FiniteSetsExt, SequencesExt

CONSTANTS
    Points,     \* the characters
    Source,     \* Source[i]: lines of the i-th dictionary; the last is rewrite.def
    Earlier,    \* the pairs that the shipped file was made of
    NoFile

VARIABLES
    raw,        \* raw[i]: the downloaded file, or NoFile
    out,        \* variants.jsonl, or NoFile
    phase,      \* of the builder: "idle", "download", "parse", "cluster", "write"
    at,         \* the dictionary it is at
    found,      \* pairs given to the union-find so far
    pending,    \* lines that are written, or wait to be
    intact,     \* history: no download was interrupted
    complete,   \* history: the last build that opened the output completed
    loaded      \* the last VariantMap: what its __init__ came to, its lines, its
                \* place in the file, and whether that was emptied under it

vars == <<raw, out, phase, at, found, pending, intact, complete, loaded>>

Dicts == DOMAIN Source
LastDict  == Len(Source)

(* Files hold whole lines, then perhaps an end that cannot be decoded: a
   character of a dictionary or an object of the output that is cut in two. *)
Text(lines, torn) == [lines |-> lines, torn |-> torn]

TypeOK ==
    /\ DOMAIN raw = Dicts
    /\ \A i \in Dicts : raw[i] # NoFile => raw[i].torn \in BOOLEAN
    /\ phase \in {"idle", "download", "parse", "cluster", "write"}
    /\ at \in Dicts
    /\ found \subseteq Points \X Points
    /\ {intact, complete} \subseteq BOOLEAN
    /\ phase = "write" => out.lines = SubSeq(pending, 1, Len(out.lines))
    /\ loaded.kind \in {"none", "reading", "raised", "map"}
    /\ loaded.replaced \in BOOLEAN

-----------------------------------------------------------------------------
(* The parser and the builder's arithmetic. *)

(* Pairs of one-character words: the key and its values, never itself. *)
ParseLine(line) ==
    {<<line[1][1], w[1]>> : w \in {line[j] : j \in {i \in 2 .. Len(line) :
        Len(line[1]) = 1 /\ Len(line[i]) = 1 /\ line[i] # line[1]}}}

parse_opencc_tsv(lines) == UNION {ParseLine(lines[i]) : i \in DOMAIN lines}

Classes == INSTANCE Partition WITH Elements <- Points, class <- {}, joined <- {}

(* The clusters that clusters() returns for the pairs. *)
ClustersOf(pairs) ==
    LET edges == {{p[1], p[2]} : p \in pairs}
    IN  {Classes!Connected(edges, x) : x \in UNION edges}

(* Mutant: every pair is a cluster of its own. *)
LinesWithoutMerge(pairs) ==
    SetToSortSeq({[rep |-> Min({p[1], p[2]}), members |-> {Max({p[1], p[2]})}] : p \in pairs},
                 LAMBDA a, b : a.rep < b.rep)

(* The lines of the output, by representative: the least code point. *)
OutputLines(pairs) ==
    LET Lines == {[rep |-> Min(C), members |-> C \ {Min(C)}] :
                     C \in {D \in ClustersOf(pairs) : Cardinality(D) > 1}}
    IN  CHOOSE s \in [1 .. Cardinality(Lines) -> Lines] :
            \A i, j \in DOMAIN s : i < j => s[i].rep < s[j].rep

(* The file of the package: an earlier build completed. *)
Shipped == Text(OutputLines(Earlier), FALSE)

Loading(kind, lines, place, replaced) ==
    [kind |-> kind, lines |-> lines, place |-> place, replaced |-> replaced]

Init ==
    /\ raw = [i \in Dicts |-> NoFile] /\ out \in {NoFile, Shipped}
    /\ phase = "idle" /\ at = 1 /\ found = {} /\ pending = <<>>
    /\ intact = TRUE /\ complete = FALSE
    /\ loaded = Loading("none", <<>>, 0, FALSE)

-----------------------------------------------------------------------------
(* The builder. *)

BuildBegins ==
    /\ phase = "idle"
    /\ phase' = "download" /\ at' = 1 /\ found' = {}
    /\ UNCHANGED <<raw, out, pending, intact, complete, loaded>>

(* The next dictionary, or the next phase. *)
Proceed(next) == IF at = LastDict THEN phase' = next /\ at' = 1 ELSE at' = at + 1 /\ UNCHANGED phase

(* A file that is there is not looked into. *)
AlreadyDownloaded ==
    /\ phase = "download" /\ raw[at] # NoFile
    /\ Proceed("parse")
    /\ UNCHANGED <<raw, out, found, pending, intact, complete, loaded>>

Download ==
    /\ phase = "download" /\ raw[at] = NoFile
    /\ raw' = [raw EXCEPT ![at] = Text(Source[at], FALSE)]
    /\ Proceed("parse")
    /\ UNCHANGED <<out, found, pending, intact, complete, loaded>>

(* What may be left of a line that is cut between two characters. *)
Cuts(line) ==
    UNION {{Append(SubSeq(line, 1, i - 1), SubSeq(line[i], 1, k)) : k \in 1 .. Len(line[i])} :
              i \in DOMAIN line} \ {line}

(* The connection breaks, or the process dies, in the middle of a download:
   urlretrieve leaves what it has written. *)
DownloadCut ==
    /\ phase = "download" /\ raw[at] = NoFile
    /\ \E n \in 0 .. Len(Source[at]) - 1, torn \in BOOLEAN :
         LET whole == SubSeq(Source[at], 1, n)
         IN  \E rest \in {<<>>} \cup {<<l>> : l \in Cuts(Source[at][n + 1])} :
               raw' = [raw EXCEPT ![at] = Text(whole \o rest, torn)]
    /\ intact' = FALSE
    /\ phase' = "idle" /\ at' = 1
    /\ UNCHANGED <<out, found, pending, complete, loaded>>

(* A dictionary is parsed; rewrite.def is read for a log message. *)
Parse ==
    /\ phase = "parse" /\ ~raw[at].torn
    /\ LET more == IF at = LastDict THEN {} ELSE parse_opencc_tsv(raw[at].lines)
       IN  found' = found \cup more
    /\ Proceed("cluster")
    /\ UNCHANGED <<raw, out, pending, intact, complete, loaded>>

(* Mutant: the output is opened to append. *)
OpenToAppend ==
    /\ phase = "cluster"
    /\ phase' = "write"
    /\ pending' = (IF out = NoFile THEN <<>> ELSE out.lines) \o OutputLines(found)
    /\ out' = IF out = NoFile THEN Text(<<>>, FALSE) ELSE out
    /\ complete' = FALSE
    /\ UNCHANGED <<raw, at, found, intact, loaded>>

(* The clusters are made and the output is opened, which empties it.  Who reads
   it stays where it was, somewhere in the lines that are to come. *)
OpenOutput ==
    /\ phase = "cluster"
    /\ phase' = "write"
    /\ pending' = OutputLines(found)
    /\ out' = Text(<<>>, FALSE)
    /\ complete' = FALSE
    /\ IF loaded.kind = "reading" /\ ~loaded.replaced
       THEN \E n \in 0 .. Len(OutputLines(found)) : loaded' = Loading("reading", loaded.lines, n, TRUE)
       ELSE UNCHANGED loaded
    /\ UNCHANGED <<raw, at, found, intact>>

(* A buffer goes to the file, and may end within a line. *)
Flush ==
    /\ phase = "write"
    /\ \E n \in Len(out.lines) .. Len(pending), torn \in BOOLEAN :
         /\ torn => n < Len(pending)
         /\ out' = Text(SubSeq(pending, 1, n), torn)
         /\ out' # out
    /\ UNCHANGED <<raw, phase, at, found, pending, intact, complete, loaded>>

(* The file is closed, with every line in it. *)
CloseOutput ==
    /\ phase = "write"
    /\ out' = Text(pending, FALSE)
    /\ phase' = "idle" /\ complete' = TRUE
    /\ found' = {} /\ pending' = <<>>
    /\ UNCHANGED <<raw, at, intact, loaded>>

(* The build ends early: a download is refused, a dictionary cannot be decoded,
   or the process is killed.  What it kept in memory is lost. *)
BuildDies ==
    /\ phase # "idle"
    /\ phase' = "idle" /\ at' = 1 /\ found' = {} /\ pending' = <<>>
    /\ UNCHANGED <<raw, out, intact, complete, loaded>>

-----------------------------------------------------------------------------
(* VariantMap(): without the file nothing is mapped. *)
LoadBegins ==
    /\ loaded.kind # "reading"
    /\ loaded' = Loading(IF out = NoFile THEN "map" ELSE "reading", <<>>, 0, FALSE)
    /\ UNCHANGED <<raw, out, phase, at, found, pending, intact, complete>>

(* Some of the lines that are there. *)
LoadReads ==
    /\ loaded.kind = "reading"
    /\ \E n \in loaded.place + 1 .. Len(out.lines) :
         loaded' = Loading("reading", loaded.lines \o SubSeq(out.lines, loaded.place + 1, n), n, loaded.replaced)
    /\ UNCHANGED <<raw, out, phase, at, found, pending, intact, complete>>

(* The end of the file, wherever the builder has got to. *)
LoadEnds ==
    /\ loaded.kind = "reading"
    /\ loaded.place > Len(out.lines) \/ (loaded.place = Len(out.lines) /\ ~out.torn)
    /\ loaded' = Loading("map", loaded.lines, 0, loaded.replaced)
    /\ UNCHANGED <<raw, out, phase, at, found, pending, intact, complete>>

(* An object that is cut in two, by the end of the file or by what replaced it. *)
LoadRaises ==
    /\ loaded.kind = "reading"
    /\ loaded.replaced \/ (loaded.place = Len(out.lines) /\ out.torn)
    /\ loaded' = Loading("raised", <<>>, 0, FALSE)
    /\ UNCHANGED <<raw, out, phase, at, found, pending, intact, complete>>

(* representative(c), and so normalize of every character of a text: a later
   line overwrites what an earlier one said. *)
Representative(lines, c) ==
    LET these == {i \in DOMAIN lines : c \in lines[i].members}
    IN  IF these = {} THEN c ELSE lines[Max(these)].rep

Cluster(lines, c) ==
    LET these == {i \in DOMAIN lines : c \in {lines[i].rep} \cup lines[i].members}
    IN  IF these = {} THEN {c} ELSE {lines[Max(these)].rep} \cup lines[Max(these)].members

Next ==
    \/ BuildBegins \/ AlreadyDownloaded \/ Download \/ DownloadCut
    \/ Parse \/ OpenOutput \/ Flush \/ CloseOutput \/ BuildDies
    \/ LoadBegins \/ LoadReads \/ LoadEnds \/ LoadRaises

Spec == Init /\ [][Next]_vars

-----------------------------------------------------------------------------
(* The clusters of more than one character in the dictionaries that are there,
   and in those that were to be downloaded. *)
ClustersIn(texts) ==
    LET pairs == UNION {parse_opencc_tsv(texts[i]) : i \in 1 .. LastDict - 1}
    IN  {C \in ClustersOf(pairs) : Cardinality(C) > 1}
RawClusters    == ClustersIn([i \in Dicts |-> IF raw[i] = NoFile THEN <<>> ELSE raw[i].lines])
SourceClusters == ClustersIn(Source)

(* Those of the shipped file. *)
ShippedClusters == {C \in ClustersOf(Earlier) : Cardinality(C) > 1}

(* Whenever the file is loaded, as it was shipped, half written, left behind by
   a build that died or while one writes on, the map that comes of it is a
   normalisation, unless the file was emptied while it was read: characters have
   the same representative when they are in one cluster, the representative is
   its least member and its own representative, and the clusters are whole ones
   of the downloaded dictionaries, or of those that the shipped file was made
   of, but never some of either. *)
LoadedIsSound ==
    loaded.kind = "map" /\ ~loaded.replaced =>
        \E known \in {RawClusters, ShippedClusters} : \A c \in Points :
            LET C == Cluster(loaded.lines, c)
            IN  /\ Representative(loaded.lines, c) = Min(C)
                /\ C = {d \in Points : Representative(loaded.lines, d) = Min(C)}
                /\ C # {c} => C \in known

(* A build that ends leaves one line for every cluster, whatever earlier builds
   left behind; and the clusters are those of the sources unless a download was
   interrupted: then the next build takes the part for the whole. *)
OutputMatchesSources ==
    complete =>
        LET written == {{l.rep} \cup l.members : l \in Range(out.lines)}
        IN  /\ ~out.torn /\ Len(out.lines) = Cardinality(written)
            /\ written = RawClusters
            /\ intact => written = SourceClusters
=============================================================================
