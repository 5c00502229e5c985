------------------------------- MODULE LogSetup -------------------------------
(***************************************************************************)
(* o11y: importing the package puts a default console handler on the root  *)
(* logger; setup_structlog (once, by any thread) takes it away and adds an *)
(* OTel handler, a console handler and a file handler; setup_otel (once)   *)
(* installs the three providers.  bootstrap may have put a handler of its  *)
(* own there first, and other code may add one at any time.                *)
(*                                                                         *)
(* A record is a string (stdlib) or a dict (structlog) that all handlers   *)
(* share.  Only the keys of a dict are kept.                               *)
(***************************************************************************)
EXTENDS Naturals, Sequences, FiniteSets, SequencesExt

CONSTANTS
    Callers,        \* threads that call the set-up functions
    MaxForeign      \* bound: handlers that other code adds

VARIABLES
    handlers,       \* root.handlers: kinds of handler
    processors,     \* structlog's configuration: "none", "default" or "full"
    structlogDone,  \* _setup_done of structlog.py
    otelDone,       \* _setup_done of otel.py
    providers,      \* set_..._provider calls so far
    stage,          \* where each caller is
    snapshot,       \* the filtered list that a caller is about to assign
    options,        \* arguments of setup_structlog
    cutShort,       \* history: it raised after it had removed the default handler
    shown           \* what became of the last record: kind of handler and keys

logVars == <<handlers, processors, structlogDone, otelDone, providers, stage, snapshot, options, cutShort, shown>>

Kinds == {"default", "basic", "foreign", "otel", "console", "file"}
Stages == {"idle", "import", "read", "assign", "otel", "console", "file",
           "exporters", "traces", "metrics", "logs"}
Options == [console : BOOLEAN, thread : BOOLEAN]

TypeOK ==
    /\ handlers \in Seq(Kinds)
    /\ processors \in {"none", "default", "full"}
    /\ structlogDone \in BOOLEAN /\ otelDone \in BOOLEAN
    /\ providers \in Seq({"traces", "metrics", "logs"})
    /\ stage \in [Callers -> Stages]
    /\ snapshot \in [Callers -> Seq(Kinds \ {"default"})]
    /\ options \in Options
    /\ cutShort \in BOOLEAN

Init ==
    /\ handlers = <<>> /\ processors = "none"
    /\ structlogDone = FALSE /\ otelDone = FALSE /\ providers = <<>>
    /\ stage = [t \in Callers |-> "idle"] /\ snapshot = [t \in Callers |-> <<>>]
    /\ options = [console |-> TRUE, thread |-> FALSE]
    /\ cutShort = FALSE
    /\ shown = <<>>

Imported == processors # "none"

Number(kind) == Cardinality({i \in DOMAIN handlers : handlers[i] = kind})

-----------------------------------------------------------------------------
(* Imports. *)

(* bootstrap's basicConfig, which does nothing when there is a handler. *)
Bootstrap ==
    /\ ~Imported /\ handlers = <<>>
    /\ handlers' = <<"basic">>
    /\ UNCHANGED <<processors, structlogDone, otelDone, providers, stage, snapshot, options, cutShort, shown>>

(* o11y/__init__.py; an import runs once. *)
Import ==
    /\ ~Imported
    /\ handlers' = Append(handlers, "default")
    /\ processors' = "default"
    /\ UNCHANGED <<structlogDone, otelDone, providers, stage, snapshot, options, cutShort, shown>>

ForeignHandler ==
    /\ Number("foreign") < MaxForeign
    /\ handlers' = Append(handlers, "foreign")
    /\ UNCHANGED <<processors, structlogDone, otelDone, providers, stage, snapshot, options, cutShort, shown>>

-----------------------------------------------------------------------------
(* setup_structlog. *)

Goes(t, from, to) == stage[t] = from /\ stage' = [stage EXCEPT ![t] = to]

(* Mutant: the flag is not looked at under the lock. *)
SetupStructlogUnguarded(t, o) ==
    /\ Imported /\ Goes(t, "idle", "import")
    /\ structlogDone' = TRUE /\ options' = o
    /\ UNCHANGED <<handlers, processors, otelDone, providers, snapshot, cutShort, shown>>

(* A call that finds the flag set raises and changes nothing. *)
SetupStructlog(t, o) ==
    /\ Imported /\ ~structlogDone /\ Goes(t, "idle", "import")
    /\ structlogDone' = TRUE /\ options' = o
    /\ UNCHANGED <<handlers, processors, otelDone, providers, snapshot, cutShort, shown>>

(* The imports succeed and structlog is configured, or they raise. *)
Configure(t) ==
    /\ Goes(t, "import", "read")
    /\ processors' = "full"
    /\ UNCHANGED <<handlers, structlogDone, otelDone, providers, snapshot, options, cutShort, shown>>

ImportRaises(t) ==
    /\ Goes(t, "import", "idle")
    /\ UNCHANGED <<handlers, processors, structlogDone, otelDone, providers, snapshot, options, cutShort, shown>>

(* root.setLevel refuses the level. *)
LevelRaises(t) ==
    /\ Goes(t, "read", "idle")
    /\ UNCHANGED <<handlers, processors, structlogDone, otelDone, providers, snapshot, options, cutShort, shown>>

(* The handlers of a list that are not the default one, in their order: up to
   the k-th there are k of them. *)
WithoutDefault(list) ==
    LET kept == {i \in DOMAIN list : list[i] # "default"}
        kth(k) == CHOOSE i \in kept : Cardinality({j \in kept : j <= i}) = k
    IN  [k \in 1 .. Cardinality(kept) |-> list[kth(k)]]

(* root.handlers = [h for h in root.handlers ...]: what is added between the
   reading and the assignment is lost. *)
ReadHandlers(t) ==
    /\ Goes(t, "read", "assign")
    /\ snapshot' = [snapshot EXCEPT ![t] = WithoutDefault(handlers)]
    /\ UNCHANGED <<handlers, processors, structlogDone, otelDone, providers, options, cutShort, shown>>

AssignHandlers(t) ==
    /\ Goes(t, "assign", "otel")
    /\ handlers' = snapshot[t]
    /\ snapshot' = [snapshot EXCEPT ![t] = <<>>]
    /\ UNCHANGED <<processors, structlogDone, otelDone, providers, options, cutShort, shown>>

AddOtel(t) ==
    /\ Goes(t, "otel", "console")
    /\ handlers' = Append(handlers, "otel")
    /\ UNCHANGED <<processors, structlogDone, otelDone, providers, snapshot, options, cutShort, shown>>

AddConsole(t) ==
    /\ Goes(t, "console", "file")
    /\ handlers' = IF options.console THEN Append(handlers, "console") ELSE handlers
    /\ UNCHANGED <<processors, structlogDone, otelDone, providers, snapshot, options, cutShort, shown>>

(* The OTel handler cannot be made, or the console handler refuses its level:
   the default handler is gone, and no later call may set up another. *)
AddRaises(t) ==
    /\ Goes(t, "otel", "idle") \/ (options.console /\ Goes(t, "console", "idle"))
    /\ cutShort' = TRUE
    /\ UNCHANGED <<handlers, processors, structlogDone, otelDone, providers, snapshot, options, shown>>

(* _setup_local_log_dir: without a directory in the environment nothing is
   added, nor when making the directory or the file raises. *)
AddFile(t) ==
    /\ Goes(t, "file", "idle")
    /\ handlers' = Append(handlers, "file") \/ UNCHANGED handlers
    /\ UNCHANGED <<processors, structlogDone, otelDone, providers, snapshot, options, cutShort, shown>>

-----------------------------------------------------------------------------
(* setup_otel: the exporters' imports may raise; with neither an endpoint nor
   the fallback nothing is installed. *)

SetupOtel(t) ==
    /\ Imported /\ ~otelDone
    /\ otelDone' = TRUE
    /\ Goes(t, "idle", "exporters") \/ Goes(t, "idle", "idle")
    /\ UNCHANGED <<handlers, processors, structlogDone, providers, snapshot, options, cutShort, shown>>

ExportersImported(t) ==
    /\ Goes(t, "exporters", "traces") \/ Goes(t, "exporters", "idle")
    /\ UNCHANGED <<handlers, processors, structlogDone, otelDone, providers, snapshot, options, cutShort, shown>>

SetProvider(t) ==
    /\ \/ Goes(t, "traces", "metrics") \/ Goes(t, "metrics", "logs") \/ Goes(t, "logs", "idle")
    /\ providers' = Append(providers, stage[t])
    /\ UNCHANGED <<handlers, processors, structlogDone, otelDone, snapshot, options, cutShort, shown>>

-----------------------------------------------------------------------------
(* One record. *)

Event == {"message", "level", "timestamp"}

(* A dict made by structlog's processors; a logger that was bound before
   setup_structlog keeps the default ones, which add no thread. *)
StructlogMsg(bound, extras) ==
    [dict |-> TRUE, keys |-> Event \cup {"module"} \cup extras
                               \cup IF bound = "full" THEN {"thread"} ELSE {}]
StringMsg == [dict |-> FALSE, keys |-> {}]

(* Mutant: emit takes module and thread out of the dict it was given. *)
OtelEmitInPlace(msg) ==
    LET body == IF msg.dict THEN msg.keys \ {"module", "thread"} ELSE Event
    IN  [keys |-> body, msg |-> [msg EXCEPT !.keys = body]]

(* _SafeLoggingHandler.emit: the body is a copy without module, which becomes
   the name of the scope, and thread, which becomes an attribute; a string is
   wrapped.  The handlers that follow get the record as it was. *)
OtelEmit(msg) ==
    [keys |-> IF msg.dict THEN msg.keys \ {"module", "thread"} ELSE Event, msg |-> msg]

(* ProcessorFormatter with foreign_pre_chain, then _local_renderer. *)
LocalEmit(msg) ==
    LET all == IF msg.dict THEN msg.keys ELSE Event \cup {"module", "thread"}
    IN  [keys |-> IF options.thread THEN all ELSE all \ {"thread"}, msg |-> msg]

(* The default handler formats a string without a pre-chain; handlers that know
   nothing of structlog print the message as it is. *)
PlainEmit(msg) == [keys |-> IF msg.dict THEN msg.keys ELSE {"event"}, msg |-> msg]

Emit(msg, kind) ==
    CASE kind = "otel" -> OtelEmit(msg)
      [] kind \in {"console", "file"} -> LocalEmit(msg)
      [] OTHER -> PlainEmit(msg)

(* A record goes through the handlers in order: passed[i] is what the first i
   of them made of it. *)
Log(msg) ==
    LET passed[i \in 0 .. Len(handlers)] ==
            IF i = 0 THEN msg ELSE Emit(passed[i - 1], handlers[i]).msg
    IN  /\ shown' = [i \in DOMAIN handlers |-> <<handlers[i], Emit(passed[i - 1], handlers[i]).keys>>]
        /\ UNCHANGED <<handlers, processors, structlogDone, otelDone, providers, stage, snapshot, options, cutShort>>

Next ==
    \/ Bootstrap \/ Import \/ ForeignHandler
    \/ \E t \in Callers :
         \/ \E o \in Options : SetupStructlog(t, o)
         \/ Configure(t) \/ ImportRaises(t) \/ LevelRaises(t) \/ ReadHandlers(t)
         \/ AssignHandlers(t) \/ AddOtel(t) \/ AddConsole(t) \/ AddRaises(t) \/ AddFile(t)
         \/ SetupOtel(t) \/ ExportersImported(t) \/ SetProvider(t)
    \/ Log(StringMsg)
    \/ \E bound \in {"default", processors} \ {"none"}, extras \in SUBSET {"user"} :
         Imported /\ Log(StructlogMsg(bound, extras))

Spec == Init /\ [][Next]_logVars

-----------------------------------------------------------------------------
(* The default handler is off and the console handler is not on yet. *)
InGap == \E t \in Callers : stage[t] \in {"otel", "console"}

(* Whoever calls the set-up functions, how often, at once, and wherever they
   raise: a record is printed by one console handler of the package and not two;
   it is exported once, filed once, and each provider is installed once.  None
   prints it only in the gap of a running set-up, or after one that raised in
   that gap. *)
SetUpOnce ==
    /\ \A kind \in {"default", "otel", "console", "file"} : Number(kind) <= 1
    /\ Number("default") + Number("console") <= 1
    /\ Imported /\ ~InGap /\ ~cutShort /\ options.console =>
           Number("default") + Number("console") = 1
    /\ cutShort => Number("default") + Number("console") + Number("file") = 0
    /\ Number("console") + Number("file") > 0 => Number("otel") = 1
    /\ IsPrefix(providers, <<"traces", "metrics", "logs">>)

(* What one handler does with a record is not seen by another: console and file
   show all of an event with its module, and the exporter all but what it turns
   into the scope and attributes, in whatever order they are called. *)
HandlersSeeTheSame ==
    \A i, j \in DOMAIN shown :
        /\ shown[i][1] \in {"console", "file"} => "module" \in shown[i][2]
        /\ {shown[i][1], shown[j][1]} \subseteq {"otel", "console", "file"}
             => shown[i][2] \ {"module", "thread"} = shown[j][2] \ {"module", "thread"}
=============================================================================
