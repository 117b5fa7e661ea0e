-------------------------------- MODULE Logging --------------------------------
(***************************************************************************)
(* The loggers of the SDK: pkg/common/logging, which finds out with whom   *)
(* to log when a logger is first used, and pkg/core/logging/modlog, which  *)
(* does the same once more for each logger of the default provider.        *)
(*                                                                         *)
(* Goroutines log, SDKs are assembled (Initialize), someone installs a     *)
(* custom logger (InitLogger) and levels change, all of it while others    *)
(* log. A sync.Once is its holder: nobody, the one that runs it, or Done.  *)
(* What a line looks like is left out.                                     *)
(***************************************************************************)
EXTENDS Naturals, FiniteSets

CONSTANTS
  Goroutines,
  Loggers,            \* each of a module of its own
  Providers,          \* the providers SDKs bring along
  ModLog,             \* the default provider, which SDKs bring along too
  Custom,             \* the provider given to modlog.InitLogger
  Levels,             \* of the messages, numbers: the higher the less important
  Info,               \* the level that is enabled when nobody set one
  MaxCalls, Nobody, Done, None

LoggingAssumption ==
  /\ Nobody # Done /\ {Nobody, Done} \cap Goroutines = {}
  /\ None \notin Loggers \cup Providers \cup {ModLog, Custom}

VARIABLES
  provider,   \* of pkg/common/logging: once, is
  modlog,     \* of modlog: once, provider, and flag (useCustomLogger)
  logger,     \* [Loggers -> [once, instance: a provider]]
  latch,      \* [Loggers -> [once, custom]] of the Log that ModLog made for a logger
  levels,     \* [Loggers \cup {None} -> a level or None], None is the default of all
  run,        \* [Goroutines -> [at, logger, level, sink, with: the provider to install]]
  calls       \* how many there were, to their bound

vars == <<provider, modlog, logger, latch, levels, run, calls>>

Idle == [at |-> "idle", logger |-> None, level |-> 0, sink |-> None, with |-> None]
Init ==
  /\ provider = [once |-> Nobody, is |-> None]
  /\ modlog = [once |-> Nobody, provider |-> None, flag |-> FALSE]
  /\ logger = [l \in Loggers |-> [once |-> Nobody, instance |-> None]]
  /\ latch = [l \in Loggers |-> [once |-> Nobody, custom |-> FALSE]]
  /\ levels = [m \in Loggers \cup {None} |-> None]
  /\ run = [g \in Goroutines |-> Idle] /\ calls = 0

At(g, s) == run[g].at = s
Goes(g, s) == run' = [run EXCEPT ![g].at = s]
Calls == calls < MaxCalls /\ calls' = calls + 1
L(g) == run[g].logger
GetLevel(l) ==
  IF levels[l] # None THEN levels[l] ELSE IF levels[None] # None THEN levels[None] ELSE Info

-----------------------------------------------------------------------------
(* pkg/common/logging                                                      *)

\* Fatal ... Errorln of a logger
Log(g, l, level) ==
  /\ At(g, "idle") /\ Calls
  /\ run' = [run EXCEPT ![g] = [Idle EXCEPT !.at = "logger", !.logger = l, !.level = level]]
  /\ UNCHANGED <<provider, modlog, logger, latch, levels>>
\* logger(): the first one goes on to the provider, the others wait for it.
EnterLogger(g) ==
  /\ At(g, "logger") /\ logger[L(g)].once \in {Nobody, Done}
  /\ \/ /\ logger[L(g)].once = Nobody /\ Goes(g, "provider")
        /\ logger' = [logger EXCEPT ![L(g)].once = g]
     \/ logger[L(g)].once = Done /\ Goes(g, "ask") /\ UNCHANGED logger
  /\ UNCHANGED <<provider, modlog, latch, levels, calls>>
\* loggerProvider(), or Initialize with a provider of one's own. The once is left when the
\* provider has logged a line, in which it is not this logger that is used.
EnterProvider(g) ==
  /\ At(g, "provider") /\ provider.once \in {Nobody, Done}
  /\ \/ provider.once = Nobody /\ Goes(g, "set") /\ provider' = [provider EXCEPT !.once = g]
     \/ provider.once = Done /\ UNCHANGED provider
        /\ Goes(g, IF L(g) = None THEN "idle" ELSE "get")
  /\ UNCHANGED <<modlog, logger, latch, levels, calls>>
SetProvider(g) ==
  /\ At(g, "set") /\ Goes(g, IF L(g) = None THEN "idle" ELSE "get")
  /\ provider' = [once |-> Done, is |-> IF L(g) = None THEN run[g].with ELSE ModLog]
  /\ UNCHANGED <<modlog, logger, latch, levels, calls>>
\* l.instance = GetLogger(module)
GetLogger(g) ==
  /\ At(g, "get") /\ Goes(g, "ask")
  /\ logger' = [logger EXCEPT ![L(g)] = [once |-> Done, instance |-> provider.is]]
  /\ UNCHANGED <<provider, modlog, latch, levels, calls>>

\* slip: who comes later brings along the logger that counts
InitializeAnew(g, p) ==
  /\ At(g, "idle") /\ Calls /\ run' = [run EXCEPT ![g] = [Idle EXCEPT !.at = "set", !.with = p]]
  /\ UNCHANGED <<provider, modlog, logger, latch, levels>>
Initialize(g, p) ==
  /\ At(g, "idle") /\ Calls
  /\ run' = [run EXCEPT ![g] = [Idle EXCEPT !.at = "provider", !.with = p]]
  /\ UNCHANGED <<provider, modlog, logger, latch, levels>>

-----------------------------------------------------------------------------
(* modlog                                                                  *)

\* Fatal, Panic and Print, whatever the level of the module
AlwaysWritten(level) == level = 0
\* What the loggers do with a message: one of ModLog reads the levels, once.
\* Another provider is just given it.
Ask(g) ==
  /\ At(g, "ask") /\ UNCHANGED <<provider, modlog, logger, latch, levels, calls>>
  /\ run' = IF logger[L(g)].instance # ModLog
            THEN [run EXCEPT ![g].at = "write", ![g].sink = logger[L(g)].instance]
            ELSE [run EXCEPT ![g].at = IF AlwaysWritten(run[g].level) \/ run[g].level <= GetLevel(L(g))
                                        THEN "custom" ELSE "idle"]
\* loadCustomLogger, a once for each Log
EnterCustom(g) ==
  /\ At(g, "custom") /\ latch[L(g)].once \in {Nobody, Done}
  /\ \/ latch[L(g)].once = Nobody /\ latch' = [latch EXCEPT ![L(g)].once = g] /\ Goes(g, "load")
     \/ /\ latch[L(g)].once = Done /\ UNCHANGED latch
        /\ run' = [run EXCEPT ![g].at = "write",
                     ![g].sink = IF latch[L(g)].custom THEN modlog.provider ELSE ModLog]
  /\ UNCHANGED <<provider, modlog, logger, levels, calls>>
\* slip: the flag is looked at each time
LoadEachTime(g) ==
  /\ At(g, "load") /\ run' = [run EXCEPT ![g].at = "write",
       ![g].sink = IF modlog.flag THEN modlog.provider ELSE ModLog]
  /\ latch' = [latch EXCEPT ![L(g)] = [once |-> Nobody, custom |-> modlog.flag]]
  /\ UNCHANGED <<provider, modlog, logger, levels, calls>>
Load(g) ==
  /\ At(g, "load") /\ Goes(g, "custom")
  /\ latch' = [latch EXCEPT ![L(g)] = [once |-> Done, custom |-> modlog.flag]]
  /\ UNCHANGED <<provider, modlog, logger, levels, calls>>
Write(g) ==
  /\ At(g, "write") /\ run' = [run EXCEPT ![g] = Idle]
  /\ UNCHANGED <<provider, modlog, logger, latch, levels, calls>>

\* InitLogger: the provider, and then the flag
BeginInit(g) ==
  /\ At(g, "idle") /\ Calls /\ modlog.once = Nobody /\ Goes(g, "init")
  /\ modlog' = [modlog EXCEPT !.once = g] /\ UNCHANGED <<provider, logger, latch, levels>>
\* slip: the flag, and then the provider
InitFlagFirst(g) ==
  /\ At(g, "init") /\ modlog' = [modlog EXCEPT !.flag = TRUE] /\ Goes(g, "inited")
  /\ UNCHANGED <<provider, logger, latch, levels, calls>>
InitProvider(g) ==
  /\ At(g, "init") /\ modlog' = [modlog EXCEPT !.provider = Custom] /\ Goes(g, "inited")
  /\ UNCHANGED <<provider, logger, latch, levels, calls>>
InitFlag(g) ==
  /\ At(g, "inited") /\ Goes(g, "idle")
  /\ modlog' = [once |-> Done, provider |-> Custom, flag |-> TRUE]
  /\ UNCHANGED <<provider, logger, latch, levels, calls>>
SetLevel(g, m, level) ==
  /\ At(g, "idle") /\ Calls /\ levels' = [levels EXCEPT ![m] = level]
  /\ UNCHANGED <<provider, modlog, logger, latch, run>>

Goroutine(g) ==
  \/ \E l \in Loggers, level \in Levels : Log(g, l, level)
  \/ \E p \in Providers \cup {ModLog} : Initialize(g, p)
  \/ \E m \in Loggers \cup {None}, level \in Levels : SetLevel(g, m, level)
  \/ EnterLogger(g) \/ EnterProvider(g) \/ SetProvider(g) \/ GetLogger(g) \/ Ask(g)
  \/ EnterCustom(g) \/ Load(g) \/ Write(g) \/ BeginInit(g) \/ InitProvider(g) \/ InitFlag(g)
Next == \E g \in Goroutines : Goroutine(g)
Spec == Init /\ [][Next]_vars

-----------------------------------------------------------------------------
(* Properties                                                              *)

\* The shape of the state; a once that runs is held by one who is in it.
TypeOK ==
  /\ provider.is \in Providers \cup {ModLog, None} /\ modlog.provider \in {Custom, None}
  /\ \A l \in Loggers :
       /\ logger[l].instance \in Providers \cup {ModLog, None}
       /\ logger[l].once \in Goroutines => At(logger[l].once, "provider")
            \/ At(logger[l].once, "set") \/ At(logger[l].once, "get")
       /\ latch[l].once \in Goroutines => At(latch[l].once, "load")

\* All loggers of the process log with one provider, whoever came first and however many
\* SDKs there are; and a message that is written has somewhere to go.
OneProvider ==
  /\ \A l \in Loggers : logger[l].instance \in {None, provider.is}
  /\ \A g \in Goroutines :
       /\ At(g, "ask") => logger[L(g)].instance # None
       /\ At(g, "write") => run[g].sink # None

\* Where the messages of a logger go does not change after the first one was written.
SinksStayStep ==
  \A g, h \in Goroutines : At(g, "write") /\ run'[h].at = "write" /\ L(g) = run'[h].logger
    => run'[h].sink = run[g].sink
SinksStay == [][SinksStayStep]_vars
=============================================================================
