----------------------------- MODULE LoggerCore -----------------------------
(***************************************************************************)
(* logger/zap: the process's logger, which Configure replaces while others *)
(* log, and the loggers derived from it, which stay with the core they     *)
(* come from.                                                              *)
(*                                                                         *)
(* Configure builds a core, then storeLogger flushes the one before and    *)
(* stores the new one; SetLevel looks the core up, then sets the level.    *)
(* Other goroutines may come in between.  External: zapcore, whose core    *)
(* writes what its level lets through.                                     *)
(***************************************************************************)
EXTENDS Naturals, Sequences, FiniteSets

CONSTANTS
  Configs,     \* the configurations: level, selectors and output
  Names,       \* names given to NewLogger and Named
  MaxCores,    \* bound on the calls of Configure
  MaxLoggers,  \* bound on the loggers made
  MaxSets      \* bound on the calls of SetLevel

VARIABLES
  cores,    \* the cores built: their configuration, level now, whether their
            \* output was flushed when they were replaced
  current,  \* the core in _log, or 0 for the one of init, which drops everything
  building, \* cores that are built and flushed the one before, but not stored
  loggers,  \* the loggers: core, name, and whether selectors still filter
  setting,  \* the calls of SetLevel that have looked up their core
  stdlog,   \* whether the log of the standard library is discarded
  entry,    \* the last entry: logger, level and whether it was written
  sets      \* number of calls of SetLevel

logVars == <<cores, current, building, loggers, setting, stdlog, entry, sets>>

Debug == 0
Info == 1
Error == 3
Levels == {Debug, Info, Error}
AllSelectors == <<"*">>
NoEntry == [logger |-> 0, level |-> Debug, written |-> FALSE]

NoneLogged == entry' = NoEntry

Init ==
  /\ cores = <<>> /\ current = 0 /\ building = {} /\ loggers = <<>>
  /\ setting = {} /\ stdlog = "on" /\ entry = NoEntry /\ sets = 0

-----------------------------------------------------------------------------
(* Configure *)

\* Level.Enabled
Enabled(level, l) == level >= l

\* The selectors filter only if the configuration lets debug through at all.
Selective(cfg) == Enabled(Debug, cfg.level) /\ cfg.selectors # {}

\* Configure up to the store: the output may fail.
Build(cfg) ==
  /\ Len(cores) < MaxCores
  /\ cores' = Append([c \in DOMAIN cores |->
                        IF c = current THEN [cores[c] EXCEPT !.flushed = TRUE] ELSE cores[c]],
                     [cfg |-> cfg, level |-> cfg.level, flushed |-> FALSE])
  /\ building' = building \cup {Len(cores) + 1}
  /\ stdlog' = IF Selective(cfg) /\ <<"stdlog">> \notin cfg.selectors THEN "discarded" ELSE stdlog
  /\ UNCHANGED <<current, loggers, setting, sets>> /\ NoneLogged

\* storeLogger's atomic store.
Store(c) ==
  /\ c \in building
  /\ building' = building \ {c}
  /\ current' = c
  /\ UNCHANGED <<cores, loggers, setting, stdlog, sets>> /\ NoneLogged

\* SetLevel: the lookup, and the atomic level of the core that was found.
SetLevel(level) ==
  /\ sets < MaxSets /\ sets' = sets + 1
  /\ current # 0
  /\ setting' = setting \cup {[core |-> current, level |-> level]}
  /\ UNCHANGED <<cores, current, building, loggers, stdlog>> /\ NoneLogged

SetAtom(s) ==
  /\ s \in setting
  /\ setting' = setting \ {s}
  /\ cores' = [cores EXCEPT ![s.core].level = s.level]
  /\ UNCHANGED <<current, building, loggers, stdlog, sets>> /\ NoneLogged

-----------------------------------------------------------------------------
(* Loggers *)

Make(logger) ==
  /\ Len(loggers) < MaxLoggers
  /\ loggers' = Append(loggers, logger)
  /\ UNCHANGED <<cores, current, building, setting, stdlog, sets>> /\ NoneLogged

\* NewLogger; one from before the first Configure drops everything for ever.
NewLogger(name) ==
  Make([core |-> current, name |-> <<name>>,
        selective |-> current # 0 /\ Selective(cores[current].cfg)])

\* Instance
Instance ==
  Make([core |-> current, name |-> <<>>,
        selective |-> current # 0 /\ Selective(cores[current].cfg)])

\* Seeded fault: the core inside is given to the child.
With_Unwraps(l) == Make([loggers[l] EXCEPT !.selective = FALSE])

\* With and WithNamespace: the child's core is wrapped again.
With(l) == Make([loggers[l] EXCEPT !.selective = @ /\ cores[loggers[l].core].cfg.selectors # {}])

\* Named extends the name.
Named(l, name) == Make([loggers[l] EXCEPT !.name = Append(@, name)])

\* selectiveCore.Check: debug goes by the selectors, which are whole names.
Check(l, level) ==
  LET c == cores[l.core] IN
  /\ Enabled(level, c.level)
  /\ level = Debug /\ l.selective =>
       AllSelectors \in c.cfg.selectors \/ l.name \in c.cfg.selectors

\* The methods of the levels.
Log(l, level) ==
  /\ entry' = [logger |-> l, level |-> level,
               written |-> loggers[l].core # 0 /\ Check(loggers[l], level)]
  /\ UNCHANGED <<cores, current, building, loggers, setting, stdlog, sets>>

Next ==
  \/ \E cfg \in Configs : Build(cfg)
  \/ \E c \in building : Store(c)
  \/ \E level \in Levels : SetLevel(level)
  \/ \E s \in setting : SetAtom(s)
  \/ \E name \in Names : NewLogger(name)
  \/ Instance
  \/ \E l \in DOMAIN loggers : With(l)
  \/ \E l \in DOMAIN loggers, name \in Names : Named(l, name)
  \/ \E l \in DOMAIN loggers, level \in Levels : Log(l, level)

Spec == Init /\ [][Next]_logVars

-----------------------------------------------------------------------------
(* Properties *)

\* What a logger writes is decided by the configuration it comes from, through
\* any number of With and Named and whatever was configured since: the level
\* last set for that configuration, and for debug, if that configuration was
\* for debug with selectors, its whole name.  (A configuration that was not for
\* debug has no filter, also when SetLevel lowers its level.)
WritesAsConfigured ==
  entry # NoEntry =>
    LET l == loggers[entry.logger] IN
    entry.written <=>
      /\ l.core # 0
      /\ LET c == cores[l.core] IN
           /\ entry.level >= c.level
           /\ \/ entry.level > Debug \/ c.cfg.level > Debug \/ c.cfg.selectors = {}
              \/ {l.name, AllSelectors} \cap c.cfg.selectors # {}

=============================================================================
