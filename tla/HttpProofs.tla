----------------------------- MODULE HttpProofs -----------------------------
(***************************************************************************)
(* What a request may rely on in the parts it passes (MCHttp), for any     *)
(* number of clients, requests, hops, loggers and calls.                   *)
(***************************************************************************)
EXTENDS MCHttp, SequenceTheorems, TLAPS

\* A step is one of a single subject, and leaves the variables of the others.
LEMMA OneSubject ==
  ASSUME [BenchNext]_BenchVars
  PROVE  /\ CorsNext \/ UNCHANGED corsVars
         /\ ClientNext \/ UNCHANGED restVars
         /\ AnswerNext \/ UNCHANGED responseVars
         /\ HopsNext \/ UNCHANGED traceVars
         /\ LoggerNext \/ UNCHANGED logVars
<1>1. CASE ServerNext
  BY <1>1 DEF ServerNext, OfServer
<1>2. CASE CorsNext
  BY <1>2 DEF CorsNext, OfCors
<1>3. CASE ClientNext
  BY <1>3 DEF ClientNext, OfClient
<1>4. CASE AnswerNext
  BY <1>4 DEF AnswerNext, OfAnswer
<1>5. CASE HopsNext
  BY <1>5 DEF HopsNext, OfHops
<1>6. CASE LoggerNext
  BY <1>6 DEF LoggerNext, OfLogger
<1>7. CASE UNCHANGED BenchVars
  BY <1>7 DEF BenchVars
<1> QED
  BY <1>1, <1>2, <1>3, <1>4, <1>5, <1>6, <1>7 DEF BenchNext

-----------------------------------------------------------------------------
(* Answers (RestResponse) *)

Bodies == {"none", "open", "closed"}

\* A body is closed exactly if it was read as a whole; a response that was not
\* read has none of it, and one that was has all of it or an error.
AnswerInv ==
  /\ response \in [err : BOOLEAN, is2xx : BOOLEAN, isRead : BOOLEAN, bf : {"empty", "whole"}]
  /\ body \in Bodies
  /\ into \in Seq({"whole", "error"})
  /\ response.bf = "whole" <=> body = "closed"
  /\ response.bf = "whole" => response.isRead

LEMMA AnswerInit == BenchInit => AnswerInv
<1> SUFFICES ASSUME Answer!Init PROVE AnswerInv
  BY DEF BenchInit
<1> QED
  BY EmptySeq DEF Answer!Init, AnswerInv, Bodies

LEMMA AnswerDo ==
  ASSUME AnswerInv, NEW answered \in BOOLEAN, NEW is2xx \in BOOLEAN, Answer!Do(answered, is2xx)
  PROVE  AnswerInv'
<1>1. /\ response' \in [err : BOOLEAN, is2xx : BOOLEAN, isRead : BOOLEAN, bf : {"empty", "whole"}]
      /\ response'.bf = response.bf
  BY DEF AnswerInv, Answer!Do
<1> QED
  BY <1>1 DEF AnswerInv, Answer!Do, Bodies

LEMMA AnswerInto ==
  ASSUME AnswerInv, NEW whole \in BOOLEAN, NEW decodes \in BOOLEAN, Answer!Into(whole, decodes)
  PROVE  AnswerInv'
<1>1. CASE response.err
  BY <1>1 DEF AnswerInv, Answer!Into
<1>2. CASE ~ response.err
  <2> DEFINE p == Answer!read(response, whole)
  <2>1. /\ p \in [err : BOOLEAN, is2xx : BOOLEAN, isRead : BOOLEAN, bf : {"empty", "whole"}]
        /\ p.isRead
        /\ p.bf = IF ~ response.isRead /\ whole THEN "whole" ELSE response.bf
    BY DEF AnswerInv, Answer!read
  <2>2. /\ response' = p /\ body' = Answer!CloseAfter(response, whole)
        /\ into' = Append(into, Answer!Result(p, decodes))
    BY <1>2 DEF Answer!Into
  <2> HIDE DEF p
  <2>3. Answer!Result(p, decodes) \in {"whole", "error"}
    BY <2>1 DEF Answer!Result
  <2>4. into' \in Seq({"whole", "error"})
    BY <2>2, <2>3 DEF AnswerInv
  <2>5. body' = IF ~ response.isRead /\ whole THEN "closed" ELSE body
    BY <2>2 DEF Answer!CloseAfter
  <2> QED
    BY <2>1, <2>2, <2>4, <2>5 DEF AnswerInv, Bodies
<1> QED
  BY <1>1, <1>2

LEMMA AnswerStep == AnswerInv /\ [BenchNext]_BenchVars => AnswerInv'
<1> SUFFICES ASSUME AnswerInv, [BenchNext]_BenchVars PROVE AnswerInv'
  OBVIOUS
<1>1. CASE AnswerNext
  BY <1>1, AnswerDo, AnswerInto DEF AnswerNext, OfAnswer
<1>2. CASE UNCHANGED responseVars
  BY <1>2 DEF AnswerInv, responseVars
<1> QED
  BY <1>1, <1>2, OneSubject

\* Into gives a whole body or an error, after any reads that failed halfway and
\* however often it is called, and the connection of a body that was read as a
\* whole is free.
THEOREM AnswersWhole == BenchSpec => []IntoIsWhole
<1>1. AnswerInv => IntoIsWhole
  <2> SUFFICES ASSUME AnswerInv PROVE IntoIsWhole
    OBVIOUS
  <2>1. \A i \in DOMAIN into : into[i] \in {"whole", "error"}
    BY ElementOfSeq, LenProperties DEF AnswerInv
  <2>2. response.bf # "empty" <=> body = "closed"
    BY DEF AnswerInv
  <2> QED
    BY <2>1, <2>2 DEF IntoIsWhole, Answer!IntoIsWhole
<1> QED
  BY <1>1, AnswerInit, AnswerStep, PTL DEF BenchSpec

-----------------------------------------------------------------------------
(* Loggers (LoggerCore) *)

LoggerCores == [cfg : LoggerConfigs, level : Nat, flushed : BOOLEAN]
Settings == [core : Nat, level : Log!Levels]
Loggers == [core : Nat, name : Seq(LoggerNames), selective : BOOLEAN]

\* The selectors filter for a logger exactly if its configuration has them to:
\* a logger's core has been built, and its configuration never changes.
FiltersAsConfigured(logger) ==
  /\ logger.core <= Len(cores)
  /\ logger.selective <=> logger.core # 0 /\ Log!Selective(cores[logger.core].cfg)

LogTypeOK ==
  /\ cores \in Seq(LoggerCores)
  /\ current \in 0 .. Len(cores)
  /\ building \subseteq 1 .. Len(cores)
  /\ setting \in SUBSET Settings
  /\ loggers \in Seq(Loggers)

LogInv ==
  /\ LogTypeOK
  /\ \A s \in setting : s.core \in 1 .. Len(cores)
  /\ \A l \in 1 .. Len(loggers) : FiltersAsConfigured(loggers[l])
  /\ Log!WritesAsConfigured

LEMMA ConfigLevels == \A cfg \in LoggerConfigs : cfg.level \in Nat
BY DEF LoggerConfigs

LEMMA LevelsAreNaturals == Log!Levels \subseteq Nat
BY DEF Log!Levels, Log!Debug, Log!Info, Log!Error

LEMMA LogInit == BenchInit => LogInv
<1> SUFFICES ASSUME Log!Init PROVE LogInv
  BY DEF BenchInit
<1>1. Len(cores) = 0 /\ Len(loggers) = 0
  BY DEF Log!Init
<1>2. LogTypeOK
  BY <1>1, EmptySeq DEF Log!Init, LogTypeOK
<1> QED
  BY <1>1, <1>2 DEF Log!Init, LogInv, Log!WritesAsConfigured

\* Cores come and change their level, but not their configuration.
LEMMA CoresGrow ==
  ASSUME LogInv, LogTypeOK', Len(cores') >= Len(cores),
         \A c \in 1 .. Len(cores) : cores'[c].cfg = cores[c].cfg
  PROVE  /\ \A s \in setting : s.core \in 1 .. Len(cores')
         /\ \A l \in 1 .. Len(loggers) :
              /\ loggers[l].core <= Len(cores')
              /\ loggers[l].selective <=>
                   loggers[l].core # 0 /\ Log!Selective(cores'[loggers[l].core].cfg)
<1>1. Len(cores) \in Nat /\ Len(cores') \in Nat
  BY LenProperties DEF LogInv, LogTypeOK
<1>2. ASSUME NEW s \in setting PROVE s.core \in 1 .. Len(cores')
  BY <1>1 DEF LogInv
<1>3. ASSUME NEW l \in 1 .. Len(loggers)
      PROVE  /\ loggers[l].core <= Len(cores')
             /\ loggers[l].selective <=>
                  loggers[l].core # 0 /\ Log!Selective(cores'[loggers[l].core].cfg)
  <2>1. loggers[l] \in Loggers
    BY ElementOfSeq DEF LogInv, LogTypeOK
  <2>2. loggers[l].core \in Nat /\ loggers[l].core <= Len(cores)
    BY <2>1 DEF LogInv, FiltersAsConfigured, Loggers
  <2>3. loggers[l].core # 0 => cores'[loggers[l].core].cfg = cores[loggers[l].core].cfg
    BY <1>1, <2>2
  <2>4. loggers[l].core <= Len(cores')
    BY <1>1, <2>2
  <2>5. loggers[l].selective <=>
          loggers[l].core # 0 /\ Log!Selective(cores[loggers[l].core].cfg)
    BY DEF LogInv, FiltersAsConfigured
  <2> QED
    BY <2>3, <2>4, <2>5
<1> QED
  BY <1>2, <1>3

LEMMA NothingLogged == entry' = Log!NoEntry => Log!WritesAsConfigured'
BY DEF Log!WritesAsConfigured

LEMMA LogBuild ==
  ASSUME LogInv, NEW cfg \in LoggerConfigs, Log!Build(cfg)
  PROVE  LogInv'
<1> DEFINE flushed == [c \in DOMAIN cores |-> IF c = current THEN [cores[c] EXCEPT !.flushed = TRUE]
                                              ELSE cores[c]]
           core == [cfg |-> cfg, level |-> cfg.level, flushed |-> FALSE]
<1>1. /\ cores' = Append(flushed, core)
      /\ building' = building \cup {Len(cores) + 1}
      /\ current' = current /\ loggers' = loggers /\ setting' = setting
      /\ entry' = Log!NoEntry
  BY DEF Log!Build, Log!NoneLogged
<1>2. Len(cores) \in Nat /\ DOMAIN cores = 1 .. Len(cores)
  BY LenProperties DEF LogInv, LogTypeOK
<1>3. \A c \in 1 .. Len(cores) : cores[c] \in LoggerCores
  BY ElementOfSeq DEF LogInv, LogTypeOK
<1>4. \A c \in 1 .. Len(cores) : flushed[c] \in LoggerCores /\ flushed[c].cfg = cores[c].cfg
  BY <1>2, <1>3 DEF LoggerCores
<1>5. flushed \in Seq(LoggerCores) /\ Len(flushed) = Len(cores)
  BY <1>2, <1>4
<1>6. core \in LoggerCores
  BY ConfigLevels DEF LoggerCores
<1> HIDE DEF flushed, core
<1>7. /\ cores' \in Seq(LoggerCores) /\ Len(cores') = Len(cores) + 1
      /\ \A c \in 1 .. Len(cores) : cores'[c] = flushed[c]
  BY <1>1, <1>2, <1>5, <1>6, AppendProperties
<1>8. LogTypeOK'
  <2>1. 0 .. Len(cores) \subseteq 0 .. Len(cores) + 1
        /\ 1 .. Len(cores) \subseteq 1 .. Len(cores) + 1 /\ Len(cores) + 1 \in 1 .. Len(cores) + 1
    BY <1>2
  <2>2. current' \in 0 .. Len(cores')
    BY <1>1, <1>7, <2>1 DEF LogInv, LogTypeOK
  <2>3. building' \subseteq 1 .. Len(cores')
    BY <1>1, <1>7, <2>1 DEF LogInv, LogTypeOK
  <2> QED
    BY <1>1, <1>7, <2>2, <2>3 DEF LogInv, LogTypeOK
<1>9. Len(cores') >= Len(cores) /\ \A c \in 1 .. Len(cores) : cores'[c].cfg = cores[c].cfg
  BY <1>2, <1>4, <1>7
<1> QED
  BY <1>1, <1>8, <1>9, CoresGrow, NothingLogged DEF LogInv, FiltersAsConfigured

LEMMA LogSetAtom ==
  ASSUME LogInv, NEW s \in setting, Log!SetAtom(s)
  PROVE  LogInv'
<1>1. /\ cores' = [cores EXCEPT ![s.core].level = s.level]
      /\ setting' = setting \ {s}
      /\ current' = current /\ loggers' = loggers /\ building' = building
      /\ entry' = Log!NoEntry
  BY DEF Log!SetAtom, Log!NoneLogged
<1>2. Len(cores) \in Nat /\ DOMAIN cores = 1 .. Len(cores) /\ s.core \in 1 .. Len(cores)
  BY LenProperties DEF LogInv, LogTypeOK
<1>3. \A c \in 1 .. Len(cores) : cores[c] \in LoggerCores
  BY ElementOfSeq DEF LogInv, LogTypeOK
<1>4. s.level \in Nat
  BY LevelsAreNaturals DEF LogInv, LogTypeOK, Settings
<1>5. \A c \in 1 .. Len(cores) : cores'[c] \in LoggerCores /\ cores'[c].cfg = cores[c].cfg
  BY <1>1, <1>2, <1>3, <1>4 DEF LoggerCores
<1>6. cores' \in Seq(LoggerCores) /\ Len(cores') = Len(cores)
  <2>1. cores' = [c \in 1 .. Len(cores) |-> cores'[c]]
    BY <1>1, <1>2
  <2> QED
    BY <1>2, <1>5, <2>1
<1>7. LogTypeOK'
  BY <1>1, <1>6 DEF LogInv, LogTypeOK
<1>8. Len(cores') >= Len(cores)
  BY <1>2, <1>6
<1> QED
  BY <1>1, <1>5, <1>7, <1>8, CoresGrow, NothingLogged DEF LogInv, FiltersAsConfigured

LEMMA LogMake ==
  ASSUME LogInv, NEW logger \in Loggers, FiltersAsConfigured(logger), Log!Make(logger)
  PROVE  LogInv'
<1>1. /\ loggers' = Append(loggers, logger)
      /\ UNCHANGED <<cores, current, building, setting>> /\ entry' = Log!NoEntry
  BY DEF Log!Make, Log!NoneLogged
<1>2. /\ loggers' \in Seq(Loggers) /\ Len(loggers') = Len(loggers) + 1
      /\ \A l \in 1 .. Len(loggers) : loggers'[l] = loggers[l]
      /\ loggers'[Len(loggers) + 1] = logger
      /\ Len(loggers) \in Nat
  BY <1>1, AppendProperties, LenProperties DEF LogInv, LogTypeOK
<1>3. LogTypeOK'
  BY <1>1, <1>2 DEF LogInv, LogTypeOK
<1>4. \A l \in 1 .. Len(loggers') : l \in 1 .. Len(loggers) \/ l = Len(loggers) + 1
  BY <1>2
<1>5. ASSUME NEW l \in 1 .. Len(loggers') PROVE FiltersAsConfigured(loggers'[l])
  BY <1>2, <1>4 DEF LogInv
<1> QED
  BY <1>1, <1>3, <1>5, NothingLogged DEF LogInv, FiltersAsConfigured

LEMMA LogLog ==
  ASSUME LogInv, NEW l \in DOMAIN loggers, NEW level \in Log!Levels, Log!Log(l, level)
  PROVE  LogInv'
<1>1. /\ entry' = [logger |-> l, level |-> level,
                   written |-> loggers[l].core # 0 /\ Log!Check(loggers[l], level)]
      /\ UNCHANGED <<cores, current, building, setting, loggers>>
  BY DEF Log!Log
<1> DEFINE logger == loggers[l]
           c == cores[logger.core]
<1>2. logger \in Loggers /\ FiltersAsConfigured(logger)
  BY ElementOfSeq, LenProperties DEF LogInv, LogTypeOK
<1>3. logger.core # 0 => c \in LoggerCores
  BY <1>2, ElementOfSeq DEF LogInv, LogTypeOK, FiltersAsConfigured, Loggers
<1>4. logger.core # 0 => c.level \in Nat /\ c.cfg.level \in Nat
  BY <1>3, ConfigLevels DEF LoggerCores
<1>5. level \in Nat
  BY LevelsAreNaturals
<1>6. logger.core # 0 => (logger.selective <=> c.cfg.level = 0 /\ c.cfg.selectors # {})
  <2> SUFFICES ASSUME logger.core # 0
               PROVE  logger.selective <=> c.cfg.level = 0 /\ c.cfg.selectors # {}
    OBVIOUS
  <2>1. 0 >= c.cfg.level <=> c.cfg.level = 0
    BY <1>4
  <2> QED
    BY <1>2, <2>1 DEF FiltersAsConfigured, Log!Selective, Log!Enabled, Log!Debug
<1>7. logger.core # 0 =>
        (Log!Check(logger, level) <=>
           /\ level >= c.level
           /\ \/ level > 0 \/ c.cfg.level > 0 \/ c.cfg.selectors = {}
              \/ {logger.name, <<"*">>} \cap c.cfg.selectors # {})
  <2> SUFFICES ASSUME logger.core # 0
               PROVE  Log!Check(logger, level) <=>
                        /\ level >= c.level
                        /\ \/ level > 0 \/ c.cfg.level > 0 \/ c.cfg.selectors = {}
                           \/ {logger.name, <<"*">>} \cap c.cfg.selectors # {}
    OBVIOUS
  <2>1. Log!Check(logger, level) <=>
          /\ level >= c.level
          /\ level = 0 /\ logger.selective =>
               <<"*">> \in c.cfg.selectors \/ logger.name \in c.cfg.selectors
    BY DEF Log!Check, Log!Enabled, Log!Debug, Log!AllSelectors
  <2>2. level > 0 <=> level # 0
    BY <1>5
  <2>3. c.cfg.level > 0 <=> c.cfg.level # 0
    BY <1>4
  <2>4. {logger.name, <<"*">>} \cap c.cfg.selectors # {} <=>
          <<"*">> \in c.cfg.selectors \/ logger.name \in c.cfg.selectors
    OBVIOUS
  <2> QED
    BY <1>6, <2>1, <2>2, <2>3, <2>4
<1>8. entry'.logger = l /\ entry'.level = level
      /\ (entry'.written <=> logger.core # 0 /\ Log!Check(logger, level))
  BY <1>1
<1> HIDE DEF c
<1>9. entry'.written <=>
        /\ logger.core # 0
        /\ /\ level >= c.level
           /\ \/ level > 0 \/ c.cfg.level > 0 \/ c.cfg.selectors = {}
              \/ {logger.name, <<"*">>} \cap c.cfg.selectors # {}
  BY <1>7, <1>8
<1>10. Log!WritesAsConfigured'
  BY <1>1, <1>8, <1>9 DEF c, Log!WritesAsConfigured, Log!Debug, Log!AllSelectors
<1> QED
  BY <1>1, <1>10 DEF LogInv, LogTypeOK, FiltersAsConfigured

LEMMA LogStep == LogInv /\ [BenchNext]_BenchVars => LogInv'
<1> SUFFICES ASSUME LogInv, [BenchNext]_BenchVars PROVE LogInv'
  OBVIOUS
<1> USE DEF OfLogger
<1>1. ASSUME NEW cfg \in LoggerConfigs, Log!Build(cfg) PROVE LogInv'
  BY <1>1, LogBuild
<1>2. ASSUME NEW c \in building, Log!Store(c) PROVE LogInv'
  <2>1. /\ building' = building \ {c} /\ current' = c
        /\ UNCHANGED <<cores, loggers, setting>> /\ entry' = Log!NoEntry
    BY <1>2 DEF Log!Store, Log!NoneLogged
  <2>2. LogTypeOK'
    BY <2>1 DEF LogInv, LogTypeOK
  <2> QED
    BY <2>1, <2>2, NothingLogged DEF LogInv, FiltersAsConfigured
<1>3. ASSUME NEW level \in Log!Levels, Log!SetLevel(level) PROVE LogInv'
  <2> DEFINE s == [core |-> current, level |-> level]
  <2>1. /\ setting' = setting \cup {s} /\ current # 0
        /\ UNCHANGED <<cores, loggers, building, current>> /\ entry' = Log!NoEntry
    BY <1>3 DEF Log!SetLevel, Log!NoneLogged
  <2>2. Len(cores) \in Nat
    BY LenProperties DEF LogInv, LogTypeOK
  <2>3. s \in Settings /\ s.core \in 1 .. Len(cores)
    BY <2>1, <2>2 DEF LogInv, LogTypeOK, Settings
  <2> HIDE DEF s
  <2>4. LogTypeOK'
    BY <2>1, <2>3 DEF LogInv, LogTypeOK
  <2> QED
    BY <2>1, <2>3, <2>4, NothingLogged DEF LogInv, FiltersAsConfigured
<1>4. ASSUME NEW s \in setting, Log!SetAtom(s) PROVE LogInv'
  BY <1>4, LogSetAtom
<1>5. \A name \in Seq(LoggerNames) :
        LET logger == [core |-> current, name |-> name,
                       selective |-> current # 0 /\ Log!Selective(cores[current].cfg)]
        IN  logger \in Loggers /\ FiltersAsConfigured(logger)
  <2>1. current \in Nat /\ current <= Len(cores)
    BY LenProperties DEF LogInv, LogTypeOK
  <2> QED
    BY <2>1 DEF Loggers, FiltersAsConfigured
<1>6. ASSUME NEW name \in LoggerNames, Log!NewLogger(name) PROVE LogInv'
  <2>1. <<name>> \in Seq(LoggerNames)
    OBVIOUS
  <2> QED
    BY <1>5, <1>6, <2>1, LogMake DEF Log!NewLogger
<1>7. ASSUME Log!Instance PROVE LogInv'
  <2>1. << >> \in Seq(LoggerNames)
    OBVIOUS
  <2> QED
    BY <1>5, <1>7, <2>1, LogMake DEF Log!Instance
<1>8. \A l \in DOMAIN loggers : loggers[l] \in Loggers /\ FiltersAsConfigured(loggers[l])
  BY ElementOfSeq, LenProperties DEF LogInv, LogTypeOK
<1>9. ASSUME NEW l \in DOMAIN loggers, Log!With(l) PROVE LogInv'
  <2> DEFINE logger == [loggers[l] EXCEPT !.selective = @ /\ cores[loggers[l].core].cfg.selectors # {}]
  <2>1. Log!Make(logger)
    BY <1>9 DEF Log!With
  <2>2. logger \in Loggers /\ logger.core = loggers[l].core
    BY <1>8 DEF Loggers
  <2>3. logger.selective <=> loggers[l].selective /\ cores[loggers[l].core].cfg.selectors # {}
    BY <1>8 DEF Loggers
  <2>4. logger.selective <=> loggers[l].selective
    BY <1>8, <2>3 DEF FiltersAsConfigured, Log!Selective
  <2> HIDE DEF logger
  <2>5. FiltersAsConfigured(logger)
    BY <1>8, <2>2, <2>4 DEF FiltersAsConfigured
  <2> QED
    BY <2>1, <2>2, <2>5, LogMake
<1>10. ASSUME NEW l \in DOMAIN loggers, NEW name \in LoggerNames, Log!Named(l, name) PROVE LogInv'
  <2> DEFINE logger == [loggers[l] EXCEPT !.name = Append(@, name)]
  <2>1. Log!Make(logger)
    BY <1>10 DEF Log!Named
  <2>2. logger \in Loggers /\ logger.core = loggers[l].core
        /\ (logger.selective <=> loggers[l].selective)
    BY <1>8 DEF Loggers
  <2> HIDE DEF logger
  <2>3. FiltersAsConfigured(logger)
    BY <1>8, <2>2 DEF FiltersAsConfigured
  <2> QED
    BY <2>1, <2>2, <2>3, LogMake
<1>11. ASSUME NEW l \in DOMAIN loggers, NEW level \in Log!Levels, Log!Log(l, level) PROVE LogInv'
  BY <1>11, LogLog
<1>12. CASE LoggerNext
  BY <1>12, <1>1, <1>2, <1>3, <1>4, <1>6, <1>7, <1>9, <1>10, <1>11 DEF LoggerNext
<1>13. CASE UNCHANGED logVars
  BY <1>13 DEF logVars, LogInv, LogTypeOK, FiltersAsConfigured, Log!WritesAsConfigured
<1> QED
  BY <1>12, <1>13, OneSubject

\* What a logger writes is decided by the configuration it comes from, through
\* any number of With and Named, of configurations stored since and of levels
\* set since, and in any order of their steps.
THEOREM LoggersWrite == BenchSpec => []WritesAsConfigured
<1>1. LogInv => WritesAsConfigured
  BY DEF LogInv, WritesAsConfigured
<1> QED
  BY <1>1, LogInit, LogStep, PTL DEF BenchSpec

-----------------------------------------------------------------------------
(* Hops (TraceTransport) *)

TraceOptions == [clientTrace : BOOLEAN, inject : BOOLEAN]
Headers == [id : Nat, span : Nat]
HopStates == {"sent", "answered", "closed"}
Hops == [state : HopStates, head : BOOLEAN, redirects : BOOLEAN,
         before : Headers, header : Headers, closed : Nat]
Spans == [finished : Nat, error : BOOLEAN, logged : SUBSET Nat]

HopTypeOK ==
  /\ opts \in TraceOptions \cup {T!None}
  /\ header \in Headers
  /\ tracer \in [root : {"none", "open", "finished"}, sp : Nat]
  /\ hops \in Seq(Hops)
  /\ spans \in Seq(Spans)

\* The span of a hop is finished exactly if the hop is over, the server was told
\* of it if spans are injected, and it has no events of later hops.
HopIsTraced(h) ==
  /\ spans[h].finished > 0 <=> hops[h].state = "closed"
  /\ hops[h].header.span = IF opts.inject THEN h ELSE 0
  /\ \A other \in spans[h].logged : other <= h

\* The Tracer is at the span of the last hop, the only one that may be under
\* way; and where spans are not injected no header has one to pass on.
HopInv ==
  /\ HopTypeOK
  /\ Len(spans) = Len(hops) /\ tracer.sp = Len(hops)
  /\ opts = T!None => hops = <<>> /\ header.span = 0
  /\ \A h \in 1 .. Len(hops) :
       /\ hops[h].state = "sent" => h = Len(hops)
       /\ opts.inject \/ hops[h].before.span = 0
       /\ HopIsTraced(h)
  /\ opts # T!None => opts.inject \/ header.span = 0

\* What makes a function a sequence.
LEMMA IsSequence ==
  ASSUME NEW S, NEW n \in Nat, NEW s \in [1 .. n -> S]
  PROVE  s \in Seq(S) /\ Len(s) = n
OBVIOUS

LEMMA HopInit == BenchInit => HopInv
<1> SUFFICES ASSUME T!Init PROVE HopInv
  BY DEF BenchInit
<1>1. header \in Headers /\ header.span = 0
  BY DEF T!Init, T!NoID, T!NoSpan, Headers
<1>2. tracer \in [root : {"none", "open", "finished"}, sp : Nat] /\ tracer.sp = 0
  BY DEF T!Init, T!NoSpan
<1>3. hops = <<>> /\ spans = <<>> /\ Len(hops) = 0 /\ Len(spans) = 0 /\ opts = T!None
  BY DEF T!Init
<1> QED
  BY <1>1, <1>2, <1>3, EmptySeq DEF HopInv, HopTypeOK

\* What the invariant says of the elements, for the steps below.
LEMMA HopFacts ==
  ASSUME HopInv
  PROVE  /\ Len(hops) \in Nat /\ Len(spans) = Len(hops)
         /\ DOMAIN hops = 1 .. Len(hops) /\ DOMAIN spans = 1 .. Len(hops)
         /\ \A h \in 1 .. Len(hops) : hops[h] \in Hops /\ spans[h] \in Spans
BY ElementOfSeq, LenProperties DEF HopInv, HopTypeOK

\* A step that changes nothing but what hop h and the span of hop s are.
LEMMA HopChanges ==
  ASSUME HopInv, NEW h \in 1 .. Len(hops), NEW s \in 1 .. Len(hops),
         NEW hop \in Hops, NEW span \in Spans,
         hops' = [hops EXCEPT ![h] = hop], spans' = [spans EXCEPT ![s] = span],
         UNCHANGED <<opts, header, tracer>>,
         hop.state = "sent" => hops[h].state = "sent",
         hop.before = hops[h].before, hop.header = hops[h].header,
         \A other \in span.logged : other <= s,
         \A i \in 1 .. Len(hops) : spans'[i].finished > 0 <=> hops'[i].state = "closed"
  PROVE  HopInv'
<1> USE HopFacts
<1>1. /\ DOMAIN hops' = 1 .. Len(hops) /\ DOMAIN spans' = 1 .. Len(hops)
      /\ \A i \in 1 .. Len(hops) : hops'[i] = IF i = h THEN hop ELSE hops[i]
      /\ \A i \in 1 .. Len(hops) : spans'[i] = IF i = s THEN span ELSE spans[i]
  OBVIOUS
<1>2. hops' \in Seq(Hops) /\ spans' \in Seq(Spans) /\ Len(hops') = Len(hops) /\ Len(spans') = Len(hops)
  <2>1. \A i \in 1 .. Len(hops) : hops'[i] \in Hops /\ spans'[i] \in Spans
    BY <1>1
  <2>2. hops' \in [1 .. Len(hops) -> Hops]
    BY <1>1, <2>1
  <2>3. spans' \in [1 .. Len(hops) -> Spans]
    BY <1>1, <2>1
  <2>4. Len(hops) \in Nat
    OBVIOUS
  <2>5. hops' \in Seq(Hops) /\ Len(hops') = Len(hops)
    BY <2>2, <2>4, IsSequence
  <2>6. spans' \in Seq(Spans) /\ Len(spans') = Len(hops)
    BY <2>3, <2>4, IsSequence, SMTT(40)
  <2> QED
    BY <2>5, <2>6
<1>3. ASSUME NEW i \in 1 .. Len(hops)
      PROVE  /\ hops'[i].state = "sent" => i = Len(hops)
             /\ opts.inject \/ hops'[i].before.span = 0
             /\ hops'[i].header.span = IF opts.inject THEN i ELSE 0
             /\ \A other \in spans'[i].logged : other <= i
  <2>1. /\ hops[i].state = "sent" => i = Len(hops)
        /\ opts.inject \/ hops[i].before.span = 0
        /\ hops[i].header.span = IF opts.inject THEN i ELSE 0
        /\ \A other \in spans[i].logged : other <= i
    BY DEF HopInv, HopIsTraced
  <2>2. /\ hops'[i].state = "sent" => hops[i].state = "sent"
        /\ hops'[i].before = hops[i].before /\ hops'[i].header = hops[i].header
    BY <1>1
  <2>3. \A other \in spans'[i].logged : other <= i
    BY <1>1, <2>1
  <2> QED
    BY <2>1, <2>2, <2>3
<1>4. HopTypeOK'
  BY <1>2 DEF HopInv, HopTypeOK
<1>5. hops' = <<>> <=> hops = <<>>
  BY <1>2
<1> QED
  BY <1>2, <1>3, <1>4, <1>5 DEF HopInv, HopIsTraced

LEMMA HopTraceRequest ==
  ASSUME HopInv, NEW trace \in TraceOptions, NEW id \in {T!NoID, T!CallersID},
         T!TraceRequest(trace, id)
  PROVE  HopInv'
<1>1. /\ opts = T!None /\ opts' = trace /\ header' = [header EXCEPT !.id = id]
      /\ UNCHANGED <<tracer, spans, hops>>
  BY DEF T!TraceRequest
<1>2. hops = <<>> /\ header.span = 0 /\ Len(hops) = 0
  BY <1>1 DEF HopInv
<1>3. id \in Nat
  BY DEF T!NoID, T!CallersID
<1>4. header' \in Headers /\ header'.span = 0
  BY <1>1, <1>2, <1>3 DEF HopInv, HopTypeOK, Headers
<1>5. HopTypeOK'
  BY <1>1, <1>4 DEF HopInv, HopTypeOK
<1>6. T!None \notin TraceOptions
  <2>1. ASSUME NEW o \in TraceOptions PROVE o # T!None
    <3>1. DOMAIN o = {"clientTrace", "inject"}
      BY DEF TraceOptions
    <3>2. DOMAIN T!None = {"none"}
      BY DEF T!None
    <3> QED
      BY <3>1, <3>2
  <2> QED
    BY <2>1
<1> QED
  BY <1>1, <1>2, <1>4, <1>5, <1>6 DEF HopInv, HopIsTraced

LEMMA HopRoundTrip ==
  ASSUME HopInv, NEW redirect \in BOOLEAN, NEW head \in BOOLEAN, T!RoundTrip(redirect, head)
  PROVE  HopInv'
<1> DEFINE n == Len(hops) + 1
           before == IF redirect THEN T!Last(hops).before ELSE header
           hop == [state |-> "sent", head |-> head, redirects |-> FALSE,
                   before |-> before, header |-> T!Sent(before), closed |-> 0]
           span == [finished |-> 0, error |-> FALSE, logged |-> {}]
<1>1. /\ opts # T!None
      /\ \A h \in DOMAIN hops : hops[h].state # "sent"
      /\ redirect => hops # <<>>
      /\ tracer' = [root |-> IF tracer.root = "none" THEN "open" ELSE tracer.root,
                    sp   |-> Len(spans) + 1]
      /\ spans' = Append(spans, span)
      /\ hops' = Append(hops, hop)
      /\ header' = IF redirect THEN header ELSE T!Sent(before)
      /\ opts' = opts
  <2>1. /\ opts # T!None
        /\ \A h \in DOMAIN hops : hops[h].state # "sent"
        /\ redirect => hops # <<>>
    BY DEF T!RoundTrip
  <2>2. /\ tracer' = [root |-> IF tracer.root = "none" THEN "open" ELSE tracer.root,
                      sp   |-> Len(spans) + 1]
        /\ spans' = Append(spans, span)
    BY DEF T!RoundTrip, T!start
  <2>3. opts' = opts
    BY DEF T!RoundTrip
  <2>4. hops' = Append(hops, hop)
    BY DEF T!RoundTrip
  <2>5. header' = IF redirect THEN header ELSE T!Sent(before)
    BY DEF T!RoundTrip
  <2> QED
    BY <2>1, <2>2, <2>3, <2>4, <2>5
<1>2. opts \in TraceOptions /\ opts.inject \in BOOLEAN
  BY <1>1 DEF HopInv, HopTypeOK, TraceOptions
<1>3. before \in Headers /\ (opts.inject \/ before.span = 0)
  <2>1. CASE redirect
    <3>1. Len(hops) \in 1 .. Len(hops) /\ T!Last(hops) = hops[Len(hops)]
      BY <1>1, <2>1, HopFacts DEF T!Last
    <3> QED
      BY <2>1, <3>1, HopFacts DEF HopInv, Hops
  <2>2. CASE ~ redirect
    BY <1>1, <2>2 DEF HopInv, HopTypeOK
  <2> QED
    BY <2>1, <2>2
<1> HIDE DEF before
<1>4. /\ T!Sent(before) \in Headers
      /\ T!Sent(before).span = IF opts.inject THEN n ELSE 0
  <2>1. T!XID(Len(hops) + 1) \in Nat /\ Len(spans) + 1 = n /\ n \in Nat
    BY HopFacts DEF T!XID, T!CallersID
  <2>2. before.id \in Nat /\ before.span \in Nat
    BY <1>3 DEF Headers
  <2> QED
    BY <1>2, <1>3, <2>1, <2>2 DEF T!Sent, Headers
<1>5. hop \in Hops /\ span \in Spans
  BY <1>3, <1>4 DEF Hops, Spans, HopStates
<1>6. /\ hop.state = "sent" /\ hop.before = before /\ hop.header = T!Sent(before)
      /\ span.finished = 0 /\ span.logged = {}
  OBVIOUS
<1> HIDE DEF hop, span
<1>7. /\ hops' \in Seq(Hops) /\ Len(hops') = n /\ hops'[n] = hop
      /\ \A h \in 1 .. Len(hops) : hops'[h] = hops[h]
      /\ spans' \in Seq(Spans) /\ Len(spans') = n /\ spans'[n] = span
      /\ \A h \in 1 .. Len(hops) : spans'[h] = spans[h]
      /\ n \in Nat
  BY <1>1, <1>5, HopFacts, AppendProperties DEF HopInv, HopTypeOK
<1>8. header' \in Headers /\ (opts.inject \/ header'.span = 0)
  BY <1>1, <1>2, <1>4 DEF HopInv, HopTypeOK
<1>9. tracer' \in [root : {"none", "open", "finished"}, sp : Nat] /\ tracer'.sp = n
  BY <1>1, HopFacts DEF HopInv, HopTypeOK
<1>10. HopTypeOK'
  BY <1>1, <1>7, <1>8, <1>9 DEF HopInv, HopTypeOK
<1>11. \A h \in 1 .. n : h = n \/ h \in 1 .. Len(hops)
  BY HopFacts
<1>12. ASSUME NEW h \in 1 .. n
       PROVE  /\ hops'[h].state = "sent" => h = n
              /\ opts.inject \/ hops'[h].before.span = 0
              /\ spans'[h].finished > 0 <=> hops'[h].state = "closed"
              /\ hops'[h].header.span = IF opts.inject THEN h ELSE 0
              /\ \A other \in spans'[h].logged : other <= h
  <2>1. CASE h = n
    BY <1>3, <1>4, <1>6, <1>7, <2>1
  <2>2. CASE h \in 1 .. Len(hops)
    <3>1. hops[h].state # "sent" /\ hops'[h] = hops[h] /\ spans'[h] = spans[h]
      BY <1>1, <1>7, <2>2, HopFacts
    <3> QED
      BY <2>2, <3>1 DEF HopInv, HopIsTraced
  <2> QED
    BY <1>11, <2>1, <2>2
<1> QED
  BY <1>1, <1>7, <1>8, <1>9, <1>10, <1>12 DEF HopInv, HopIsTraced

LEMMA HopFailed ==
  ASSUME HopInv, NEW h \in DOMAIN hops, T!Failed(h)
  PROVE  HopInv'
<1> DEFINE hop == [hops[h] EXCEPT !.state = "closed"]
           span == [spans[h] EXCEPT !.finished = @ + 1]
<1>1. h \in 1 .. Len(hops) /\ hops[h] \in Hops /\ spans[h] \in Spans
      /\ DOMAIN hops = 1 .. Len(hops) /\ DOMAIN spans = 1 .. Len(hops)
  BY HopFacts
<1>2. hops[h].state = "sent" /\ h = Len(hops) /\ tracer.sp = h
  BY <1>1 DEF T!Failed, T!InFlight, HopInv
<1>3. /\ hops' = [hops EXCEPT ![h] = hop] /\ spans' = [spans EXCEPT ![h] = span]
      /\ UNCHANGED <<opts, header, tracer>>
  BY <1>2 DEF T!Failed, T!Finish
<1>4. /\ hop \in Hops /\ hop.state = "closed"
      /\ hop.before = hops[h].before /\ hop.header = hops[h].header
  BY <1>1 DEF Hops, HopStates
<1>5. span \in Spans /\ span.finished > 0 /\ span.logged = spans[h].logged
  BY <1>1 DEF Spans
<1> HIDE DEF hop, span
<1>6. \A i \in 1 .. Len(hops) : spans'[i].finished > 0 <=> hops'[i].state = "closed"
  BY <1>1, <1>3, <1>4, <1>5, SMTT(40) DEF HopInv, HopIsTraced
<1>7. \A other \in span.logged : other <= h
  BY <1>1, <1>5 DEF HopInv, HopIsTraced
<1> QED
  BY <1>1, <1>3, <1>4, <1>5, <1>6, <1>7, HopChanges

LEMMA HopAnswered ==
  ASSUME HopInv, NEW h \in DOMAIN hops, NEW answer, T!Answered(h, answer)
  PROVE  HopInv'
<1> DEFINE hop == [hops[h] EXCEPT !.state = IF hops[h].head THEN "closed" ELSE "answered",
                                  !.redirects = answer = "redirect"]
           tagged == [spans[h] EXCEPT !.error = @ \/ answer = "serverError"]
           span == IF hops[h].head THEN [tagged EXCEPT !.finished = @ + 1] ELSE tagged
<1>1. h \in 1 .. Len(hops) /\ hops[h] \in Hops /\ spans[h] \in Spans
      /\ DOMAIN hops = 1 .. Len(hops) /\ DOMAIN spans = 1 .. Len(hops)
  BY HopFacts
<1>2. hops[h].state = "sent" /\ h = Len(hops) /\ tracer.sp = h
  BY <1>1 DEF T!Answered, T!InFlight, HopInv
<1>3. hops' = [hops EXCEPT ![h] = hop] /\ UNCHANGED <<opts, header, tracer>>
  BY <1>1 DEF T!Answered, Hops
<1>4. spans' = [spans EXCEPT ![h] = span]
  <2>1. spans' = LET all == [spans EXCEPT ![h].error = @ \/ answer = "serverError"]
                 IN  IF hops[h].head THEN [all EXCEPT ![h].finished = @ + 1] ELSE all
    BY <1>2 DEF T!Answered
  <2>2. [spans EXCEPT ![h].error = @ \/ answer = "serverError"] = [spans EXCEPT ![h] = tagged]
    OBVIOUS
  <2> HIDE DEF tagged
  <2>3. [[spans EXCEPT ![h] = tagged] EXCEPT ![h].finished = @ + 1]
          = [spans EXCEPT ![h] = [tagged EXCEPT !.finished = @ + 1]]
    BY <1>1
  <2> QED
    BY <2>1, <2>2, <2>3
<1>5. /\ hop \in Hops /\ hop.state = IF hops[h].head THEN "closed" ELSE "answered"
      /\ hop.before = hops[h].before /\ hop.header = hops[h].header
  BY <1>1 DEF Hops, HopStates
<1>6. spans[h].finished = 0
  <2>1. ~ (spans[h].finished > 0)
    BY <1>1, <1>2 DEF HopInv, HopIsTraced
  <2>2. spans[h].finished \in Nat
    BY <1>1 DEF Spans
  <2> QED
    BY <2>1, <2>2
<1>7. tagged \in Spans /\ tagged.finished = 0 /\ tagged.logged = spans[h].logged
  <2>1. spans[h].error \in BOOLEAN /\ (spans[h].error \/ answer = "serverError") \in BOOLEAN
    BY <1>1 DEF Spans
  <2> QED
    BY <1>1, <1>6, <2>1 DEF Spans
<1> HIDE DEF hop, tagged
<1>8. span \in Spans /\ span.finished = (IF hops[h].head THEN 1 ELSE 0) /\ span.logged = spans[h].logged
  BY <1>7 DEF Spans
<1> HIDE DEF span
<1>9. \A i \in 1 .. Len(hops) : spans'[i].finished > 0 <=> hops'[i].state = "closed"
  BY <1>1, <1>3, <1>4, <1>5, <1>8, SMTT(40) DEF HopInv, HopIsTraced
<1>10. \A other \in span.logged : other <= h
  BY <1>1, <1>8 DEF HopInv, HopIsTraced
<1>11. hop.state # "sent"
  BY <1>5
<1> QED
  BY <1>1, <1>3, <1>4, <1>5, <1>8, <1>9, <1>10, <1>11, HopChanges

LEMMA HopCloseBody ==
  ASSUME HopInv, NEW h \in DOMAIN hops, T!CloseBody(h)
  PROVE  HopInv'
<1> DEFINE hop == [hops[h] EXCEPT !.state = "closed", !.closed = @ + 1]
           span == [spans[h] EXCEPT !.finished = @ + 1]
<1>1. h \in 1 .. Len(hops) /\ hops[h] \in Hops /\ spans[h] \in Spans
      /\ DOMAIN hops = 1 .. Len(hops) /\ DOMAIN spans = 1 .. Len(hops)
  BY HopFacts
<1>2. /\ hops' = [hops EXCEPT ![h] = hop] /\ spans' = [spans EXCEPT ![h] = span]
      /\ UNCHANGED <<opts, header, tracer>>
  BY <1>1 DEF T!CloseBody, T!Finish
<1>3. /\ hop \in Hops /\ hop.state = "closed"
      /\ hop.before = hops[h].before /\ hop.header = hops[h].header
  <2>1. hops[h].closed + 1 \in Nat /\ "closed" \in HopStates
    BY <1>1 DEF Hops, HopStates
  <2> DEFINE over == [hops[h] EXCEPT !.state = "closed"]
  <2>2. /\ over \in Hops /\ over.state = "closed" /\ over.closed = hops[h].closed
        /\ over.before = hops[h].before /\ over.header = hops[h].header
    BY <1>1, <2>1 DEF Hops
  <2>3. hop = [over EXCEPT !.closed = @ + 1]
    OBVIOUS
  <2> HIDE DEF over, hop
  <2> QED
    BY <2>1, <2>2, <2>3 DEF Hops
<1>4. span \in Spans /\ span.finished > 0 /\ span.logged = spans[h].logged
  BY <1>1 DEF Spans
<1> HIDE DEF hop, span
<1>5. \A i \in 1 .. Len(hops) : spans'[i].finished > 0 <=> hops'[i].state = "closed"
  BY <1>1, <1>2, <1>3, <1>4 DEF HopInv, HopIsTraced
<1>6. \A other \in span.logged : other <= h
  BY <1>1, <1>4 DEF HopInv, HopIsTraced
<1> QED
  BY <1>1, <1>2, <1>3, <1>4, <1>5, <1>6, HopChanges

LEMMA HopEvent ==
  ASSUME HopInv, NEW h \in DOMAIN hops, NEW failed \in BOOLEAN, T!Event(h, failed)
  PROVE  HopInv'
<1> DEFINE n == Len(hops)
           span == [spans[n] EXCEPT !.logged = @ \cup {h}, !.error = @ \/ failed]
<1>1. h \in 1 .. n /\ n \in 1 .. n /\ h <= n /\ n \in Nat /\ hops[n] \in Hops /\ spans[n] \in Spans
      /\ DOMAIN hops = 1 .. n /\ DOMAIN spans = 1 .. n
  BY HopFacts
<1>2. spans' = [spans EXCEPT ![n] = span] /\ UNCHANGED <<opts, header, tracer, hops>>
  BY <1>1 DEF T!Event, HopInv
<1>3. hops' = [hops EXCEPT ![n] = hops[n]]
  <2>1. hops = [i \in 1 .. n |-> hops[i]]
    BY <1>1 DEF HopInv, HopTypeOK
  <2>2. [hops EXCEPT ![n] = hops[n]] = [i \in 1 .. n |-> hops[i]]
    BY <1>1
  <2> QED
    BY <1>2, <2>1, <2>2
<1>4. span \in Spans /\ span.finished = spans[n].finished /\ span.logged = spans[n].logged \cup {h}
  <2>1. (spans[n].error \/ failed) \in BOOLEAN /\ spans[n].logged \cup {h} \in SUBSET Nat
    BY <1>1 DEF Spans
  <2> QED
    BY <1>1, <2>1 DEF Spans
<1> HIDE DEF span
<1>5. \A i \in 1 .. n : spans'[i].finished > 0 <=> hops'[i].state = "closed"
  BY <1>1, <1>2, <1>4, ZenonT(40) DEF HopInv, HopIsTraced
<1>6. \A other \in span.logged : other <= n
  BY <1>1, <1>4 DEF HopInv, HopIsTraced
<1> QED
  BY <1>1, <1>2, <1>3, <1>4, <1>5, <1>6, HopChanges

LEMMA HopStep == HopInv /\ [BenchNext]_BenchVars => HopInv'
<1> SUFFICES ASSUME HopInv, [BenchNext]_BenchVars PROVE HopInv'
  OBVIOUS
<1>1. ASSUME T!FinishRoot PROVE HopInv'
  <2>1. /\ tracer' = [tracer EXCEPT !.root = "finished"]
        /\ UNCHANGED <<opts, header, spans, hops>>
    BY <1>1 DEF T!FinishRoot
  <2>2. tracer' \in [root : {"none", "open", "finished"}, sp : Nat] /\ tracer'.sp = tracer.sp
    BY <2>1 DEF HopInv, HopTypeOK
  <2>3. HopTypeOK'
    BY <2>1, <2>2 DEF HopInv, HopTypeOK
  <2> QED
    BY <2>1, <2>2, <2>3 DEF HopInv, HopIsTraced
<1>2. CASE HopsNext
  BY <1>1, <1>2, HopTraceRequest, HopRoundTrip, HopFailed, HopAnswered, HopCloseBody, HopEvent
     DEF HopsNext, OfHops, TraceOptions
<1>3. CASE UNCHANGED traceVars
  BY <1>3 DEF traceVars, HopInv, HopTypeOK, HopIsTraced
<1> QED
  BY <1>2, <1>3, OneSubject

\* Every hop of a traced request has a span of its own, which ends with the hop
\* and not before, whatever the bodies that are closed late, the redirects and
\* the hooks of hops that are over do to the Tracer they share.
THEOREM HopsTraced == BenchSpec => []SpanPerHop
<1>1. HopInv => SpanPerHop
  <2> SUFFICES ASSUME HopInv PROVE SpanPerHop
    OBVIOUS
  <2>1. DOMAIN hops = 1 .. Len(hops) /\ Len(spans) = Len(hops)
    BY HopFacts
  <2>2. \A h \in DOMAIN hops : HopIsTraced(h)
    BY <2>1 DEF HopInv
  <2> QED
    BY <2>1, <2>2 DEF SpanPerHop, T!SpanPerHop, T!NoSpan, HopIsTraced
<1> QED
  BY <1>1, HopInit, HopStep, PTL DEF BenchSpec

-----------------------------------------------------------------------------
(* Requests to another service (RestClient) *)

HeaderMaps == [Client!HeaderKeys -> Nat]
Auths == [type : {"none", "basic", "bearer"}, value : Nat]
RestClients == [headers : Nat, auth : Auths]
RestRequests ==
  [client : Clients, headers : Nat, auth : Auths, parses : BOOLEAN, err : BOOLEAN,
   private : BOOLEAN, state : {"open", "sending", "panicked"}, bound : Nat, undisturbed : BOOLEAN]
Gifts == [client : Clients, request : Nat]

RestTypeOK ==
  /\ maps \in Seq(HeaderMaps)
  /\ clients \in [Clients -> RestClients]
  /\ requests \in Seq(RestRequests)
  /\ givenTo \in Seq(Gifts)

\* References are to maps, and net/http has the map of the request or none.
References ==
  /\ \A c \in Clients : clients[c].headers <= Len(maps)
  /\ \A r \in 1 .. Len(requests) :
       requests[r].headers <= Len(maps) /\ requests[r].bound \in {0, requests[r].headers}

\* Values were given.
Values ==
  /\ \A m \in 1 .. Len(maps) : \A k \in Client!HeaderKeys : maps[m][k] <= Len(givenTo)
  /\ \A c \in Clients : clients[c].auth.value <= Len(givenTo)
  /\ \A r \in 1 .. Len(requests) : requests[r].auth.value <= Len(givenTo)

\* A request on its way that nobody disturbed still has its credentials in the
\* map net/http will read.
HasCredentials(q) ==
  q.state = "sending" /\ q.undisturbed /\ q.bound # 0 =>
    \/ q.auth.type = "none" \/ q.err
    \/ maps[q.bound]["Authorization"] = q.auth.value

\* The map that a request of a client without headers made for itself is in
\* nobody else's hands, and has only what the request was given.
OwnMap(r) ==
  requests[r].private /\ requests[r].headers # 0 =>
    /\ \A c \in Clients : clients[c].headers # requests[r].headers
    /\ \A s \in 1 .. Len(requests) : s # r => requests[s].headers # requests[r].headers
    /\ \A k \in Client!HeaderKeys :
         LET v == maps[requests[r].headers][k]
         IN  v = 0 \/ givenTo[v].request = r \/ v = requests[r].auth.value

RestState ==
  /\ RestTypeOK /\ References /\ Values
  /\ \A r \in 1 .. Len(requests) : HasCredentials(requests[r]) /\ OwnMap(r)

RestInv == RestState /\ Client!PrivateWithoutDefaults /\ Client!OwnCredentials

LEMMA RestInit == BenchInit => RestInv
<1> SUFFICES ASSUME Client!Init PROVE RestInv
  BY DEF BenchInit
<1>1. /\ maps = <<>> /\ requests = <<>> /\ givenTo = <<>>
      /\ Len(maps) = 0 /\ Len(requests) = 0 /\ Len(givenTo) = 0 /\ wire = Client!NotSent
      /\ clients = [c \in Clients |-> Client!NewRESTClient]
  BY DEF Client!Init
<1>2. Client!NewRESTClient \in RestClients /\ Client!NewRESTClient.headers = 0
      /\ Client!NewRESTClient.auth.value = 0
  BY DEF Client!NewRESTClient, Client!Nil, Client!NoAuth, Client!NoValue, RestClients, Auths
<1>3. clients \in [Clients -> RestClients]
  BY <1>1, <1>2
<1>4. RestTypeOK
  BY <1>1, <1>3, EmptySeq DEF RestTypeOK
<1>5. References /\ Values
  BY <1>1, <1>2 DEF References, Values
<1> QED
  BY <1>1, <1>4, <1>5 DEF RestInv, RestState, Client!PrivateWithoutDefaults, Client!OwnCredentials

\* What the types say of the elements, for the steps below.
LEMMA RestFacts ==
  ASSUME RestTypeOK
  PROVE  /\ Len(maps) \in Nat /\ Len(requests) \in Nat /\ Len(givenTo) \in Nat
         /\ DOMAIN maps = 1 .. Len(maps) /\ DOMAIN requests = 1 .. Len(requests)
         /\ \A m \in 1 .. Len(maps) : maps[m] \in HeaderMaps
         /\ \A c \in Clients : clients[c] \in RestClients
         /\ \A r \in 1 .. Len(requests) : requests[r] \in RestRequests
BY ElementOfSeq, LenProperties DEF RestTypeOK

\* Setting a header changes the map it is set in, and no other.
LEMMA MapsWithIs ==
  ASSUME RestTypeOK, NEW map \in 0 .. Len(maps), NEW key \in Client!HeaderKeys, NEW value \in Nat
  PROVE  LET new == Client!MapsWith(map, key, value)
             t == Client!Target(map)
         IN  /\ new \in Seq(HeaderMaps)
             /\ Len(new) = (IF map = 0 THEN Len(maps) + 1 ELSE Len(maps))
             /\ t = (IF map = 0 THEN Len(maps) + 1 ELSE map)
             /\ \A m \in 1 .. Len(maps) : m # t => new[m] = maps[m]
             /\ new[t][key] = value
             /\ \A k \in Client!HeaderKeys \ {key} :
                  new[t][k] = IF map = 0 THEN 0 ELSE maps[map][k]
<1> DEFINE all == IF map = 0 THEN Append(maps, Client!Empty) ELSE maps
           t == IF map = 0 THEN Len(maps) + 1 ELSE map
           new == [all EXCEPT ![t][key] = value]
<1>1. Client!MapsWith(map, key, value) = new /\ Client!Target(map) = t
  BY DEF Client!MapsWith, Client!Target, Client!Nil
<1>2. Client!Empty \in HeaderMaps /\ \A k \in Client!HeaderKeys : Client!Empty[k] = 0
  BY DEF Client!Empty, Client!NoValue, HeaderMaps
<1>3. /\ Len(maps) \in Nat
      /\ all \in Seq(HeaderMaps)
      /\ Len(all) = (IF map = 0 THEN Len(maps) + 1 ELSE Len(maps))
      /\ \A m \in 1 .. Len(maps) : all[m] = maps[m]
      /\ map = 0 => all[t] = Client!Empty
  BY <1>2, AppendProperties, LenProperties DEF RestTypeOK
<1>4. t \in 1 .. Len(all) /\ (map # 0 => t \in 1 .. Len(maps) /\ all[t] = maps[map])
  BY <1>3
<1> HIDE DEF all, t
<1>5. DOMAIN all = 1 .. Len(all) /\ all[t] \in HeaderMaps /\ Len(all) \in Nat
  BY <1>3, <1>4, ElementOfSeq, LenProperties
<1>6. /\ DOMAIN new = 1 .. Len(all)
      /\ \A m \in 1 .. Len(all) : new[m] = IF m = t THEN [all[t] EXCEPT ![key] = value] ELSE all[m]
  BY <1>5
<1>7. [all[t] EXCEPT ![key] = value] \in HeaderMaps
      /\ [all[t] EXCEPT ![key] = value][key] = value
      /\ \A k \in Client!HeaderKeys \ {key} : [all[t] EXCEPT ![key] = value][k] = all[t][k]
  BY <1>5 DEF HeaderMaps
<1>8. \A m \in 1 .. Len(all) : new[m] \in HeaderMaps
  BY <1>3, <1>6, <1>7, ElementOfSeq
<1>9. new \in [1 .. Len(all) -> HeaderMaps]
  BY <1>6, <1>8
<1>10. new \in Seq(HeaderMaps) /\ Len(new) = Len(all)
  BY <1>5, <1>9, IsSequence
<1>11. \A m \in 1 .. Len(maps) : m # t => new[m] = maps[m]
  BY <1>3, <1>6
<1>12. new[t][key] = value
  BY <1>4, <1>6, <1>7
<1>13. \A k \in Client!HeaderKeys \ {key} : new[t][k] = IF map = 0 THEN 0 ELSE maps[map][k]
  BY <1>2, <1>3, <1>4, <1>6, <1>7
<1> HIDE DEF new
<1>14. t = IF map = 0 THEN Len(maps) + 1 ELSE map
  BY DEF t
<1> QED
  BY <1>1, <1>3, <1>10, <1>11, <1>12, <1>13, <1>14

\* Disturbed changes nothing of the requests but that they are undisturbed.
LEMMA DisturbedIs ==
  ASSUME NEW rs \in Seq(RestRequests), NEW map \in Nat
  PROVE  LET new == Client!Disturbed(rs, map)
         IN  /\ new \in Seq(RestRequests) /\ Len(new) = Len(rs)
             /\ \A i \in 1 .. Len(rs) :
                  new[i] = IF map # 0 /\ rs[i].state = "sending" /\ rs[i].bound = map
                           THEN [rs[i] EXCEPT !.undisturbed = FALSE] ELSE rs[i]
<1> DEFINE new == Client!Disturbed(rs, map)
<1>1. Len(rs) \in Nat /\ DOMAIN rs = 1 .. Len(rs) /\ \A i \in 1 .. Len(rs) : rs[i] \in RestRequests
  BY ElementOfSeq, LenProperties
<1>2. new = [i \in 1 .. Len(rs) |-> IF map # 0 /\ rs[i].state = "sending" /\ rs[i].bound = map
                                    THEN [rs[i] EXCEPT !.undisturbed = FALSE] ELSE rs[i]]
  BY <1>1 DEF Client!Disturbed, Client!Nil
<1>3. \A i \in 1 .. Len(rs) : [rs[i] EXCEPT !.undisturbed = FALSE] \in RestRequests
  BY <1>1 DEF RestRequests
<1> HIDE DEF new
<1>4. new \in [1 .. Len(rs) -> RestRequests]
  BY <1>1, <1>2, <1>3
<1>5. new \in Seq(RestRequests) /\ Len(new) = Len(rs)
  BY <1>1, <1>4, IsSequence
<1> QED
  BY <1>2, <1>5 DEF new

\* A header is set, by request r or (r = 0) by a client: in the map its holder
\* had or in a new one.  The other requests with this map are disturbed.
LEMMA HeaderIsSet ==
  ASSUME RestState, RestTypeOK',
         NEW map \in 0 .. Len(maps), NEW key \in Client!HeaderKeys, NEW value \in Nat,
         NEW r \in 0 .. Len(requests),
         maps' = Client!MapsWith(map, key, value),
         Len(givenTo') >= Len(givenTo), value <= Len(givenTo'),
         \A v \in 1 .. Len(givenTo) : givenTo'[v] = givenTo[v],
         r # 0 => value = 0 \/ givenTo'[value].request = r \/ value = requests[r].auth.value,
         \A c \in Clients : /\ clients'[c].auth.value <= Len(givenTo')
                            /\ \/ clients'[c].headers = clients[c].headers
                               \/ r = 0 /\ clients[c].headers = map /\ clients'[c].headers = Client!Target(map),
         r = 0 => \E c \in Clients : clients[c].headers = map,
         Len(requests') = Len(requests),
         \A i \in 1 .. Len(requests) : i # r =>
           requests'[i] = IF map # 0 /\ requests[i].state = "sending" /\ requests[i].bound = map
                          THEN [requests[i] EXCEPT !.undisturbed = FALSE] ELSE requests[i],
         r # 0 => /\ requests[r].headers = map /\ requests'[r].headers = Client!Target(map)
                  /\ requests'[r].auth = requests[r].auth
                  /\ requests'[r].private = requests[r].private
                  /\ requests'[r].bound \in {0, Client!Target(map)}
                  /\ HasCredentials(requests[r])' 
  PROVE  RestState'
<1> DEFINE t == Client!Target(map)
<1>1. /\ Len(maps) \in Nat /\ Len(requests) \in Nat /\ Len(givenTo) \in Nat /\ Len(givenTo') \in Nat
      /\ \A c \in Clients : clients[c] \in RestClients
      /\ \A m \in 1 .. Len(maps) : maps[m] \in HeaderMaps
      /\ \A i \in 1 .. Len(requests) : requests[i] \in RestRequests
  BY RestFacts, LenProperties DEF RestState, RestTypeOK
<1>2. /\ Len(maps') = (IF map = 0 THEN Len(maps) + 1 ELSE Len(maps))
      /\ t = (IF map = 0 THEN Len(maps) + 1 ELSE map)
      /\ \A m \in 1 .. Len(maps) : m # t => maps'[m] = maps[m]
      /\ maps'[t][key] = value
      /\ \A k \in Client!HeaderKeys \ {key} : maps'[t][k] = IF map = 0 THEN 0 ELSE maps[map][k]
  BY MapsWithIs DEF RestState
<1> HIDE DEF t
<1>3. Len(maps') \in Nat /\ Len(maps) <= Len(maps') /\ t \in 1 .. Len(maps')
      /\ \A m \in 1 .. Len(maps') : m = t \/ m \in 1 .. Len(maps)
  BY <1>1, <1>2
\* What a request keeps.
<1>4. ASSUME NEW i \in 1 .. Len(requests), i # r
      PROVE  /\ requests'[i].headers = requests[i].headers /\ requests'[i].bound = requests[i].bound
             /\ requests'[i].auth = requests[i].auth /\ requests'[i].private = requests[i].private
             /\ requests'[i].err = requests[i].err /\ requests'[i].state = requests[i].state
             /\ requests'[i].undisturbed =>
                  requests[i].undisturbed /\ ~ (map # 0 /\ requests[i].state = "sending" /\ requests[i].bound = map)
  <2>1. requests[i] \in RestRequests
    BY <1>1
  <2>2. CASE map # 0 /\ requests[i].state = "sending" /\ requests[i].bound = map
    <3>1. requests'[i] = [requests[i] EXCEPT !.undisturbed = FALSE]
      BY <1>4, <2>2
    <3> QED
      BY <2>1, <3>1 DEF RestRequests
  <2>3. CASE ~ (map # 0 /\ requests[i].state = "sending" /\ requests[i].bound = map)
    BY <1>4, <2>3
  <2> QED
    BY <2>2, <2>3
<1>5. References'
  <2>1. ASSUME NEW c \in Clients PROVE clients'[c].headers <= Len(maps')
    <3>1. clients[c].headers \in Nat /\ clients[c].headers <= Len(maps)
      BY <1>1 DEF RestState, References, RestClients
    <3>2. clients'[c].headers = clients[c].headers \/ clients'[c].headers = t
      BY DEF t
    <3> QED
      BY <1>1, <1>3, <3>1, <3>2
  <2>2. ASSUME NEW i \in 1 .. Len(requests)
        PROVE  requests'[i].headers <= Len(maps') /\ requests'[i].bound \in {0, requests'[i].headers}
    <3>1. CASE i = r
      <4>1. requests'[i].headers = t /\ requests'[i].bound \in {0, t}
        BY <3>1 DEF t
      <4> QED
        BY <1>3, <4>1
    <3>2. CASE i # r
      <4>1. requests[i].headers \in Nat /\ requests[i].headers <= Len(maps)
            /\ requests[i].bound \in {0, requests[i].headers}
        BY <1>1 DEF RestState, References, RestRequests
      <4> QED
        BY <1>1, <1>3, <1>4, <3>2, <4>1
    <3> QED
      BY <3>1, <3>2
  <2> QED
    BY <2>1, <2>2 DEF References
<1>6. Values'
  <2>1. ASSUME NEW m \in 1 .. Len(maps'), NEW k \in Client!HeaderKeys
        PROVE  maps'[m][k] <= Len(givenTo')
    <3>1. \A n \in 1 .. Len(maps) : maps[n][k] \in Nat /\ maps[n][k] <= Len(givenTo')
      <4>1. \A n \in 1 .. Len(maps) : maps[n][k] \in Nat /\ maps[n][k] <= Len(givenTo)
        BY <1>1 DEF RestState, Values, HeaderMaps
      <4> QED
        BY <1>1, <4>1
    <3>2. CASE m # t
      BY <1>2, <1>3, <3>1, <3>2
    <3>3. CASE m = t /\ k = key
      BY <1>2, <3>3
    <3>4. CASE m = t /\ k # key
      BY <1>1, <1>2, <3>1, <3>4
    <3> QED
      BY <3>2, <3>3, <3>4
  <2>2. ASSUME NEW i \in 1 .. Len(requests) PROVE requests'[i].auth.value <= Len(givenTo')
    <3>1. requests'[i].auth = requests[i].auth
      BY <1>4
    <3>2. requests[i].auth.value \in Nat /\ requests[i].auth.value <= Len(givenTo)
      BY <1>1 DEF RestState, Values, RestRequests, Auths
    <3> QED
      BY <1>1, <3>1, <3>2
  <2> QED
    BY <2>1, <2>2 DEF Values
<1>7. ASSUME NEW i \in 1 .. Len(requests) PROVE HasCredentials(requests[i])'
  <2>1. CASE i = r
    BY <2>1
  <2>2. CASE i # r
    <3> SUFFICES ASSUME requests'[i].state = "sending", requests'[i].undisturbed, requests'[i].bound # 0
                 PROVE  \/ requests'[i].auth.type = "none" \/ requests'[i].err
                        \/ maps'[requests'[i].bound]["Authorization"] = requests'[i].auth.value
      BY DEF HasCredentials
    <3> DEFINE b == requests[i].bound
    <3>1. requests[i].state = "sending" /\ requests[i].undisturbed /\ b # 0 /\ b # map
      BY <1>4, <2>2
    <3>2. b \in 1 .. Len(maps)
      BY <1>1, <3>1 DEF RestState, References, RestRequests
    <3>3. b # t
      BY <1>1, <1>2, <3>1, <3>2
    <3>4. maps'[b] = maps[b]
      BY <1>2, <3>2, <3>3
    <3>5. requests[i].auth.type = "none" \/ requests[i].err \/ maps[b]["Authorization"] = requests[i].auth.value
      BY <3>1 DEF RestState, HasCredentials
    <3> QED
      BY <1>4, <2>2, <3>4, <3>5
  <2> QED
    BY <2>1, <2>2
<1>8. ASSUME NEW i \in 1 .. Len(requests) PROVE OwnMap(i)'
  <2> SUFFICES ASSUME requests'[i].private, requests'[i].headers # 0
               PROVE  /\ \A c \in Clients : clients'[c].headers # requests'[i].headers
                      /\ \A s \in 1 .. Len(requests') : s # i => requests'[s].headers # requests'[i].headers
                      /\ \A k \in Client!HeaderKeys :
                           LET v == maps'[requests'[i].headers][k]
                           IN  v = 0 \/ givenTo'[v].request = i \/ v = requests'[i].auth.value
    BY DEF OwnMap
  <2> DEFINE h == requests'[i].headers
  <2>1. requests[i].private /\ requests'[i].auth = requests[i].auth
    BY <1>4
  <2>2. \A c \in Clients : clients[c].headers \in 0 .. Len(maps)
    BY <1>1 DEF RestState, References, RestClients
  <2>3. \A s \in 1 .. Len(requests) : requests[s].headers \in 0 .. Len(maps)
    BY <1>1 DEF RestState, References, RestRequests
  <2>4. \A s \in 1 .. Len(requests) : s # r => requests'[s].headers = requests[s].headers
    BY <1>4
  <2>5. \A c \in Clients : \/ clients'[c].headers = clients[c].headers
                           \/ r = 0 /\ clients[c].headers = map /\ clients'[c].headers = t
    BY DEF t
  <2>6. ASSUME NEW v \in 0 .. Len(givenTo),
               v = 0 \/ givenTo[v].request = i \/ v = requests[i].auth.value
        PROVE  v = 0 \/ givenTo'[v].request = i \/ v = requests'[i].auth.value
    <3>1. v = 0 \/ v \in 1 .. Len(givenTo)
      BY <1>1
    <3> QED
      BY <2>1, <2>6, <3>1
  <2>7. \A m \in 1 .. Len(maps), k \in Client!HeaderKeys : maps[m][k] \in 0 .. Len(givenTo)
    BY <1>1 DEF RestState, Values, HeaderMaps
  <2>8. OwnMap(i)
    BY DEF RestState
  <2>9. CASE i = r
    <3>1. h = t /\ requests[i].headers = map
      BY <2>9 DEF t
    <3>2. CASE map = 0
      <4>1. \A c \in Clients : clients'[c].headers # h
        BY <1>1, <1>2, <2>2, <2>5, <2>9, <3>1, <3>2
      <4>2. \A s \in 1 .. Len(requests) : s # i => requests'[s].headers # h
        BY <1>1, <1>2, <2>3, <2>4, <2>9, <3>1, <3>2
      <4>3. \A k \in Client!HeaderKeys : IF k = key THEN maps'[h][k] = value ELSE maps'[h][k] = 0
        BY <1>2, <3>1, <3>2
      <4> HIDE DEF h
      <4>4. value = 0 \/ givenTo'[value].request = i \/ value = requests'[i].auth.value
        BY <2>1, <2>9
      <4> QED
        BY <4>1, <4>2, <4>3, <4>4 DEF h
    <3>3. CASE map # 0
      <4>1. h = map /\ requests[i].headers = map
        BY <1>2, <3>1, <3>3
      <4>2. /\ \A c \in Clients : clients[c].headers # map
            /\ \A s \in 1 .. Len(requests) : s # i => requests[s].headers # map
            /\ \A k \in Client!HeaderKeys :
                 LET v == maps[map][k]
                 IN  v = 0 \/ givenTo[v].request = i \/ v = requests[i].auth.value
        BY <2>1, <2>8, <3>3, <4>1 DEF OwnMap
      <4>3. \A c \in Clients : clients'[c].headers # h
        BY <2>5, <2>9, <4>1, <4>2
      <4>4. \A s \in 1 .. Len(requests) : s # i => requests'[s].headers # h
        BY <2>4, <2>9, <4>1, <4>2
      <4>5. maps'[h][key] = value /\ \A k \in Client!HeaderKeys \ {key} : maps'[h][k] = maps[map][k]
        BY <1>2, <3>1, <3>3
      <4>6. value = 0 \/ givenTo'[value].request = i \/ value = requests'[i].auth.value
        BY <2>1, <2>9
      <4>7. \A k \in Client!HeaderKeys : maps[map][k] \in 0 .. Len(givenTo)
        BY <2>7, <3>3
      <4> HIDE DEF h
      <4>8. \A k \in Client!HeaderKeys :
              LET v == maps'[h][k]
              IN  v = 0 \/ givenTo'[v].request = i \/ v = requests'[i].auth.value
        <5> TAKE k \in Client!HeaderKeys
        <5>1. CASE k = key
          BY <4>5, <4>6, <5>1
        <5>2. CASE k # key
          <6>1. maps'[h][k] = maps[map][k]
            BY <4>5, <5>2
          <6> QED
            BY <2>6, <4>2, <4>7, <6>1
        <5> QED
          BY <5>1, <5>2
      <4> QED
        BY <4>3, <4>4, <4>8 DEF h
    <3> QED
      BY <3>2, <3>3
  <2>10. CASE i # r
    <3>1. h = requests[i].headers /\ h # 0 /\ h \in 1 .. Len(maps)
      BY <1>1, <2>3, <2>4, <2>10
    <3> HIDE DEF h
    <3>2. /\ \A c \in Clients : clients[c].headers # h
          /\ \A s \in 1 .. Len(requests) : s # i => requests[s].headers # h
          /\ \A k \in Client!HeaderKeys :
               LET v == maps[h][k]
               IN  v = 0 \/ givenTo[v].request = i \/ v = requests[i].auth.value
      BY <2>1, <2>8, <3>1 DEF OwnMap
    <3>3. map # h
      <4>1. CASE r = 0
        BY <3>2, <4>1
      <4>2. CASE r # 0
        <5>1. r \in 1 .. Len(requests)
          BY <1>1, <4>2
        <5> QED
          BY <2>10, <3>2, <4>2, <5>1
      <4> QED
        BY <4>1, <4>2
    <3>4. t # h
      BY <1>1, <1>2, <3>1, <3>3
    <3>5. maps'[h] = maps[h]
      BY <1>2, <3>1, <3>4
    <3>6. \A c \in Clients : clients'[c].headers # h
      BY <2>5, <3>2, <3>4
    <3>7. \A s \in 1 .. Len(requests) : s # i => requests'[s].headers # h
      <4>1. r # 0 => requests'[r].headers = t
        BY DEF t
      <4> QED
        BY <1>1, <2>4, <3>2, <3>4, <4>1
    <3>8. \A k \in Client!HeaderKeys :
            LET v == maps'[h][k]
            IN  v = 0 \/ givenTo'[v].request = i \/ v = requests'[i].auth.value
      <4> TAKE k \in Client!HeaderKeys
      <4>1. maps'[h][k] = maps[h][k] /\ maps[h][k] \in 0 .. Len(givenTo)
        BY <2>7, <3>1, <3>5
      <4>2. \/ maps[h][k] = 0
            \/ givenTo[maps[h][k]].request = i
            \/ maps[h][k] = requests[i].auth.value
        BY <3>2
      <4> QED
        BY <2>6, <4>1, <4>2
    <3> QED
      BY <3>6, <3>7, <3>8 DEF h
  <2> QED
    BY <2>9, <2>10
<1> QED
  BY <1>5, <1>6, <1>7, <1>8 DEF RestState

\* A step that sends nothing leaves nothing to be said of what was sent.
LEMMA NothingWasSent ==
  wire' = Client!NotSent => Client!PrivateWithoutDefaults' /\ Client!OwnCredentials'
BY DEF Client!PrivateWithoutDefaults, Client!OwnCredentials

\* Given numbers the value after those that were given.
LEMMA GivenIs ==
  ASSUME RestTypeOK, NEW c \in Clients, NEW r \in 0 .. Len(requests), Client!Given(c, r)
  PROVE  /\ givenTo' \in Seq(Gifts) /\ Len(givenTo') = Len(givenTo) + 1
         /\ Client!Fresh = Len(givenTo) + 1 /\ givenTo'[Client!Fresh].request = r
         /\ \A v \in 1 .. Len(givenTo) : givenTo'[v] = givenTo[v]
<1> DEFINE gift == [client |-> c, request |-> r]
<1>1. givenTo' = Append(givenTo, gift)
  BY DEF Client!Given
<1>2. gift \in Gifts /\ gift.request = r
  BY LenProperties DEF Gifts, RestTypeOK
<1> HIDE DEF gift
<1> QED
  BY <1>1, <1>2, AppendProperties DEF RestTypeOK, Client!Fresh

LEMMA RestSetHeader ==
  ASSUME RestInv, NEW c \in Clients, NEW key \in Client!HeaderKeys, Client!SetHeader(c, key)
  PROVE  RestInv'
<1> DEFINE map == clients[c].headers
           value == Client!Fresh
           t == Client!Target(map)
<1>1. /\ Client!Given(c, 0)
      /\ maps' = Client!MapsWith(map, key, value)
      /\ clients' = [clients EXCEPT ![c].headers = t]
      /\ requests' = Client!Disturbed(requests, map)
      /\ wire' = Client!NotSent
  BY DEF Client!SetHeader, Client!NothingSent
<1>2. RestState /\ RestTypeOK
  BY DEF RestInv, RestState
<1>3. /\ Len(maps) \in Nat /\ Len(requests) \in Nat /\ Len(givenTo) \in Nat
      /\ \A d \in Clients : clients[d] \in RestClients
  BY <1>2, RestFacts
<1>4. map \in 0 .. Len(maps)
  BY <1>2, <1>3 DEF RestState, References, RestClients
<1>5. /\ givenTo' \in Seq(Gifts) /\ Len(givenTo') = Len(givenTo) + 1 /\ value = Len(givenTo) + 1
      /\ \A v \in 1 .. Len(givenTo) : givenTo'[v] = givenTo[v]
  BY <1>1, <1>2, <1>3, GivenIs
<1> HIDE DEF value, map
<1>6. maps' \in Seq(HeaderMaps) /\ t \in Nat
  BY <1>1, <1>2, <1>3, <1>4, <1>5, MapsWithIs
<1>7. /\ requests' \in Seq(RestRequests) /\ Len(requests') = Len(requests)
      /\ \A i \in 1 .. Len(requests) :
           requests'[i] = IF map # 0 /\ requests[i].state = "sending" /\ requests[i].bound = map
                          THEN [requests[i] EXCEPT !.undisturbed = FALSE] ELSE requests[i]
  BY <1>1, <1>2, <1>4, DisturbedIs, SMTT(40) DEF RestTypeOK
<1>8. \A d \in Clients : clients'[d] = IF d = c THEN [clients[c] EXCEPT !.headers = t] ELSE clients[d]
  BY <1>1, <1>2 DEF RestTypeOK
<1> HIDE DEF t
<1>9. clients' \in [Clients -> RestClients]
  BY <1>1, <1>2, <1>3, <1>6 DEF RestTypeOK, RestClients
<1>10. RestTypeOK'
  BY <1>5, <1>6, <1>7, <1>9 DEF RestTypeOK
<1>11. ASSUME NEW d \in Clients
       PROVE  /\ clients'[d].auth.value <= Len(givenTo')
              /\ \/ clients'[d].headers = clients[d].headers
                 \/ clients[d].headers = map /\ clients'[d].headers = t
  <2>1. clients[d].auth.value \in Nat /\ clients[d].auth.value <= Len(givenTo)
    BY <1>2, <1>3 DEF RestState, Values, RestClients, Auths
  <2>2. clients'[d].auth = clients[d].auth
    BY <1>3, <1>8 DEF RestClients
  <2>3. \/ clients'[d].headers = clients[d].headers
        \/ clients[d].headers = map /\ clients'[d].headers = t
    BY <1>3, <1>8 DEF RestClients, map
  <2> QED
    BY <1>3, <1>5, <2>1, <2>2, <2>3
<1>12. value \in Nat /\ value <= Len(givenTo') /\ Len(givenTo') >= Len(givenTo)
  BY <1>3, <1>5
<1>13. \E d \in Clients : clients[d].headers = map
  BY DEF map
<1>14. 0 \in 0 .. Len(requests) /\ \A i \in 1 .. Len(requests) : i # 0
  BY <1>3
<1>15. RestState'
  <2> USE DEF t
  <2> QED
    BY <1>1, <1>2, <1>4, <1>5, <1>7, <1>10, <1>11, <1>12, <1>13, <1>14, HeaderIsSet, ZenonT(40)
<1> QED
  BY <1>1, <1>15, NothingWasSent DEF RestInv

LEMMA RestHeader ==
  ASSUME RestInv, NEW r \in Client!Requests, NEW key \in Client!HeaderKeys, Client!Header(r, key)
  PROVE  RestInv'
<1> DEFINE map == requests[r].headers
           value == Client!Fresh
           t == Client!Target(map)
           q == [requests[r] EXCEPT !.headers = t]
           set == [requests EXCEPT ![r] = q]
<1>1. /\ requests[r].state = "open"
      /\ Client!Given(requests[r].client, r)
      /\ maps' = Client!MapsWith(map, key, value)
      /\ requests' = Client!Disturbed(set, map)
      /\ clients' = clients /\ wire' = Client!NotSent
  BY DEF Client!Header, Client!NothingSent
<1>2. RestState /\ RestTypeOK /\ r \in 1 .. Len(requests)
  BY DEF RestInv, RestState, Client!Requests
<1>3. /\ Len(maps) \in Nat /\ Len(requests) \in Nat /\ Len(givenTo) \in Nat
      /\ DOMAIN requests = 1 .. Len(requests)
      /\ \A d \in Clients : clients[d] \in RestClients
      /\ \A i \in 1 .. Len(requests) : requests[i] \in RestRequests
  BY <1>2, RestFacts
<1>4. map \in 0 .. Len(maps) /\ requests[r].bound \in {0, map}
  BY <1>2, <1>3 DEF RestState, References, RestRequests
<1>5. /\ givenTo' \in Seq(Gifts) /\ Len(givenTo') = Len(givenTo) + 1 /\ value = Len(givenTo) + 1
      /\ givenTo'[value].request = r
      /\ \A v \in 1 .. Len(givenTo) : givenTo'[v] = givenTo[v]
  <2>1. requests[r].client \in Clients /\ r \in 0 .. Len(requests)
    BY <1>2, <1>3 DEF RestRequests
  <2> QED
    BY <1>1, <1>2, <2>1, GivenIs
<1> HIDE DEF value, map
<1>6. maps' \in Seq(HeaderMaps) /\ t \in Nat /\ (map # 0 => t = map)
  BY <1>1, <1>2, <1>3, <1>4, <1>5, MapsWithIs
<1> HIDE DEF t
<1>7. /\ q \in RestRequests /\ q.headers = t /\ q.state = "open"
      /\ q.auth = requests[r].auth /\ q.private = requests[r].private /\ q.bound = requests[r].bound
  BY <1>1, <1>2, <1>3, <1>6 DEF RestRequests
<1> HIDE DEF q
<1>8. /\ set \in Seq(RestRequests) /\ Len(set) = Len(requests) /\ set[r] = q
      /\ \A i \in 1 .. Len(requests) : i # r => set[i] = requests[i]
  <2>1. set \in [1 .. Len(requests) -> RestRequests]
    BY <1>2, <1>3, <1>7
  <2>2. set \in Seq(RestRequests) /\ Len(set) = Len(requests)
    BY <1>3, <2>1, IsSequence
  <2> QED
    BY <1>2, <1>3, <2>2
<1> HIDE DEF set
<1>9. /\ requests' \in Seq(RestRequests) /\ Len(requests') = Len(requests)
      /\ \A i \in 1 .. Len(requests) :
           requests'[i] = IF map # 0 /\ set[i].state = "sending" /\ set[i].bound = map
                          THEN [set[i] EXCEPT !.undisturbed = FALSE] ELSE set[i]
  <2>1. map \in Nat
    BY <1>3, <1>4
  <2> DEFINE new == Client!Disturbed(set, map)
  <2>2. /\ new \in Seq(RestRequests) /\ Len(new) = Len(set)
        /\ \A i \in 1 .. Len(set) :
             new[i] = IF map # 0 /\ set[i].state = "sending" /\ set[i].bound = map
                      THEN [set[i] EXCEPT !.undisturbed = FALSE] ELSE set[i]
    BY <1>8, <2>1, DisturbedIs
  <2>3. requests' = new
    BY <1>1
  <2> HIDE DEF new
  <2> QED
    BY <1>8, <2>2, <2>3
<1>10. requests'[r] = q
  BY <1>2, <1>7, <1>8, <1>9
<1>11. \A i \in 1 .. Len(requests) : i # r =>
         requests'[i] = IF map # 0 /\ requests[i].state = "sending" /\ requests[i].bound = map
                        THEN [requests[i] EXCEPT !.undisturbed = FALSE] ELSE requests[i]
  BY <1>8, <1>9
<1>12. RestTypeOK'
  BY <1>1, <1>2, <1>5, <1>6, <1>9 DEF RestTypeOK
<1>13. \A d \in Clients : clients'[d].auth.value <= Len(givenTo') /\ clients'[d].headers = clients[d].headers
  <2> SUFFICES ASSUME NEW d \in Clients PROVE clients[d].auth.value <= Len(givenTo')
    BY <1>1
  <2>1. clients[d].auth.value \in Nat /\ clients[d].auth.value <= Len(givenTo)
    BY <1>2, <1>3 DEF RestState, Values, RestClients, Auths
  <2> QED
    BY <1>3, <1>5, <2>1
<1>14. value \in Nat /\ value <= Len(givenTo') /\ Len(givenTo') >= Len(givenTo)
  BY <1>3, <1>5
<1>15. HasCredentials(requests[r])'
  BY <1>7, <1>10 DEF HasCredentials
<1>16. /\ r # 0 /\ r \in 0 .. Len(requests) /\ requests[r].headers = map /\ requests'[r].headers = t
       /\ requests'[r].bound \in {0, t}
       /\ requests'[r].auth = requests[r].auth /\ requests'[r].private = requests[r].private
  BY <1>2, <1>4, <1>6, <1>7, <1>10 DEF map
<1>17. RestState'
  <2> USE DEF t
  <2>1. \A d \in Clients : /\ clients'[d].auth.value <= Len(givenTo')
                           /\ \/ clients'[d].headers = clients[d].headers
                              \/ r = 0 /\ clients[d].headers = map /\ clients'[d].headers = t
    BY <1>13
  <2>2. r # 0 => value = 0 \/ givenTo'[value].request = r \/ value = requests[r].auth.value
    BY <1>5
  <2>3. r = 0 => \E d \in Clients : clients[d].headers = map
    BY <1>16
  <2>4. maps' = Client!MapsWith(map, key, value)
    BY <1>1
  <2>5. RestState
    BY <1>2
  <2>6. Len(requests') = Len(requests)
    BY <1>9
  <2>7. \A v \in 1 .. Len(givenTo) : givenTo'[v] = givenTo[v]
    BY <1>5
  <2> QED
    BY <1>4, <1>11, <1>12, <1>14, <1>15, <1>16, <2>1, <2>2, <2>3, <2>4, <2>5, <2>6, <2>7, HeaderIsSet
<1> QED
  BY <1>1, <1>17, NothingWasSent DEF RestInv

\* A step that sets no header leaves the maps to those who had them.
LEMMA HeadersStay ==
  ASSUME RestState, RestTypeOK', maps' = maps,
         Len(givenTo') >= Len(givenTo),
         \A v \in 1 .. Len(givenTo) : givenTo'[v] = givenTo[v],
         \A c \in Clients : /\ clients'[c].headers = clients[c].headers
                            /\ clients'[c].auth.value <= Len(givenTo'),
         Len(requests') = Len(requests),
         \A i \in 1 .. Len(requests) :
           /\ requests'[i].headers = requests[i].headers /\ requests'[i].auth = requests[i].auth
           /\ requests'[i].private = requests[i].private
           /\ requests'[i].bound \in {0, requests[i].headers}
           /\ HasCredentials(requests[i])'
  PROVE  RestState'
<1>1. /\ Len(maps) \in Nat /\ Len(requests) \in Nat /\ Len(givenTo) \in Nat /\ Len(givenTo') \in Nat
      /\ \A m \in 1 .. Len(maps) : maps[m] \in HeaderMaps
      /\ \A i \in 1 .. Len(requests) : requests[i] \in RestRequests
  BY RestFacts, LenProperties DEF RestState, RestTypeOK
<1>2. References'
  BY DEF References, RestState
<1>3. Values'
  <2>1. ASSUME NEW m \in 1 .. Len(maps), NEW k \in Client!HeaderKeys PROVE maps[m][k] <= Len(givenTo')
    <3>1. maps[m][k] \in Nat /\ maps[m][k] <= Len(givenTo)
      BY <1>1 DEF RestState, Values, HeaderMaps
    <3> QED
      BY <1>1, <3>1
  <2>2. ASSUME NEW i \in 1 .. Len(requests) PROVE requests'[i].auth.value <= Len(givenTo')
    <3>1. requests[i].auth.value \in Nat /\ requests[i].auth.value <= Len(givenTo)
      BY <1>1 DEF RestState, Values, RestRequests, Auths
    <3> QED
      BY <1>1, <3>1
  <2> QED
    BY <2>1, <2>2 DEF Values
<1>4. ASSUME NEW i \in 1 .. Len(requests) PROVE OwnMap(i)'
  <2> SUFFICES ASSUME requests[i].private, requests[i].headers # 0
               PROVE  \A k \in Client!HeaderKeys :
                        LET v == maps[requests[i].headers][k]
                        IN  v = 0 \/ givenTo'[v].request = i \/ v = requests[i].auth.value
    BY DEF OwnMap, RestState
  <2>1. requests[i].headers \in 1 .. Len(maps)
    BY <1>1 DEF RestState, References, RestRequests
  <2>2. \A k \in Client!HeaderKeys : maps[requests[i].headers][k] \in 0 .. Len(givenTo)
    BY <1>1, <2>1 DEF RestState, Values, HeaderMaps
  <2>3. \A k \in Client!HeaderKeys :
          LET v == maps[requests[i].headers][k]
          IN  v = 0 \/ givenTo[v].request = i \/ v = requests[i].auth.value
    BY DEF RestState, OwnMap
  <2>4. \A v \in 0 .. Len(givenTo) : v = 0 \/ givenTo'[v] = givenTo[v]
    BY <1>1
  <2> QED
    BY <2>2, <2>3, <2>4
<1> QED
  BY <1>2, <1>3, <1>4 DEF RestState

\* A step that changes nothing but one request, and that not in its headers,
\* its credentials and where it comes from.
LEMMA OneRequest ==
  ASSUME RestState, NEW r \in 1 .. Len(requests), NEW q \in RestRequests,
         requests' = [requests EXCEPT ![r] = q], UNCHANGED <<maps, clients, givenTo>>,
         q.headers = requests[r].headers, q.auth = requests[r].auth,
         q.private = requests[r].private, q.bound \in {0, q.headers},
         q.state = "sending" => q.auth.type = "none" \/ q.err
  PROVE  /\ RestState' /\ Len(requests') = Len(requests) /\ requests'[r] = q
<1>1. /\ Len(requests) \in Nat /\ DOMAIN requests = 1 .. Len(requests)
      /\ \A i \in 1 .. Len(requests) : requests[i] \in RestRequests
  BY RestFacts DEF RestState
<1>2. \A i \in 1 .. Len(requests) : requests'[i] = IF i = r THEN q ELSE requests[i]
  BY <1>1
<1>3. requests' \in [1 .. Len(requests) -> RestRequests]
  BY <1>1, <1>2
<1>4. requests' \in Seq(RestRequests) /\ Len(requests') = Len(requests)
  BY <1>1, <1>3, IsSequence
<1>5. RestTypeOK'
  BY <1>4 DEF RestState, RestTypeOK
<1>6. ASSUME NEW i \in 1 .. Len(requests)
      PROVE  /\ requests'[i].headers = requests[i].headers /\ requests'[i].auth = requests[i].auth
             /\ requests'[i].private = requests[i].private
             /\ requests'[i].bound \in {0, requests[i].headers}
             /\ HasCredentials(requests[i])'
  <2>1. CASE i = r
    BY <1>2, <2>1 DEF HasCredentials
  <2>2. CASE i # r
    <3>1. requests'[i] = requests[i]
      BY <1>2, <2>2
    <3> QED
      BY <3>1 DEF RestState, References, HasCredentials
  <2> QED
    BY <2>1, <2>2
<1>7. Len(givenTo) \in Nat /\ \A c \in Clients : clients[c].auth.value <= Len(givenTo)
  BY RestFacts DEF RestState, Values
<1>8. RestState'
  BY <1>4, <1>5, <1>6, <1>7, HeadersStay
<1> QED
  BY <1>2, <1>4, <1>8

LEMMA RestSetAuth ==
  ASSUME RestInv, NEW c \in Clients, NEW type \in {"basic", "bearer"}, Client!SetAuth(c, type)
  PROVE  RestInv'
<1> DEFINE auth == [type |-> type, value |-> Client!Fresh]
<1>1. /\ Client!Given(c, 0) /\ clients' = [clients EXCEPT ![c].auth = auth]
      /\ UNCHANGED <<maps, requests>> /\ wire' = Client!NotSent
  BY DEF Client!SetAuth, Client!NothingSent
<1>2. RestState /\ RestTypeOK
  BY DEF RestInv, RestState
<1>3. /\ Len(requests) \in Nat /\ Len(givenTo) \in Nat
      /\ \A d \in Clients : clients[d] \in RestClients
  BY <1>2, RestFacts
<1>4. /\ givenTo' \in Seq(Gifts) /\ Len(givenTo') = Len(givenTo) + 1 /\ Client!Fresh = Len(givenTo) + 1
      /\ \A v \in 1 .. Len(givenTo) : givenTo'[v] = givenTo[v]
  BY <1>1, <1>2, <1>3, GivenIs
<1>5. auth \in Auths /\ auth.value = Len(givenTo) + 1
  BY <1>3, <1>4 DEF Auths
<1> HIDE DEF auth
<1>6. \A d \in Clients : clients'[d] = IF d = c THEN [clients[c] EXCEPT !.auth = auth] ELSE clients[d]
  BY <1>1, <1>2 DEF RestTypeOK
<1>7. clients' \in [Clients -> RestClients]
  BY <1>1, <1>2, <1>3, <1>5 DEF RestTypeOK, RestClients
<1>8. RestTypeOK'
  BY <1>1, <1>2, <1>4, <1>7 DEF RestTypeOK
<1>9. ASSUME NEW d \in Clients
      PROVE  clients'[d].headers = clients[d].headers /\ clients'[d].auth.value <= Len(givenTo')
  <2>1. clients[d].auth.value \in Nat /\ clients[d].auth.value <= Len(givenTo)
    BY <1>2, <1>3 DEF RestState, Values, RestClients, Auths
  <2>2. clients'[d].headers = clients[d].headers
        /\ clients'[d].auth.value = (IF d = c THEN Len(givenTo) + 1 ELSE clients[d].auth.value)
    BY <1>3, <1>5, <1>6 DEF RestClients
  <2> QED
    BY <1>3, <1>4, <2>1, <2>2
<1>10. \A i \in 1 .. Len(requests) :
         requests[i].bound \in {0, requests[i].headers} /\ HasCredentials(requests[i])'
  BY <1>1, <1>2 DEF RestState, References, HasCredentials
<1>11. Len(givenTo') >= Len(givenTo)
  BY <1>3, <1>4
<1>12. RestState'
  BY <1>1, <1>2, <1>4, <1>8, <1>9, <1>10, <1>11, HeadersStay
<1> QED
  BY <1>1, <1>12, NothingWasSent DEF RestInv

LEMMA RestNewRequest ==
  ASSUME RestInv, NEW c \in Clients, NEW parses \in BOOLEAN, Client!NewRequest(c, parses)
  PROVE  RestInv'
<1> DEFINE n == Len(requests) + 1
           q == [client |-> c, headers |-> clients[c].headers, auth |-> clients[c].auth,
                 parses |-> parses, err |-> ~ parses,
                 private |-> clients[c].headers = 0,
                 state |-> "open", bound |-> 0, undisturbed |-> TRUE]
<1>1. /\ requests' = Append(requests, q)
      /\ UNCHANGED <<maps, clients, givenTo>> /\ wire' = Client!NotSent
  BY DEF Client!NewRequest, Client!NothingSent, Client!Nil
<1>2. RestState /\ RestTypeOK
  BY DEF RestInv, RestState
<1>3. /\ Len(maps) \in Nat /\ Len(requests) \in Nat /\ clients[c] \in RestClients
      /\ \A i \in 1 .. Len(requests) : requests[i] \in RestRequests
  BY <1>2, RestFacts
<1>4. /\ q.headers = clients[c].headers /\ q.auth = clients[c].auth /\ q.state = "open"
      /\ (q.private <=> clients[c].headers = 0) /\ q.bound = 0
  OBVIOUS
<1>5. q \in RestRequests
  BY <1>3 DEF RestRequests, RestClients
<1> HIDE DEF q
<1>6. /\ requests' \in Seq(RestRequests) /\ Len(requests') = n /\ requests'[n] = q
      /\ \A i \in 1 .. Len(requests) : requests'[i] = requests[i]
      /\ \A i \in 1 .. n : i = n \/ i \in 1 .. Len(requests)
  BY <1>1, <1>2, <1>3, <1>5, AppendProperties DEF RestTypeOK
<1>7. RestTypeOK'
  BY <1>1, <1>2, <1>6 DEF RestTypeOK
<1>8. References'
  <2>1. clients[c].headers <= Len(maps)
    BY <1>2 DEF RestState, References
  <2>2. ASSUME NEW i \in 1 .. n
        PROVE  requests'[i].headers <= Len(maps) /\ requests'[i].bound \in {0, requests'[i].headers}
    <3>1. CASE i = n
      BY <1>4, <1>6, <2>1, <3>1
    <3>2. CASE i \in 1 .. Len(requests)
      BY <1>2, <1>6, <3>2 DEF RestState, References
    <3> QED
      BY <1>6, <3>1, <3>2
  <2> QED
    BY <1>1, <1>2, <1>6, <2>2 DEF RestState, References
<1>9. Values'
  <2>1. ASSUME NEW i \in 1 .. n PROVE requests'[i].auth.value <= Len(givenTo)
    <3>1. CASE i = n
      BY <1>2, <1>4, <1>6, <3>1 DEF RestState, Values
    <3>2. CASE i \in 1 .. Len(requests)
      BY <1>2, <1>6, <3>2 DEF RestState, Values
    <3> QED
      BY <1>6, <3>1, <3>2
  <2> QED
    BY <1>1, <1>2, <1>6, <2>1 DEF RestState, Values
<1>10. ASSUME NEW i \in 1 .. n PROVE HasCredentials(requests[i])' /\ OwnMap(i)'
  <2>1. CASE i = n
    BY <1>4, <1>6, <2>1 DEF HasCredentials, OwnMap
  <2>2. CASE i \in 1 .. Len(requests)
    <3>1. requests'[i] = requests[i] /\ HasCredentials(requests[i]) /\ OwnMap(i)
      BY <1>2, <1>6, <2>2 DEF RestState
    <3>2. HasCredentials(requests[i])'
      BY <1>1, <3>1 DEF HasCredentials
    <3>3. OwnMap(i)'
      <4> SUFFICES ASSUME requests[i].private, requests[i].headers # 0
                   PROVE  \A s \in 1 .. n : s # i => requests'[s].headers # requests[i].headers
        BY <1>1, <1>6, <3>1 DEF OwnMap
      <4>1. clients[c].headers # requests[i].headers
        BY <3>1 DEF OwnMap
      <4>2. \A s \in 1 .. Len(requests) : s # i => requests[s].headers # requests[i].headers
        BY <3>1 DEF OwnMap
      <4> QED
        BY <1>4, <1>6, <4>1, <4>2
    <3> QED
      BY <3>2, <3>3
  <2> QED
    BY <1>6, <2>1, <2>2
<1>11. RestState'
  BY <1>6, <1>7, <1>8, <1>9, <1>10 DEF RestState
<1> QED
  BY <1>1, <1>11, NothingWasSent DEF RestInv

LEMMA RestBodyFails ==
  ASSUME RestInv, NEW r \in Client!Requests, Client!BodyFails(r)
  PROVE  RestInv'
<1> DEFINE q == [requests[r] EXCEPT !.err = TRUE]
<1>1. /\ requests[r].state = "open" /\ requests' = [requests EXCEPT ![r] = q]
      /\ UNCHANGED <<maps, clients, givenTo>> /\ wire' = Client!NotSent
  BY DEF Client!BodyFails, Client!NothingSent
<1>2. RestState /\ r \in 1 .. Len(requests)
  BY DEF RestInv, Client!Requests
<1>3. requests[r] \in RestRequests /\ requests[r].bound \in {0, requests[r].headers}
  BY <1>2, RestFacts DEF RestState, References
<1>4. /\ q \in RestRequests /\ q.headers = requests[r].headers /\ q.auth = requests[r].auth
      /\ q.private = requests[r].private /\ q.bound = requests[r].bound /\ q.state = "open"
  BY <1>1, <1>3 DEF RestRequests
<1> HIDE DEF q
<1>5. RestState'
  BY <1>1, <1>2, <1>3, <1>4, OneRequest
<1> QED
  BY <1>1, <1>5, NothingWasSent DEF RestInv

\* The request goes off with the map the credentials are set in, unless that
\* is a new one.
LEMMA RestAuthorize ==
  ASSUME RestState, NEW r \in 1 .. Len(requests), requests[r].state = "open",
         Client!Authorize(r, requests[r].headers, requests[r].auth.value),
         UNCHANGED <<clients, givenTo>>
  PROVE  RestState'
<1> DEFINE map == requests[r].headers
           value == requests[r].auth.value
           t == Client!Target(map)
           disturbed == Client!Disturbed(requests, map)
<1>1. /\ maps' = Client!MapsWith(map, "Authorization", value)
      /\ requests' = [disturbed EXCEPT ![r].state = "sending", ![r].headers = t,
                                       ![r].bound = map, ![r].undisturbed = TRUE]
  BY DEF Client!Authorize, Client!AUTHORIZATION_HEADER
<1>2. RestTypeOK /\ "Authorization" \in Client!HeaderKeys
  BY DEF RestState, Client!HeaderKeys, Client!AUTHORIZATION_HEADER
<1>3. /\ Len(maps) \in Nat /\ Len(requests) \in Nat /\ Len(givenTo) \in Nat
      /\ requests[r] \in RestRequests
  BY <1>2, RestFacts
<1>4. map \in 0 .. Len(maps) /\ value \in Nat /\ value <= Len(givenTo)
  BY <1>3 DEF RestState, References, Values, RestRequests, Auths
<1>5. /\ disturbed \in Seq(RestRequests) /\ Len(disturbed) = Len(requests)
      /\ \A i \in 1 .. Len(requests) :
           disturbed[i] = IF map # 0 /\ requests[i].state = "sending" /\ requests[i].bound = map
                          THEN [requests[i] EXCEPT !.undisturbed = FALSE] ELSE requests[i]
  <2>1. map \in Nat
    BY <1>3, <1>4
  <2> QED
    BY <1>2, <2>1, DisturbedIs DEF RestTypeOK
<1>6. disturbed[r] = requests[r] /\ DOMAIN disturbed = 1 .. Len(requests)
  BY <1>5, LenProperties
<1> HIDE DEF map, value
<1>7. /\ maps' \in Seq(HeaderMaps) /\ t \in Nat /\ (map # 0 => t = map)
      /\ maps'[t]["Authorization"] = value
  BY <1>1, <1>2, <1>3, <1>4, MapsWithIs
<1> HIDE DEF t, disturbed
<1> DEFINE q == [requests[r] EXCEPT !.state = "sending", !.headers = t, !.bound = map, !.undisturbed = TRUE]
<1>8. /\ q.state = "sending" /\ q.headers = t /\ q.bound = map
      /\ q.auth = requests[r].auth /\ q.private = requests[r].private /\ q \in RestRequests
  <2>1. map \in Nat
    BY <1>3, <1>4
  <2> QED
    BY <1>3, <1>7, <2>1 DEF RestRequests
<1>9. requests' = [disturbed EXCEPT ![r] = q]
  BY <1>1, <1>6
<1> HIDE DEF q
<1>10. \A i \in 1 .. Len(requests) : requests'[i] = IF i = r THEN q ELSE disturbed[i]
  BY <1>6, <1>9
<1>11. requests' \in Seq(RestRequests) /\ Len(requests') = Len(requests)
  <2>1. \A i \in 1 .. Len(requests) : disturbed[i] \in RestRequests
    BY <1>5, ElementOfSeq
  <2>2. requests' \in [1 .. Len(requests) -> RestRequests]
    BY <1>6, <1>8, <1>9, <2>1
  <2> QED
    BY <1>3, <2>2, IsSequence
<1>12. RestTypeOK'
  BY <1>2, <1>7, <1>11 DEF RestTypeOK
<1>13. HasCredentials(requests[r])'
  BY <1>7, <1>8, <1>10 DEF HasCredentials, value
<1>14. /\ requests[r].headers = map /\ requests'[r].headers = t
       /\ requests'[r].auth = requests[r].auth /\ requests'[r].private = requests[r].private
       /\ requests'[r].bound \in {0, t}
  BY <1>7, <1>8, <1>10 DEF map
<1>15. \A i \in 1 .. Len(requests) : i # r =>
         requests'[i] = IF map # 0 /\ requests[i].state = "sending" /\ requests[i].bound = map
                        THEN [requests[i] EXCEPT !.undisturbed = FALSE] ELSE requests[i]
  BY <1>5, <1>10
<1>16. \A c \in Clients : clients'[c].auth.value <= Len(givenTo') /\ clients'[c].headers = clients[c].headers
  BY DEF RestState, Values
<1>17. value <= Len(givenTo') /\ Len(givenTo') >= Len(givenTo)
       /\ \A v \in 1 .. Len(givenTo) : givenTo'[v] = givenTo[v]
  BY <1>3, <1>4
<1>18. r # 0 /\ r \in 0 .. Len(requests) /\ value = requests[r].auth.value
  BY <1>3 DEF value
<1>19. maps' = Client!MapsWith(map, "Authorization", value)
  BY <1>1
<1> USE DEF t
<1> QED
  BY <1>2, <1>4, <1>11, <1>12, <1>13, <1>14, <1>15, <1>16, <1>17, <1>18, <1>19, HeaderIsSet

LEMMA RestDo ==
  ASSUME RestInv, NEW r \in Client!Requests, Client!Do(r)
  PROVE  RestInv'
<1> DEFINE gone == [requests[r] EXCEPT !.state = "panicked"]
           off == [requests[r] EXCEPT !.state = "sending", !.bound = requests[r].headers,
                                      !.undisturbed = TRUE]
<1>1. /\ requests[r].state = "open" /\ UNCHANGED <<clients, givenTo>> /\ wire' = Client!NotSent
  BY DEF Client!Do, Client!NothingSent
<1>2. RestState /\ r \in 1 .. Len(requests)
  BY DEF RestInv, Client!Requests
<1>3. requests[r] \in RestRequests /\ requests[r].bound \in {0, requests[r].headers}
  BY <1>2, RestFacts DEF RestState, References
<1>4. ASSUME requests' = [requests EXCEPT ![r] = gone], UNCHANGED maps
      PROVE  RestState'
  <2>1. /\ gone \in RestRequests /\ gone.headers = requests[r].headers /\ gone.auth = requests[r].auth
        /\ gone.private = requests[r].private /\ gone.bound = requests[r].bound /\ gone.state = "panicked"
    BY <1>3 DEF RestRequests
  <2> HIDE DEF gone
  <2> QED
    BY <1>1, <1>2, <1>3, <1>4, <2>1, OneRequest
<1>5. ASSUME requests[r].auth.type = "none" \/ (requests[r].auth.type = "bearer" /\ requests[r].err),
             requests' = [requests EXCEPT ![r] = off], UNCHANGED maps
      PROVE  RestState'
  <2>1. /\ off \in RestRequests /\ off.headers = requests[r].headers /\ off.auth = requests[r].auth
        /\ off.private = requests[r].private /\ off.bound = requests[r].headers
        /\ off.err = requests[r].err
    BY <1>3 DEF RestRequests
  <2> HIDE DEF off
  <2> QED
    BY <1>1, <1>2, <1>5, <2>1, OneRequest
<1>6. ASSUME Client!Authorize(r, requests[r].headers, requests[r].auth.value)
      PROVE  RestState'
  BY <1>1, <1>2, <1>6, RestAuthorize
<1>7. RestState'
  <2>1. CASE requests[r].parses
    <3>1. Client!buildAuth(r)
      BY <2>1 DEF Client!Do
    <3>2. \/ /\ requests[r].auth.type = "none" \/ (requests[r].auth.type = "bearer" /\ requests[r].err)
             /\ requests' = [requests EXCEPT ![r].state = "sending", ![r].bound = requests[r].headers,
                                             ![r].undisturbed = TRUE]
             /\ UNCHANGED maps
          \/ Client!Authorize(r, requests[r].headers, requests[r].auth.value)
          \/ requests' = [requests EXCEPT ![r].state = "panicked"] /\ UNCHANGED maps
      BY <3>1 DEF Client!buildAuth
    <3>3. /\ r \in DOMAIN requests
          /\ [requests EXCEPT ![r].state = "sending", ![r].bound = requests[r].headers,
                              ![r].undisturbed = TRUE] = [requests EXCEPT ![r] = off]
          /\ [requests EXCEPT ![r].state = "panicked"] = [requests EXCEPT ![r] = gone]
      BY <1>2, LenProperties DEF RestState, RestTypeOK
    <3> HIDE DEF off, gone
    <3> QED
      BY <1>4, <1>5, <1>6, <3>2, <3>3
  <2>2. CASE ~ requests[r].parses
    BY <1>4, <2>2 DEF Client!Do
  <2> QED
    BY <2>1, <2>2
<1> QED
  BY <1>1, <1>7, NothingWasSent DEF RestInv

LEMMA RestSend ==
  ASSUME RestInv, NEW r \in Client!Requests, Client!Send(r)
  PROVE  RestInv'
<1> DEFINE q == [requests[r] EXCEPT !.state = "open", !.bound = 0, !.undisturbed = TRUE]
           b == requests[r].bound
           written == IF b = 0 THEN Client!Empty ELSE maps[b]
<1>1. /\ requests[r].state = "sending"
      /\ wire' = [request |-> r, headers |-> written, undisturbed |-> requests[r].undisturbed]
      /\ UNCHANGED <<maps, clients, givenTo>>
  BY DEF Client!Send, Client!Content, Client!Nil
<1>2. RestState /\ r \in 1 .. Len(requests)
  BY DEF RestInv, Client!Requests
<1>3. requests[r] \in RestRequests /\ b \in {0, requests[r].headers} /\ r \in DOMAIN requests
  BY <1>2, RestFacts DEF RestState, References
<1>4. requests' = [requests EXCEPT ![r] = q]
  BY <1>3 DEF Client!Send, Client!Nil
<1>5. /\ q \in RestRequests /\ q.headers = requests[r].headers /\ q.auth = requests[r].auth
      /\ q.private = requests[r].private /\ q.bound = 0 /\ q.state = "open"
      /\ q.err = requests[r].err
  BY <1>3 DEF RestRequests
<1> HIDE DEF q
<1>6. RestState' /\ requests'[r] = q
  BY <1>1, <1>2, <1>4, <1>5, OneRequest
<1> HIDE DEF written
<1>7. /\ wire'.request = r /\ wire'.headers = written /\ wire'.undisturbed = requests[r].undisturbed
      /\ Client!Sender' = q
      /\ Client!SentValues' = {written[k] : k \in Client!HeaderKeys} \ {0}
  BY <1>1, <1>6 DEF Client!Sender, Client!SentValues, Client!NoValue
<1>8. b = 0 => Client!SentValues' = {}
  BY <1>7 DEF written, Client!Empty, Client!NoValue
<1>9. Client!OwnCredentials'
  <2> SUFFICES ASSUME requests[r].undisturbed, b # 0
               PROVE  \/ q.auth.type = "none" \/ q.err
                      \/ written["Authorization"] = q.auth.value
    BY <1>7, <1>8 DEF Client!OwnCredentials, Client!AUTHORIZATION_HEADER
  <2>1. HasCredentials(requests[r])
    BY <1>2 DEF RestState
  <2> QED
    BY <1>1, <1>5, <2>1 DEF HasCredentials, written
<1>10. Client!PrivateWithoutDefaults'
  <2> SUFFICES ASSUME q.private, NEW v \in Client!SentValues'
               PROVE  givenTo[v].request = r \/ v = q.auth.value
    BY <1>1, <1>7 DEF Client!PrivateWithoutDefaults
  <2>1. b # 0 /\ b = requests[r].headers
    BY <1>3, <1>8
  <2>2. PICK k \in Client!HeaderKeys : v = maps[b][k] /\ v # 0
    BY <1>7, <2>1 DEF written
  <2>3. OwnMap(r) /\ requests[r].private
    BY <1>2, <1>5 DEF RestState
  <2> QED
    BY <1>5, <2>1, <2>2, <2>3 DEF OwnMap
<1> QED
  BY <1>6, <1>9, <1>10 DEF RestInv

LEMMA RestStep == RestInv /\ [BenchNext]_BenchVars => RestInv'
<1> SUFFICES ASSUME RestInv, [BenchNext]_BenchVars PROVE RestInv'
  OBVIOUS
<1>1. CASE ClientNext
  BY <1>1, RestSetHeader, RestSetAuth, RestNewRequest, RestHeader, RestBodyFails, RestDo, RestSend
     DEF ClientNext, OfClient
<1>2. CASE UNCHANGED restVars
  <2>1. UNCHANGED <<maps, clients, requests, givenTo, wire>>
    BY <1>2 DEF restVars
  <2>2. RestTypeOK' /\ References' /\ Values'
    BY <2>1 DEF RestInv, RestState, RestTypeOK, References, Values
  <2>3. ASSUME NEW r \in 1 .. Len(requests) PROVE HasCredentials(requests[r])' /\ OwnMap(r)'
    BY <2>1 DEF RestInv, RestState, HasCredentials, OwnMap
  <2>4. Client!PrivateWithoutDefaults'
    BY <2>1 DEF RestInv, Client!PrivateWithoutDefaults, Client!Sender, Client!SentValues
  <2>5. Client!OwnCredentials'
    BY <2>1 DEF RestInv, Client!OwnCredentials, Client!Sender, Client!SentValues
  <2> QED
    BY <2>1, <2>2, <2>3, <2>4, <2>5 DEF RestInv, RestState
<1> QED
  BY <1>1, <1>2, OneSubject

\* A request made from a client that had no headers goes out with nothing that
\* was given to others, although a client and its requests otherwise share one
\* map: the map the request made is in no other hands.
THEOREM RequestsPrivate == BenchSpec => []PrivateWithoutDefaults
<1>1. RestInv => PrivateWithoutDefaults
  BY DEF RestInv, PrivateWithoutDefaults
<1> QED
  BY <1>1, RestInit, RestStep, PTL DEF BenchSpec

\* A request that has headers and was not disturbed on its way goes out with
\* its own credentials: none of the requests that set theirs in the same map
\* before is seen.
THEOREM RequestsAuthorized == BenchSpec => []OwnCredentials
<1>1. RestInv => OwnCredentials
  BY DEF RestInv, OwnCredentials
<1> QED
  BY <1>1, RestInit, RestStep, PTL DEF BenchSpec

-----------------------------------------------------------------------------
(* Origins (Cors) *)

AreOptions(o) ==
  /\ o.origins \in Seq(OriginPatterns)
  /\ o.methods \in Seq(Spelling(Methods))
  /\ o.headers \in Seq(HeaderPatterns)

BrowserRequests ==
  [ origin : Spelling(Origins) \cup {None}, method : Spelling(Methods \cup {"OPTIONS"}),
    headers : Seq(Spelling(HeaderNames \cup {""})) ]

\* The middleware is made of the options, and what it answered is what it
\* answers to the request.
CorsInv ==
  \/ /\ options = C!None
     /\ request = C!None /\ preflight = C!None /\ actual = C!None
  \/ /\ options # C!None /\ AreOptions(options)
     /\ cors = C!New(options)
     /\ request # C!None => request \in BrowserRequests
     /\ request = C!None => preflight = C!None /\ actual = C!None
     /\ preflight # C!None => preflight = C!HandlePreflight(request)
     /\ actual # C!None => actual = C!HandleActualRequest(request)

LEMMA SeqOfIsSeq == \A S : \A n \in Nat : SeqOf(S, n) \subseteq Seq(S)
<1> SUFFICES ASSUME NEW S, NEW n \in Nat, NEW m \in 0 .. n PROVE [1 .. m -> S] \subseteq Seq(S)
  BY DEF SeqOf
<1> QED
  OBVIOUS

LEMMA OptionsAre == \A o \in CorsOptions : AreOptions(o) /\ o # C!None
<1> SUFFICES ASSUME NEW o \in CorsOptions PROVE AreOptions(o) /\ o # C!None
  OBVIOUS
<1>1. /\ SeqOf(OriginPatterns, 2) \subseteq Seq(OriginPatterns)
      /\ SeqOf(OriginPatterns, 1) \subseteq Seq(OriginPatterns)
      /\ SeqOf(Spelling(Methods), 2) \subseteq Seq(Spelling(Methods))
      /\ SeqOf(HeaderPatterns, 2) \subseteq Seq(HeaderPatterns)
  BY SeqOfIsSeq
<1>2. /\ DefaultOptions.origins = <<>> /\ DefaultOptions.methods = <<>> /\ DefaultOptions.headers = <<>>
      /\ DOMAIN DefaultOptions = {"origins", "originFunc", "originRequestFunc", "methods", "headers",
                                  "credentials", "passthrough"}
  BY DEF DefaultOptions
<1>3. /\ <<>> \in Seq(OriginPatterns) /\ <<>> \in Seq(Spelling(Methods)) /\ <<>> \in Seq(HeaderPatterns)
  BY EmptySeq
<1>4. \/ \E s \in SeqOf(OriginPatterns, 2) : o = [DefaultOptions EXCEPT !.origins = s]
      \/ \E s \in SeqOf(OriginPatterns, 1) : \E f, c :
           o = [DefaultOptions EXCEPT !.origins = s, !.originFunc = f, !.credentials = c]
      \/ \E s \in SeqOf(OriginPatterns, 1) : \E f, g :
           o = [DefaultOptions EXCEPT !.origins = s, !.originFunc = f, !.originRequestFunc = g,
                                      !.passthrough = TRUE]
      \/ \E s \in SeqOf(Spelling(Methods), 2) : o = [DefaultOptions EXCEPT !.methods = s]
      \/ \E s \in SeqOf(HeaderPatterns, 2), c \in BOOLEAN :
           o = [DefaultOptions EXCEPT !.headers = s, !.credentials = c]
  <2> DEFINE A == {[DefaultOptions EXCEPT !.origins = s] : s \in SeqOf(OriginPatterns, 2)}
             B == {[DefaultOptions EXCEPT !.origins = x[1], !.originFunc = OriginFunc,
                                          !.credentials = x[2]] :
                     x \in SeqOf(OriginPatterns, 1) \X BOOLEAN}
             R == {[DefaultOptions EXCEPT !.origins = x[1], !.originFunc = x[2],
                                          !.originRequestFunc = x[3], !.passthrough = TRUE] :
                     x \in SeqOf(OriginPatterns, 1) \X {None, OriginFunc} \X OriginRequestFuncs}
             M == {[DefaultOptions EXCEPT !.methods = s] : s \in SeqOf(Spelling(Methods), 2)}
             H == {[DefaultOptions EXCEPT !.headers = x[1], !.credentials = x[2]] :
                     x \in SeqOf(HeaderPatterns, 2) \X BOOLEAN}
  <2>1. CorsOptions = A \cup B \cup R \cup M \cup H
    BY Zenon DEF CorsOptions
  <2>2. o \in A => \E s \in SeqOf(OriginPatterns, 2) : o = [DefaultOptions EXCEPT !.origins = s]
    BY Zenon
  <2>3. o \in B => \E s \in SeqOf(OriginPatterns, 1) : \E f, c :
                     o = [DefaultOptions EXCEPT !.origins = s, !.originFunc = f, !.credentials = c]
    <3> SUFFICES ASSUME o \in B
                 PROVE  \E s \in SeqOf(OriginPatterns, 1) : \E f, c :
                          o = [DefaultOptions EXCEPT !.origins = s, !.originFunc = f,
                                                     !.credentials = c]
      OBVIOUS
    <3>1. PICK x \in SeqOf(OriginPatterns, 1) \X BOOLEAN :
            o = [DefaultOptions EXCEPT !.origins = x[1], !.originFunc = OriginFunc,
                                       !.credentials = x[2]]
      BY Zenon
    <3>2. x[1] \in SeqOf(OriginPatterns, 1)
      BY <3>1
    <3> HIDE DEF B
    <3> QED
      BY <3>1, <3>2, Zenon
  <2>4. o \in R => \E s \in SeqOf(OriginPatterns, 1) : \E f, g :
                     o = [DefaultOptions EXCEPT !.origins = s, !.originFunc = f,
                                                !.originRequestFunc = g, !.passthrough = TRUE]
    <3> SUFFICES ASSUME o \in R
                 PROVE  \E s \in SeqOf(OriginPatterns, 1) : \E f, g :
                          o = [DefaultOptions EXCEPT !.origins = s, !.originFunc = f,
                                                     !.originRequestFunc = g, !.passthrough = TRUE]
      OBVIOUS
    <3>1. PICK x \in SeqOf(OriginPatterns, 1) \X {None, OriginFunc} \X OriginRequestFuncs :
            o = [DefaultOptions EXCEPT !.origins = x[1], !.originFunc = x[2],
                                       !.originRequestFunc = x[3], !.passthrough = TRUE]
      BY Zenon
    <3>2. x[1] \in SeqOf(OriginPatterns, 1)
      BY <3>1
    <3> HIDE DEF R
    <3> QED
      BY <3>1, <3>2, Zenon
  <2>5. o \in M => \E s \in SeqOf(Spelling(Methods), 2) : o = [DefaultOptions EXCEPT !.methods = s]
    BY Zenon
  <2>6. o \in H => \E s \in SeqOf(HeaderPatterns, 2), c \in BOOLEAN :
                     o = [DefaultOptions EXCEPT !.headers = s, !.credentials = c]
    OBVIOUS
  <2> HIDE DEF A, B, R, M, H
  <2> QED
    BY <2>1, <2>2, <2>3, <2>4, <2>5, <2>6
<1> HIDE DEF DefaultOptions
<1>5. DOMAIN o = DOMAIN DefaultOptions
  BY <1>4
<1>6. o # C!None
  <2>1. DOMAIN C!None = {"none"}
    BY DEF C!None
  <2> QED
    BY <1>2, <1>5, <2>1
<1>7. AreOptions(o)
  <2>1. /\ o.origins = <<>> \/ o.origins \in SeqOf(OriginPatterns, 2) \cup SeqOf(OriginPatterns, 1)
        /\ o.methods = <<>> \/ o.methods \in SeqOf(Spelling(Methods), 2)
        /\ o.headers = <<>> \/ o.headers \in SeqOf(HeaderPatterns, 2)
    BY <1>2, <1>4
  <2> QED
    BY <1>1, <1>3, <2>1 DEF AreOptions
<1> QED
  BY <1>6, <1>7

LEMMA CorsInit == BenchInit => CorsInv
BY DEF BenchInit, C!Init, CorsInv

LEMMA CorsStep == CorsInv /\ [BenchNext]_BenchVars => CorsInv'
<1> SUFFICES ASSUME CorsInv, [BenchNext]_BenchVars PROVE CorsInv'
  OBVIOUS
<1>1. ASSUME NEW o \in CorsOptions, C!Start(o) PROVE CorsInv'
  <2>1. options' = o /\ cors' = C!New(o) /\ AreOptions(o) /\ o # C!None
        /\ request' = C!None /\ preflight' = C!None /\ actual' = C!None
    BY <1>1, OptionsAre DEF C!Start, CorsInv
  <2>2. options' # C!None /\ AreOptions(options')
    BY <2>1
  <2>3. cors' = C!New(options')
    BY <2>1
  <2> QED
    BY <2>1, <2>2, <2>3 DEF CorsInv, C!New
<1>2. ASSUME NEW origin \in Spelling(Origins) \cup {None},
             NEW method \in Spelling(Methods \cup {"OPTIONS"}),
             NEW headers \in SeqOf(Spelling(HeaderNames \cup {""}), 1),
             C!Ask(origin, method, headers)
      PROVE  CorsInv'
  <2> DEFINE r == [origin |-> origin, method |-> method, headers |-> headers]
  <2>1. /\ options # C!None /\ request = C!None /\ request' = r
        /\ UNCHANGED <<options, cors, preflight, actual>>
    BY <1>2 DEF C!Ask
  <2>2. headers \in Seq(Spelling(HeaderNames \cup {""}))
    BY SeqOfIsSeq
  <2>3. r \in BrowserRequests
    BY <2>2 DEF BrowserRequests
  <2> HIDE DEF r
  <2>4. preflight' = C!None /\ actual' = C!None
    BY <2>1 DEF CorsInv
  <2> QED
    BY <2>1, <2>3, <2>4 DEF CorsInv
<1>3. ASSUME C!Preflight PROVE CorsInv'
  <2>1. /\ request # C!None /\ preflight' = C!HandlePreflight(request)
        /\ UNCHANGED <<options, cors, request, actual>>
    BY <1>3 DEF C!Preflight
  <2>2. C!HandlePreflight(request)' = C!HandlePreflight(request)
        /\ C!HandleActualRequest(request)' = C!HandleActualRequest(request)
    BY <2>1 DEF C!HandlePreflight, C!HandleActualRequest, C!isOriginAllowed, C!IsMethodAllowed,
                C!areHeadersAllowed, C!AllowOrigin
  <2> QED
    BY <2>1, <2>2 DEF CorsInv
<1>4. ASSUME C!Actual PROVE CorsInv'
  <2>1. /\ request # C!None /\ actual' = C!HandleActualRequest(request)
        /\ UNCHANGED <<options, cors, request, preflight>>
    BY <1>4 DEF C!Actual
  <2>2. C!HandlePreflight(request)' = C!HandlePreflight(request)
        /\ C!HandleActualRequest(request)' = C!HandleActualRequest(request)
    BY <2>1 DEF C!HandlePreflight, C!HandleActualRequest, C!isOriginAllowed, C!IsMethodAllowed,
                C!areHeadersAllowed, C!AllowOrigin
  <2> QED
    BY <2>1, <2>2 DEF CorsInv
<1>5. CASE UNCHANGED corsVars
  <2>1. UNCHANGED <<options, cors, request, preflight, actual>>
    BY <1>5 DEF corsVars
  <2>2. C!HandlePreflight(request)' = C!HandlePreflight(request)
        /\ C!HandleActualRequest(request)' = C!HandleActualRequest(request)
    BY <2>1 DEF C!HandlePreflight, C!HandleActualRequest, C!isOriginAllowed, C!IsMethodAllowed,
                C!areHeadersAllowed, C!AllowOrigin
  <2> QED
    BY <2>1, <2>2 DEF CorsInv
<1>6. CASE CorsNext
  BY <1>1, <1>2, <1>3, <1>4, <1>6 DEF CorsNext, OfCors
<1> QED
  BY <1>5, <1>6, OneSubject

-----------------------------------------------------------------------------
(* The decisions are what the options say *)

\* A name as the code normalises it.
Word(name) == C!Spelled(name, TRUE)

\* Normalising leaves of a name what it is.
LEMMA WordIs ==
  /\ \A x : Word(x).name = x
  /\ \A x, y : Word(x) = Word(y) <=> x = y
  /\ \A x : C!Normal(x) = Word(x.name)
<1>1. \A x : Word(x).name = x
  BY DEF Word, C!Spelled
<1>2. \A x, y : Word(x) = Word(y) <=> x = y
  BY DEF Word, C!Spelled
<1>3. \A x : C!Normal(x) = Word(x.name)
  BY DEF Word, C!Normal
<1> QED
  BY <1>1, <1>2, <1>3

LEMMA IsNotNone ==
  /\ \A N : \A x \in Spelling(N) : x # C!None
  /\ \A x : Word(x) # C!None
<1>1. DOMAIN C!None = {"none"}
  BY DEF C!None
<1>2. \A N : \A x \in Spelling(N) : DOMAIN x = {"name", "normal"}
  BY DEF Spelling
<1>3. \A x : DOMAIN Word(x) = {"name", "normal"}
  BY DEF Word, C!Spelled
<1> QED
  BY <1>1, <1>2, <1>3

LEMMA OriginDecision ==
  ASSUME AreOptions(options), cors = C!New(options), NEW kind, NEW N, NEW origin \in Spelling(N)
  PROVE  C!isOriginAllowed(kind, origin) <=> C!OriginPermitted(kind, origin)
<1>1. /\ cors.allowOriginRequestFunc = options.originRequestFunc
      /\ cors.allowOriginFunc = options.originFunc
      /\ cors.allowedOriginsAll = C!AllOrigins(options)
      /\ cors.allowedOrigins = C!OriginsOf(options, "plain")
      /\ cors.allowedWOrigins = C!OriginsOf(options, "wild")
  BY DEF C!New
<1>2. /\ \A i \in DOMAIN options.origins : options.origins[i] \in OriginPatterns
      /\ options.origins # <<>> => DOMAIN options.origins # {}
  <2>1. DOMAIN options.origins = 1 .. Len(options.origins) /\ Len(options.origins) \in Nat
    BY LenProperties DEF AreOptions
  <2>2. options.origins # <<>> => Len(options.origins) # 0
    BY EmptySeq DEF AreOptions
  <2> QED
    BY <2>1, <2>2, ElementOfSeq DEF AreOptions
<1>3. CASE options.originRequestFunc # C!None
  BY <1>1, <1>3 DEF C!isOriginAllowed, C!OriginPermitted
<1>4. CASE options.originRequestFunc = C!None /\ options.originFunc # C!None
  BY <1>1, <1>4 DEF C!isOriginAllowed, C!OriginPermitted
<1>5. CASE options.originRequestFunc = C!None /\ options.originFunc = C!None
  <2>1. C!AllOrigins(options) <=>
          options.origins = <<>> \/ \E i \in DOMAIN options.origins : options.origins[i].kind = "all"
    BY <1>5 DEF C!AllOrigins
  <2>2. C!isOriginAllowed(kind, origin) <=>
          \/ C!AllOrigins(options)
          \/ \E o \in C!OriginsOf(options, "plain") \cup C!OriginsOf(options, "wild") :
               C!Normal(origin) \in o.matches
    BY <1>1, <1>5 DEF C!isOriginAllowed
  <2>3. C!OriginPermitted(kind, origin) <=>
          \/ options.origins = <<>>
          \/ \E i \in DOMAIN options.origins :
               \/ options.origins[i].kind = "all"
               \/ \E x \in options.origins[i].matches : x.name = origin.name
    BY <1>5 DEF C!OriginPermitted, C!ToSet
  <2>4. CASE C!AllOrigins(options)
    BY <2>1, <2>2, <2>3, <2>4
  <2>5. CASE ~ C!AllOrigins(options)
    <3>1. C!isOriginAllowed(kind, origin) <=>
            \E i \in DOMAIN options.origins :
              /\ options.origins[i].kind \in {"plain", "wild"}
              /\ C!Normal(origin) \in {C!Normal(x) : x \in options.origins[i].matches}
      <4> DEFINE normal(o) == [o EXCEPT !.matches = {C!Normal(x) : x \in o.matches}]
      <4>1. \A k : C!OriginsOf(options, k) =
              {normal(o) : o \in {p \in {options.origins[i] : i \in DOMAIN options.origins} : p.kind = k}}
        BY <2>5 DEF C!OriginsOf, C!ToSet
      <4>2. \A o \in OriginPatterns : normal(o).matches = {C!Normal(x) : x \in o.matches}
        BY DEF OriginPatterns
      <4> HIDE DEF normal
      <4>3. \A k : (\E o \in C!OriginsOf(options, k) : C!Normal(origin) \in o.matches) <=>
              \E i \in DOMAIN options.origins :
                options.origins[i].kind = k /\ C!Normal(origin) \in normal(options.origins[i]).matches
        BY <4>1
      <4>4. C!isOriginAllowed(kind, origin) <=>
              \/ \E o \in C!OriginsOf(options, "plain") : C!Normal(origin) \in o.matches
              \/ \E o \in C!OriginsOf(options, "wild") : C!Normal(origin) \in o.matches
        BY <2>2, <2>5
      <4> QED
        BY <1>2, <4>2, <4>3, <4>4
    <3>2. \A o \in OriginPatterns : o.kind # "all" => o.kind \in {"plain", "wild"}
      BY DEF OriginPatterns
    <3>3. \A o \in OriginPatterns :
            C!Normal(origin) \in {C!Normal(x) : x \in o.matches} <=> \E x \in o.matches : x.name = origin.name
      <4>1. \A o \in OriginPatterns : \A x \in o.matches : x \in Spelling({"a", "b"})
        <5> SUFFICES ASSUME NEW o \in OriginPatterns PROVE o.matches \subseteq Spelling({"a", "b"})
          OBVIOUS
        <5>1. o.matches \in {{}} \cup {{x} : x \in Spelling({"a", "b"})}
                             \cup {{[name |-> "a", normal |-> TRUE], [name |-> "b", normal |-> FALSE]}, {}}
          BY DEF OriginPatterns
        <5>2. [name |-> "a", normal |-> TRUE] \in Spelling({"a", "b"})
              /\ [name |-> "b", normal |-> FALSE] \in Spelling({"a", "b"})
          BY DEF Spelling
        <5> QED
          BY <5>1, <5>2
      <4>2. \A x \in Spelling({"a", "b"}) : C!Normal(origin) = C!Normal(x) <=> x.name = origin.name
        BY WordIs
      <4> QED
        BY <4>1, <4>2
    <3> QED
      BY <1>2, <2>1, <2>3, <2>5, <3>1, <3>2, <3>3
  <2> QED
    BY <2>4, <2>5
<1> QED
  BY <1>3, <1>4, <1>5

\* The names of a list, and the list in normal form.
LEMMA ConvertIs ==
  ASSUME NEW N, NEW s \in Seq(Spelling(N))
  PROVE  /\ C!ToSet(C!convert(s)) = {Word(n) : n \in C!Names(s)}
         /\ s # <<>> => C!Names(s) # {}
<1>1. DOMAIN s = 1 .. Len(s) /\ Len(s) \in Nat /\ (s # <<>> => Len(s) # 0)
  BY LenProperties, EmptySeq
<1>2. \A i \in DOMAIN s : s[i] \in Spelling(N)
  BY <1>1, ElementOfSeq
<1>3. \A i \in DOMAIN s : C!Normal(s[i]) = Word(s[i].name)
  BY <1>2, WordIs
<1>4. DOMAIN C!convert(s) = DOMAIN s /\ \A i \in DOMAIN s : C!convert(s)[i] = Word(s[i].name)
  BY <1>3 DEF C!convert
<1>5. C!ToSet(C!convert(s)) = {Word(n) : n \in C!Names(s)}
  BY <1>4 DEF C!ToSet, C!Names
<1>6. ASSUME s # <<>> PROVE C!Names(s) # {}
  <2>1. 1 \in DOMAIN s
    BY <1>1, <1>6
  <2> QED
    BY <2>1 DEF C!Names
<1> QED
  BY <1>5, <1>6

LEMMA MethodDecision ==
  ASSUME AreOptions(options), cors = C!New(options), NEW N, NEW method \in Spelling(N)
  PROVE  C!IsMethodAllowed(method) <=> C!MethodPermitted(method)
<1> DEFINE names == IF options.methods = <<>> THEN C!DefaultMethods ELSE C!Names(options.methods)
<1>1. cors.allowedMethods = C!AllowedMethods(options)
  BY DEF C!New
<1>2. C!AllowedMethods(options) = {Word(n) : n \in names}
  BY ConvertIs DEF AreOptions, C!AllowedMethods, Word
<1>3. names # {}
  BY ConvertIs DEF AreOptions, C!DefaultMethods
<1>4. C!MethodPermitted(method) <=> method.name \in {"OPTIONS"} \cup names
  BY DEF C!MethodPermitted, C!OPTIONS
<1> HIDE DEF names
<1>5. C!Normal(method) \in cors.allowedMethods <=> method.name \in names
  BY <1>1, <1>2, WordIs
<1>6. cors.allowedMethods # {}
  BY <1>1, <1>2, <1>3
<1> QED
  BY <1>4, <1>5, <1>6 DEF C!IsMethodAllowed, C!OPTIONS

LEMMA HeadersDecision ==
  ASSUME AreOptions(options), cors = C!New(options), NEW N, NEW headers \in Seq(Spelling(N))
  PROVE  /\ C!HeadersPermitted(headers) => C!areHeadersAllowed(C!parseHeaderList(headers))
         /\ C!areHeadersAllowed(C!parseHeaderList(headers)) /\ ~ C!HeadersPermitted(headers)
              => options.headers = <<>>
<1> DEFINE names == IF options.headers = <<>> THEN C!DefaultHeaders
                    ELSE {"Origin"} \cup C!Names(options.headers)
           all == C!Star \in C!Names(options.headers)
<1>1. cors.allowedHeadersAll = C!AllHeaders(options) /\ cors.allowedHeaders = C!AllowedHeaders(options)
  BY DEF C!New
<1>2. /\ DOMAIN options.headers = 1 .. Len(options.headers) /\ Len(options.headers) \in Nat
      /\ \A i \in DOMAIN options.headers : options.headers[i] \in HeaderPatterns
  BY LenProperties, ElementOfSeq DEF AreOptions
<1>3. C!AllHeaders(options) <=> all
  <2>1. \A h \in HeaderPatterns : h = Word("*") <=> h.name = "*"
    BY DEF HeaderPatterns, Spelling, Word, C!Spelled
  <2> QED
    BY <1>2, <2>1 DEF C!AllHeaders, C!ToSet, C!Names, C!Star, Word
<1>4. ~ all => C!AllowedHeaders(options) = {Word(n) : n \in names}
  <2> SUFFICES ASSUME ~ all PROVE C!AllowedHeaders(options) = {Word(n) : n \in names}
    OBVIOUS
  <2>1. CASE options.headers = <<>>
    BY <2>1 DEF C!AllowedHeaders, Word
  <2>2. CASE options.headers # <<>>
    <3> DEFINE origin == Word("Origin")
               s == Append(options.headers, origin)
    <3>1. HeaderPatterns \subseteq Spelling({"*", "X-A", "Origin"}) /\ origin \in Spelling({"*", "X-A", "Origin"})
      <4>1. \A h \in HeaderPatterns : h \in Spelling({"*", "X-A", "Origin"})
        <5>1. [name |-> "*", normal |-> TRUE] \in Spelling({"*", "X-A", "Origin"})
          BY DEF Spelling
        <5>2. \A h \in Spelling({"X-A"}) : h \in Spelling({"*", "X-A", "Origin"})
          BY DEF Spelling
        <5> QED
          BY <5>1, <5>2 DEF HeaderPatterns
      <4>2. origin \in Spelling({"*", "X-A", "Origin"})
        BY DEF Spelling, Word, C!Spelled
      <4> QED
        BY <4>1, <4>2
    <3>2. options.headers \in Seq(Spelling({"*", "X-A", "Origin"}))
      BY <3>1 DEF AreOptions
    <3>3. origin.name = "Origin"
      BY WordIs
    <3> HIDE DEF origin
    <3>4. /\ s \in Seq(Spelling({"*", "X-A", "Origin"}))
          /\ DOMAIN s = 1 .. Len(options.headers) + 1
          /\ \A i \in 1 .. Len(options.headers) : s[i] = options.headers[i]
          /\ s[Len(options.headers) + 1] = origin
      BY <3>1, <3>2, AppendProperties, LenProperties
    <3>5. C!Names(s) = {"Origin"} \cup C!Names(options.headers)
      <4>1. \A i : i \in 1 .. Len(options.headers) + 1 <=>
                     i \in 1 .. Len(options.headers) \/ i = Len(options.headers) + 1
        BY <1>2
      <4> HIDE DEF s
      <4> QED
        BY <1>2, <3>3, <3>4, <4>1 DEF C!Names
    <3>6. C!AllowedHeaders(options) = C!ToSet(C!convert(s))
      BY <1>3, <2>2 DEF C!AllowedHeaders, origin, Word
    <3> HIDE DEF s
    <3> QED
      BY <2>2, <3>4, <3>5, <3>6, ConvertIs
  <2> QED
    BY <2>1, <2>2
<1>5. C!parseHeaderList(headers) = {Word(n) : n \in C!Names(headers) \ {""}}
  <2>1. C!parseHeaderList(headers) = {h \in {Word(n) : n \in C!Names(headers)} : h.name # ""}
    BY ConvertIs DEF C!parseHeaderList
  <2>2. \A h : h \in C!parseHeaderList(headers) <=>
               \E n \in C!Names(headers) : h = Word(n) /\ Word(n).name # ""
    BY <2>1
  <2>3. \A n : Word(n).name # "" <=> n # ""
    BY WordIs
  <2>4. \A h : h \in {Word(n) : n \in C!Names(headers) \ {""}} <=>
               \E n \in C!Names(headers) : h = Word(n) /\ n # ""
    OBVIOUS
  <2>5. \A h : h \in C!parseHeaderList(headers) <=> h \in {Word(n) : n \in C!Names(headers) \ {""}}
    BY Zenon, <2>2, <2>3, <2>4
  <2> QED
    BY Zenon, <2>5
<1>6. /\ C!HeadersPermitted(headers) => all \/ C!Names(headers) \subseteq {""} \cup names
      /\ options.headers # <<>> /\ (all \/ C!Names(headers) \subseteq {""} \cup names)
           => C!HeadersPermitted(headers)
  <2>1. CASE options.headers # <<>>
    BY <2>1 DEF C!HeadersPermitted
  <2>2. CASE options.headers = <<>>
    <3>1. C!Names(options.headers) = {}
      BY <2>2 DEF C!Names
    <3> QED
      BY <2>2, <3>1 DEF C!HeadersPermitted, C!DefaultHeaders
  <2> QED
    BY <2>1, <2>2
<1> HIDE DEF names, all
<1>7. C!areHeadersAllowed(C!parseHeaderList(headers)) <=>
        all \/ \A n \in C!Names(headers) \ {""} : C!Normal(Word(n)) \in C!AllowedHeaders(options)
  BY <1>1, <1>3, <1>5 DEF C!areHeadersAllowed
<1>8. ~ all => \A n : C!Normal(Word(n)) \in C!AllowedHeaders(options) <=> n \in names
  BY <1>4, WordIs
<1> QED
  BY <1>6, <1>7, <1>8

\* An answer admits the browser's page exactly if none of the checks refused it.
LEMMA AdmitsIs ==
  ASSUME request \in BrowserRequests, request.origin # C!None
  PROVE  /\ C!Admits(C!HandlePreflight(request)) <=>
              /\ C!isOriginAllowed("OPTIONS", request.origin) /\ C!IsMethodAllowed(request.method)
              /\ C!areHeadersAllowed(C!parseHeaderList(request.headers))
         /\ C!Admits(C!HandleActualRequest(request)) <=>
              C!isOriginAllowed("actual", request.origin) /\ C!IsMethodAllowed(request.method)
<1>1. DOMAIN C!None = {"none"}
  BY DEF C!None
<1>2. \A v : /\ C!NoHeaders(v) # C!None /\ C!NoHeaders(v).origin = C!None
             /\ DOMAIN C!NoHeaders(v) = {"vary", "origin", "methods", "headers", "credentials"}
  <2>1. \A v : /\ C!NoHeaders(v).origin = C!None
               /\ DOMAIN C!NoHeaders(v) = {"vary", "origin", "methods", "headers", "credentials"}
    BY DEF C!NoHeaders
  <2> QED
    BY <1>1, <2>1
<1>3. C!AllowOrigin(request.origin) \in {Word(C!Star), request.origin}
  BY DEF C!AllowOrigin, Word
<1>4. C!None \notin {Word(C!Star), request.origin}
  BY IsNotNone
<1>5. \A v : ~ C!Admits(C!NoHeaders(v))
  BY <1>2, <1>4 DEF C!Admits, Word
<1>6. ASSUME NEW a, a.origin = C!AllowOrigin(request.origin), "origin" \in DOMAIN a
      PROVE  C!Admits(a)
  <2>1. a # C!None
    BY <1>1, <1>6
  <2> QED
    BY <1>3, <1>6, <2>1 DEF C!Admits, Word
<1>7. C!Admits(C!HandlePreflight(request)) <=>
        /\ C!isOriginAllowed("OPTIONS", request.origin) /\ C!IsMethodAllowed(request.method)
        /\ C!areHeadersAllowed(C!parseHeaderList(request.headers))
  <2> DEFINE a == [ vary |-> C!PreflightVary, origin |-> C!AllowOrigin(request.origin),
                    methods |-> C!Normal(request.method),
                    headers |-> C!parseHeaderList(request.headers),
                    credentials |-> cors.allowCredentials ]
  <2>1. C!HandlePreflight(request) =
          IF ~ C!isOriginAllowed("OPTIONS", request.origin) \/ ~ C!IsMethodAllowed(request.method)
             \/ ~ C!areHeadersAllowed(C!parseHeaderList(request.headers))
          THEN C!NoHeaders(C!PreflightVary) ELSE a
    BY DEF C!HandlePreflight, C!OPTIONS
  <2>2. a.origin = C!AllowOrigin(request.origin) /\ "origin" \in DOMAIN a
    OBVIOUS
  <2> HIDE DEF a
  <2> QED
    BY <1>5, <1>6, <2>1, <2>2
<1>8. C!Admits(C!HandleActualRequest(request)) <=>
        C!isOriginAllowed("actual", request.origin) /\ C!IsMethodAllowed(request.method)
  <2> DEFINE a == [ C!NoHeaders({"Origin"}) EXCEPT !.origin = C!AllowOrigin(request.origin),
                                                   !.credentials = cors.allowCredentials ]
  <2>1. C!HandleActualRequest(request) =
          IF ~ C!isOriginAllowed("actual", request.origin) \/ ~ C!IsMethodAllowed(request.method)
          THEN C!NoHeaders({"Origin"}) ELSE a
    BY DEF C!HandleActualRequest
  <2>2. a.origin = C!AllowOrigin(request.origin) /\ "origin" \in DOMAIN a
    BY <1>2
  <2> HIDE DEF a
  <2> QED
    BY <1>5, <1>6, <2>1, <2>2
<1> QED
  BY <1>7, <1>8

\* What the middleware does with a request, and what the options say of it.
LEMMA Decisions ==
  ASSUME CorsInv, request # C!None, request.origin # C!None
  PROVE  /\ preflight # C!None =>
              LET permitted == /\ C!OriginPermitted("OPTIONS", request.origin)
                               /\ C!MethodPermitted(request.method)
              IN  /\ C!HeadersPermitted(request.headers) => (C!Admits(preflight) <=> permitted)
                  /\ ~ C!HeadersPermitted(request.headers) /\ C!Admits(preflight)
                       => options.headers = <<>> /\ permitted
         /\ actual # C!None =>
              (C!Admits(actual) <=>
                 C!OriginPermitted("actual", request.origin) /\ C!MethodPermitted(request.method))
<1>1. /\ AreOptions(options) /\ cors = C!New(options) /\ request \in BrowserRequests
      /\ preflight # C!None => preflight = C!HandlePreflight(request)
      /\ actual # C!None => actual = C!HandleActualRequest(request)
  BY DEF CorsInv
<1>2. /\ request.origin \in Spelling(Origins) /\ request.method \in Spelling(Methods \cup {"OPTIONS"})
      /\ request.headers \in Seq(Spelling(HeaderNames \cup {""}))
  BY <1>1 DEF BrowserRequests, None, C!None
<1>3. /\ C!isOriginAllowed("OPTIONS", request.origin) <=> C!OriginPermitted("OPTIONS", request.origin)
      /\ C!isOriginAllowed("actual", request.origin) <=> C!OriginPermitted("actual", request.origin)
  BY <1>1, <1>2, OriginDecision
<1>4. C!IsMethodAllowed(request.method) <=> C!MethodPermitted(request.method)
  BY <1>1, <1>2, MethodDecision
<1>5. /\ C!HeadersPermitted(request.headers) => C!areHeadersAllowed(C!parseHeaderList(request.headers))
      /\ C!areHeadersAllowed(C!parseHeaderList(request.headers)) /\ ~ C!HeadersPermitted(request.headers)
           => options.headers = <<>>
  BY <1>1, <1>2, HeadersDecision
<1> QED
  BY <1>1, <1>3, <1>4, <1>5, AdmitsIs

\* A browser is admitted exactly where options.go says that the options permit
\* it, for any origins, methods and headers that requests come with, but for
\* headers that an empty list of headers is not to allow.
THEOREM PermittedIsAdmitted == BenchSpec => []AdmitsThePermitted
<1>1. CorsInv => AdmitsThePermitted
  BY Decisions DEF AdmitsThePermitted, C!AdmitsThePermitted, C!OPTIONS
<1> QED
  BY <1>1, CorsInit, CorsStep, PTL DEF BenchSpec

\* The actual request gets what its preflight promised, credentials included,
\* where no function of the request decides.
THEOREM PromisesKept == BenchSpec => []PreflightPromises
<1>1. CorsInv => PreflightPromises
  <2> SUFFICES ASSUME CorsInv, request # C!None, request.origin # C!None,
                      cors.allowOriginRequestFunc = C!None, C!Admits(preflight), actual # C!None
               PROVE  C!Admits(actual) /\ preflight.credentials = actual.credentials
    BY DEF PreflightPromises, C!PreflightPromises
  <2>1. /\ request \in BrowserRequests /\ preflight = C!HandlePreflight(request)
        /\ actual = C!HandleActualRequest(request)
    BY DEF CorsInv, C!Admits
  <2>2. /\ C!isOriginAllowed("OPTIONS", request.origin) /\ C!IsMethodAllowed(request.method)
        /\ C!areHeadersAllowed(C!parseHeaderList(request.headers))
    BY <2>1, AdmitsIs
  <2>3. C!isOriginAllowed("actual", request.origin)
    BY <2>2 DEF C!isOriginAllowed
  <2>4. preflight.credentials = cors.allowCredentials
    BY <2>1, <2>2 DEF C!HandlePreflight, C!OPTIONS
  <2>5. actual.credentials = cors.allowCredentials
    BY <2>1, <2>2, <2>3 DEF C!HandleActualRequest, C!NoHeaders
  <2> QED
    BY <2>1, <2>2, <2>3, <2>4, <2>5, AdmitsIs
<1> QED
  BY <1>1, CorsInit, CorsStep, PTL DEF BenchSpec

=============================================================================
