------------------------------- MODULE MCHttp -------------------------------
(***************************************************************************)
(* The parts that a request passes on its way through a service, each in a *)
(* small instance, side by side: the subject of a behaviour is one of      *)
(* them, and the others rest.                                              *)
(*   server    HttpResponse: the writer, the recovery and the access log   *)
(*   cors      Cors: the middleware, a preflight and an actual request     *)
(*   client    RestClient: requests made to another service                *)
(*   answer    RestResponse: their answers                                 *)
(*   hops      TraceTransport: the hops such a request takes               *)
(*   logger    LoggerCore: the loggers everything on the way writes to     *)
(***************************************************************************)
EXTENDS HttpResponse, SequencesExt, TLC

CONSTANTS
  Clients, MaxRequests, MaxGiven, MaxSends,
  MaxInto,
  Origins, Methods, HeaderNames,
  MaxHops, MaxEvents, MaxClosed,
  LoggerNames, MaxCores, MaxLoggers, MaxSets

VARIABLES
  subject,
  maps, clients, requests, givenTo, wire, sends,
  response, body, into,
  options, cors, request, preflight, actual, served,
  opts, header, tracer, spans, hops, events,
  cores, current, building, loggers, setting, stdlog, entry, sets

\* What callBefore does with one function: after a panic no other is called.
CallHook(hook, x) ==
  IF x.panics \/ hook = "set" THEN x
  ELSE IF hook = "panic" THEN [x EXCEPT !.panics = TRUE]
  ELSE Body(x, 1, 1)

\* The loop of callBefore, from the last function to the first, comes to what
\* HttpResponse makes of all of them at once.
ASSUME CallBeforeIsTheLoop ==
  \A hooks \in SeqOf(Hooks, 4), first \in {0, 200} :
    LET x == [ rw |-> [status |-> 404, size |-> 1, hooks |-> hooks],
               sent |-> [status |-> first, bytes |-> 1], panics |-> FALSE ]
    IN  callBefore(x) = FoldRight(CallHook, hooks, x)

Client == INSTANCE RestClient
Answer == INSTANCE RestResponse

\* Origins as they come, lists of them, and what they stand for.
Spelling(names) == [name : names, normal : BOOLEAN]
None == [none |-> TRUE]

OriginPatterns ==
  [kind : {"all"}, matches : {{}}]
    \cup [kind : {"plain"}, matches : {{x} : x \in Spelling({"a", "b"})}]
    \cup [kind : {"wild"}, matches : {{[name |-> "a", normal |-> TRUE],
                                       [name |-> "b", normal |-> FALSE]}, {}}]

HeaderPatterns == {[name |-> "*", normal |-> TRUE]} \cup Spelling({"X-A"})

\* A function that allows one origin, and two that allow all for a preflight and
\* for an actual request.
OriginFunc == [allows |-> Spelling({"a"})]
OriginRequestFuncs == {[allows |-> {kind} \X Spelling(Origins)] : kind \in {"OPTIONS", "actual"}}

DefaultOptions ==
  [ origins |-> <<>>, originFunc |-> None, originRequestFunc |-> None, methods |-> <<>>,
    headers |-> <<>>, credentials |-> FALSE, passthrough |-> FALSE ]

\* Each option with the others at their defaults, but origins, of which lists
\* and functions come together.
CorsOptions ==
  {[DefaultOptions EXCEPT !.origins = s] : s \in SeqOf(OriginPatterns, 2)}
    \cup {[DefaultOptions EXCEPT !.origins = o[1], !.originFunc = OriginFunc, !.credentials = o[2]] :
            o \in SeqOf(OriginPatterns, 1) \X BOOLEAN}
    \cup {[DefaultOptions EXCEPT !.origins = o[1], !.originFunc = o[2], !.originRequestFunc = o[3],
                                 !.passthrough = TRUE] :
            o \in SeqOf(OriginPatterns, 1) \X {None, OriginFunc} \X OriginRequestFuncs}
    \cup {[DefaultOptions EXCEPT !.methods = s] : s \in SeqOf(Spelling(Methods), 2)}
    \cup {[DefaultOptions EXCEPT !.headers = o[1], !.credentials = o[2]] :
            o \in SeqOf(HeaderPatterns, 2) \X BOOLEAN}

C == INSTANCE Cors WITH OptionsSet <- CorsOptions

T == INSTANCE TraceTransport

\* With and without selectors, "*" and that of the standard library's log.
LoggerConfigs ==
  { [level |-> 1, selectors |-> {<<"a">>}],
    [level |-> 0, selectors |-> {<<"a">>, <<"a", "b">>}],
    [level |-> 0, selectors |-> {<<"*">>, <<"stdlog">>}],
    [level |-> 0, selectors |-> {}] }

Log == INSTANCE LoggerCore WITH Configs <- LoggerConfigs, Names <- LoggerNames

corsVars     == <<options, cors, request, preflight, actual, served>>
restVars     == <<maps, clients, requests, givenTo, wire, sends>>
responseVars == <<response, body, into>>
traceVars    == <<opts, header, tracer, spans, hops, events>>
logVars      == <<cores, current, building, loggers, setting, stdlog, entry, sets>>

BenchVars ==
  <<subject, vars, corsVars, restVars, responseVars, traceVars, logVars>>

BenchInit ==
  /\ subject \in {"server", "cors", "client", "answer", "hops", "logger"}
  /\ Init /\ Client!Init /\ Answer!Init /\ C!Init /\ T!Init /\ Log!Init

\* The steps of each subject.
OfServer(A) ==
  /\ subject = "server" /\ A
  /\ UNCHANGED <<subject, corsVars, restVars, responseVars, traceVars, logVars>>

OfCors(A) ==
  /\ subject = "cors" /\ A
  /\ UNCHANGED <<subject, vars, restVars, responseVars, traceVars, logVars>>

OfClient(A) ==
  /\ subject = "client" /\ A
  /\ UNCHANGED <<subject, vars, corsVars, responseVars, traceVars, logVars>>

OfAnswer(A) ==
  /\ subject = "answer" /\ A
  /\ UNCHANGED <<subject, vars, corsVars, restVars, traceVars, logVars>>

OfHops(A) ==
  /\ subject = "hops" /\ A
  /\ UNCHANGED <<subject, vars, corsVars, restVars, responseVars, logVars>>

OfLogger(A) ==
  /\ subject = "logger" /\ A
  /\ UNCHANGED <<subject, vars, corsVars, restVars, responseVars, traceVars>>

ServerNext ==
  \/ \E s \in Statuses : OfServer(Call(WriteHeader(Writer, s)))
  \/ \E len \in 0 .. MaxSize : \E n \in 0 .. len : OfServer(Call(Write(Writer, n, len)))
  \/ OfServer(Call(Flush(Writer)))
  \/ \E hook \in Hooks : OfServer(Call(Before(Writer, hook)))
  \/ \E s \in {OK, InternalServerError} : OfServer(Call(Send(Writer, s)))
  \/ \E code \in Codes : OfServer(Call(Failed(Writer, code)))
  \/ OfServer(Return)
  \/ OfServer(Panic)
  \/ OfServer(Access)
  \/ OfServer(Recover)

CorsNext ==
  \/ \E o \in CorsOptions : OfCors(C!Start(o))
  \/ \E origin \in Spelling(Origins) \cup {None}, method \in Spelling(Methods \cup {"OPTIONS"}),
        headers \in SeqOf(Spelling(HeaderNames \cup {""}), 1) :
       OfCors(C!Ask(origin, method, headers))
  \/ OfCors(C!Preflight)
  \/ OfCors(C!Actual)

ClientNext ==
  \/ \E c \in Clients, key \in Client!HeaderKeys : OfClient(Client!SetHeader(c, key))
  \/ \E c \in Clients, kind \in {"basic", "bearer"} : OfClient(Client!SetAuth(c, kind))
  \/ \E c \in Clients, parses \in BOOLEAN : OfClient(Client!NewRequest(c, parses))
  \/ \E r \in Client!Requests, key \in Client!HeaderKeys : OfClient(Client!Header(r, key))
  \/ \E r \in Client!Requests : OfClient(Client!BodyFails(r))
  \/ \E r \in Client!Requests : OfClient(Client!Do(r))
  \/ \E r \in Client!Requests : OfClient(Client!Send(r))

AnswerNext ==
  \/ \E answered, is2xx \in BOOLEAN : OfAnswer(Answer!Do(answered, is2xx))
  \/ \E whole, decodes \in BOOLEAN : OfAnswer(Answer!Into(whole, decodes))

HopsNext ==
  \/ \E trace \in [clientTrace : BOOLEAN, inject : BOOLEAN], id \in {T!NoID, T!CallersID} :
       OfHops(T!TraceRequest(trace, id))
  \/ \E redirect, head \in BOOLEAN : OfHops(T!RoundTrip(redirect, head))
  \/ \E h \in DOMAIN hops : OfHops(T!Failed(h))
  \/ \E h \in DOMAIN hops, answer \in {"success", "redirect", "serverError"} :
       OfHops(T!Answered(h, answer))
  \/ \E h \in DOMAIN hops : OfHops(T!CloseBody(h))
  \/ \E h \in DOMAIN hops, failed \in BOOLEAN : OfHops(T!Event(h, failed))
  \/ OfHops(T!FinishRoot)

LoggerNext ==
  \/ \E cfg \in LoggerConfigs : OfLogger(Log!Build(cfg))
  \/ \E c \in building : OfLogger(Log!Store(c))
  \/ \E level \in Log!Levels : OfLogger(Log!SetLevel(level))
  \/ \E s \in setting : OfLogger(Log!SetAtom(s))
  \/ \E name \in LoggerNames : OfLogger(Log!NewLogger(name))
  \/ OfLogger(Log!Instance)
  \/ \E l \in DOMAIN loggers : OfLogger(Log!With(l))
  \/ \E l \in DOMAIN loggers, name \in LoggerNames : OfLogger(Log!Named(l, name))
  \/ \E l \in DOMAIN loggers, level \in Log!Levels : OfLogger(Log!Log(l, level))

BenchNext ==
  \/ ServerNext \/ CorsNext \/ ClientNext \/ AnswerNext \/ HopsNext
  \/ LoggerNext

BenchSpec == BenchInit /\ [][BenchNext]_BenchVars

-----------------------------------------------------------------------------
(* The properties of the instances, as they are stated there *)

\* RestClient: without defaults, a request carries only what it was given.
PrivateWithoutDefaults == Client!PrivateWithoutDefaults

\* RestClient: a request goes out with its own credentials.
OwnCredentials == Client!OwnCredentials

\* RestResponse: Into succeeds on whole bodies only.
IntoIsWhole == Answer!IntoIsWhole

\* Cors: a browser is admitted exactly where the options permit it.
AdmitsThePermitted == C!AdmitsThePermitted

\* Cors: the actual request gets what the preflight promised.
PreflightPromises == C!PreflightPromises

\* TraceTransport: every hop has a span of its own.
SpanPerHop == T!SpanPerHop

\* LoggerCore: a logger writes as the configuration it comes from says.
WritesAsConfigured == Log!WritesAsConfigured
=============================================================================
