-------------------------------- MODULE Cors --------------------------------
(***************************************************************************)
(* http/middleware/cors: what New makes of its Options, and what a browser *)
(* gets for a preflight and for the actual request after it.               *)
(*                                                                         *)
(* A name (an origin, a method, a header) is a record of what it is and of *)
(* whether it is spelled as the code normalises it (origins to lower case, *)
(* methods to upper case, headers to their canonical form).  An origin of  *)
(* the options may hold one '*' and then stands for a set of origins.  A   *)
(* function of the options is a record of what it allows.                  *)
(***************************************************************************)
EXTENDS Naturals, Sequences, SequencesExt

CONSTANTS
  Origins,      \* origins that requests come from
  Methods,      \* methods, apart from OPTIONS
  HeaderNames,  \* names of headers
  OptionsSet    \* the Options looked at

VARIABLES
  options,   \* what New was given
  cors,      \* what New returned
  request,   \* the actual request the browser wants to make
  preflight, \* the headers of the answer to its preflight, or None
  actual,    \* the headers of the answer to the actual request, or None
  served     \* methods of the requests that reached the next handler

corsVars == <<options, cors, request, preflight, actual, served>>

None == [none |-> TRUE]
Star == "*"
OPTIONS == "OPTIONS"
Spelled(name, normal) == [name |-> name, normal |-> normal]

\* ToLower, ToUpper and CanonicalHeaderKey.
Normal(x) == Spelled(x.name, TRUE)
convert(s) == [i \in DOMAIN s |-> Normal(s[i])]

DefaultHeaders == {"Origin", "Accept", "Content-Type", "X-Requested-With"}
DefaultMethods == {"GET", "POST", "HEAD"}

-----------------------------------------------------------------------------
(* New *)

\* Seeded fault: a "*" leaves the origins before it in the list.
AllOrigins_First(opts) ==
  opts.origins # <<>> /\ Head(opts.origins).kind = "all"

\* All origins are allowed if one of the list is "*", or if there is no list
\* and no function.
AllOrigins(opts) ==
  IF opts.origins = <<>>
  THEN opts.originFunc = None /\ opts.originRequestFunc = None
  ELSE \E i \in DOMAIN opts.origins : opts.origins[i].kind = "all"

\* The origins with and without a wildcard, in lower case.
OriginsOf(opts, kind) ==
  IF AllOrigins(opts) THEN {}
  ELSE {[o EXCEPT !.matches = {Normal(x) : x \in o.matches}] :
          o \in {p \in ToSet(opts.origins) : p.kind = kind}}

AllHeaders(opts) == Spelled(Star, TRUE) \in ToSet(opts.headers)

AllowedHeaders(opts) ==
  IF opts.headers = <<>> THEN {Spelled(h, TRUE) : h \in DefaultHeaders}
  ELSE IF AllHeaders(opts) THEN {}
  ELSE ToSet(convert(Append(opts.headers, Spelled("Origin", TRUE))))

AllowedMethods(opts) ==
  IF opts.methods = <<>> THEN {Spelled(x, TRUE) : x \in DefaultMethods}
  ELSE ToSet(convert(opts.methods))

New(opts) ==
  [ allowOriginFunc |-> opts.originFunc, allowOriginRequestFunc |-> opts.originRequestFunc,
    allowedOriginsAll |-> AllOrigins(opts),
    allowedOrigins |-> OriginsOf(opts, "plain"), allowedWOrigins |-> OriginsOf(opts, "wild"),
    allowedHeadersAll |-> AllHeaders(opts), allowedHeaders |-> AllowedHeaders(opts),
    allowedMethods |-> AllowedMethods(opts),
    allowCredentials |-> opts.credentials, optionPassthrough |-> opts.passthrough ]

-----------------------------------------------------------------------------
(* The decisions *)

isOriginAllowed(kind, origin) ==
  IF cors.allowOriginRequestFunc # None THEN <<kind, origin>> \in cors.allowOriginRequestFunc.allows
  ELSE IF cors.allowOriginFunc # None THEN origin \in cors.allowOriginFunc.allows
  ELSE \/ cors.allowedOriginsAll
       \/ \E o \in cors.allowedOrigins \cup cors.allowedWOrigins : Normal(origin) \in o.matches

IsMethodAllowed(method) ==
  /\ cors.allowedMethods # {}
  /\ method.name = OPTIONS \/ Normal(method) \in cors.allowedMethods

\* parseHeaderList: the names of the list in a form of its own, which
\* CanonicalHeaderKey then makes canonical; empty elements are dropped.
parseHeaderList(headers) == {h \in ToSet(convert(headers)) : h.name # ""}

areHeadersAllowed(headers) ==
  \/ cors.allowedHeadersAll
  \/ \A h \in headers : Normal(h) \in cors.allowedHeaders

-----------------------------------------------------------------------------
(* The two handlers: the headers they add to an answer *)

AllowOrigin(origin) == IF cors.allowedOriginsAll THEN Spelled(Star, TRUE) ELSE origin

NoHeaders(vary) == [vary |-> vary, origin |-> None, methods |-> None, headers |-> {},
                    credentials |-> FALSE]

PreflightVary == {"Origin", "Access-Control-Request-Method", "Access-Control-Request-Headers"}

HandlePreflight(r) ==
  LET headers == parseHeaderList(r.headers) IN
  IF r.origin = None \/ ~ isOriginAllowed(OPTIONS, r.origin) \/ ~ IsMethodAllowed(r.method)
     \/ ~ areHeadersAllowed(headers)
  THEN NoHeaders(PreflightVary)
  ELSE [ vary |-> PreflightVary, origin |-> AllowOrigin(r.origin),
         methods |-> Normal(r.method), headers |-> headers,
         credentials |-> cors.allowCredentials ]

\* Seeded fault: credentials are left out where any origin is allowed.
HandleActualRequest_NoneForAll(r) ==
  IF r.origin = None \/ ~ isOriginAllowed("actual", r.origin) \/ ~ IsMethodAllowed(r.method)
  THEN NoHeaders({"Origin"})
  ELSE [ NoHeaders({"Origin"}) EXCEPT !.origin = AllowOrigin(r.origin),
           !.credentials = cors.allowCredentials /\ ~ cors.allowedOriginsAll ]

HandleActualRequest(r) ==
  IF r.origin = None \/ ~ isOriginAllowed("actual", r.origin) \/ ~ IsMethodAllowed(r.method)
  THEN NoHeaders({"Origin"})
  ELSE [ NoHeaders({"Origin"}) EXCEPT !.origin = AllowOrigin(r.origin),
                                     !.credentials = cors.allowCredentials ]

Init ==
  /\ options = None /\ cors = None
  /\ request = None /\ preflight = None /\ actual = None /\ served = <<>>

\* The service starts with these options.
Start(opts) ==
  /\ options = None
  /\ options' = opts
  /\ cors' = New(opts)
  /\ UNCHANGED <<request, preflight, actual, served>>

\* The browser is asked for a request, from a page of some origin or of none.
Ask(origin, method, headers) ==
  /\ options # None /\ request = None
  /\ request' = [origin |-> origin, method |-> method, headers |-> headers]
  /\ UNCHANGED <<options, cors, preflight, actual, served>>

\* Handler for the preflight.
Preflight ==
  /\ request # None /\ preflight = None /\ actual = None
  /\ preflight' = HandlePreflight(request)
  /\ served' = IF cors.optionPassthrough THEN Append(served, OPTIONS) ELSE served
  /\ UNCHANGED <<options, cors, request, actual>>

\* Handler for the actual request, which the browser may send without a
\* preflight.
Actual ==
  /\ request # None /\ actual = None
  /\ actual' = HandleActualRequest(request)
  /\ served' = Append(served, request.method.name)
  /\ UNCHANGED <<options, cors, request, preflight>>

Next ==
  \/ \E opts \in OptionsSet : Start(opts)
  \/ \E origin \in [name : Origins, normal : BOOLEAN] \cup {None},
        method \in [name : Methods \cup {OPTIONS}, normal : BOOLEAN],
        headers \in SeqOf([name : HeaderNames \cup {""}, normal : BOOLEAN], 1) :
       Ask(origin, method, headers)
  \/ Preflight
  \/ Actual

Spec == Init /\ [][Next]_corsVars

-----------------------------------------------------------------------------
(* Properties *)

\* A browser takes an answer for its own if it names its origin or any.
Admits(answer) == answer # None /\ answer.origin \in {Spelled(Star, TRUE), request.origin}

\* What options.go:10-32 says of the options: a function overrides the list,
\* the list allows what one of its members stands for whatever their order and
\* spelling, an empty list of origins allows all and one of methods the simple
\* ones, and Origin is always appended to the headers.
OriginPermitted(kind, origin) ==
  IF options.originRequestFunc # None THEN <<kind, origin>> \in options.originRequestFunc.allows
  ELSE IF options.originFunc # None THEN origin \in options.originFunc.allows
  ELSE \/ options.origins = <<>>
       \/ \E p \in ToSet(options.origins) :
            p.kind = "all" \/ \E x \in p.matches : x.name = origin.name
Names(s) == {s[i].name : i \in DOMAIN s}
MethodPermitted(m) ==
  m.name \in {OPTIONS} \cup IF options.methods = <<>> THEN DefaultMethods ELSE Names(options.methods)
HeadersPermitted(headers) ==
  \/ Star \in Names(options.headers)
  \/ Names(headers) \subseteq {"", "Origin"} \cup Names(options.headers)

\* An actual request is admitted exactly if the options permit its origin and
\* method, and so is a preflight if they permit the headers, and no preflight
\* otherwise: except that for an empty list of headers, which is to allow
\* none but Origin (options.go:31), New takes three more (cors.go:133), and
\* nothing is said of what becomes of headers that are not permitted then.
AdmitsThePermitted ==
  request # None /\ request.origin # None =>
    /\ preflight # None =>
         LET permitted == /\ OriginPermitted(OPTIONS, request.origin)
                          /\ MethodPermitted(request.method)
         IN  /\ HeadersPermitted(request.headers) => (Admits(preflight) <=> permitted)
             /\ ~ HeadersPermitted(request.headers) /\ Admits(preflight)
                  => options.headers = <<>> /\ permitted
    /\ actual # None =>
         (Admits(actual) <=> /\ OriginPermitted("actual", request.origin)
                             /\ MethodPermitted(request.method))

\* What a preflight promised the actual request gets, credentials included,
\* unless a function of the request changed its mind in between.
PreflightPromises ==
  /\ request # None /\ request.origin # None /\ cors.allowOriginRequestFunc = None
  /\ Admits(preflight) /\ actual # None
  => Admits(actual) /\ preflight.credentials = actual.credentials

=============================================================================
