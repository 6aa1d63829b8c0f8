-------------------------- MODULE ServiceLifecycle --------------------------
(***************************************************************************)
(* The start command of a generated service, from signal.Notify to the end *)
(* of the process: the main goroutine, which runs the http server          *)
(* (start.go.tpl, protocol/http.go.httprouter.tpl), the goroutine of the   *)
(* grpc server (protocol/grpc.go.tpl) and the one that waits for a signal  *)
(* and stops both.  When main returns the process ends, whatever the other *)
(* goroutines and the requests under way are doing.                        *)
(*                                                                         *)
(* net/http and grpc are external.  Shutdown and GracefulStop close their  *)
(* server to new requests at once, which ends ListenAndServe and Serve,    *)
(* and then wait for the requests under way.                               *)
(***************************************************************************)
EXTENDS Naturals

CONSTANTS
  Requests,    \* requests each of the two servers may get
  MaxSignals   \* bound on the signals sent to the process

ASSUME SignalsAssumption == MaxSignals \in Nat

VARIABLES
  main,     \* where the main goroutine is
  result,   \* what RunE returns: "ok", or "error"
  waiter,   \* where the goroutine of waitSign is
  server,   \* where the goroutine of grpc.Start is
  ch,       \* signals in the channel, whose capacity is 1
  sent,     \* history: signals sent
  closing,  \* the servers, of "http" and "grpc", closed to new requests
  request,  \* request[s][r]: state of the request r of the server s
  exit      \* how the process ended, or "no"

vars == <<main, result, waiter, server, ch, sent, closing, request, exit>>

Servers == {"http", "grpc"}

Running == exit = "no"

UnderWay(s) == {r \in Requests : request[s][r] = "active"}

\* RunE is at line 60, and the channel is made and registered.
Init ==
  /\ main = "newService"
  /\ result = "ok"
  /\ waiter = "none"
  /\ server = "none"
  /\ ch = 0
  /\ sent = 0
  /\ closing = {}
  /\ request = [s \in Servers |-> [r \in Requests |-> "none"]]
  /\ exit = "no"

\* The process is gone, and with it every request under way.
Die(how) ==
  /\ exit' = how
  /\ request' = [s \in Servers |-> [r \in Requests |->
                   IF r \in UnderWay(s) THEN "cut" ELSE request[s][r]]]

-----------------------------------------------------------------------------
(* The main goroutine *)

\* newService, and go waitSign.
newService ==
  /\ main = "newService"
  /\ main' = "start" /\ waiter' = "waiting"
  /\ UNCHANGED <<result, server, ch, sent, closing, request, exit>>

\* newService panics when it cannot make the client of its auth service.
newServicePanics ==
  /\ main = "newService"
  /\ Die("panic")
  /\ UNCHANGED <<main, result, waiter, server, ch, sent, closing>>

\* start: go grpc.Start, and http.Start up to the call of RegistryEndpoint.
start ==
  /\ main = "start"
  /\ main' = "registry" /\ server' = "loading"
  /\ UNCHANGED <<result, waiter, ch, sent, closing, request, exit>>

\* RegistryEndpoint returns; an error is only logged.
RegistryEndpoint ==
  /\ main = "registry"
  /\ main' = "listen"
  /\ UNCHANGED <<result, waiter, server, ch, sent, closing, request, exit>>

\* ListenAndServe starts to serve, unless Shutdown came first.
ListenAndServe ==
  /\ main = "listen" /\ "http" \notin closing
  /\ main' = "serving"
  /\ UNCHANGED <<result, waiter, server, ch, sent, closing, request, exit>>

\* ListenAndServe returns ErrServerClosed, which RunE takes for success.
ServerClosed ==
  /\ main \in {"listen", "serving"} /\ "http" \in closing
  /\ main' = "return" /\ result' = "ok"
  /\ UNCHANGED <<waiter, server, ch, sent, closing, request, exit>>

\* Listen or Accept fails, and RunE returns the error.
ListenFails ==
  /\ main \in {"listen", "serving"} /\ "http" \notin closing
  /\ main' = "return" /\ result' = "error"
  /\ UNCHANGED <<waiter, server, ch, sent, closing, request, exit>>

\* The deferred close(ch).
CloseChannel ==
  /\ main = "return"
  /\ main' = "closed"
  /\ UNCHANGED <<result, waiter, server, ch, sent, closing, request, exit>>

\* The process ends.
Exit ==
  /\ main = "closed"
  /\ Die(result)
  /\ UNCHANGED <<main, result, waiter, server, ch, sent, closing>>

-----------------------------------------------------------------------------
(* The signal and its goroutine *)

\* Seeded fault: a channel without a buffer.
Signal_Unbuffered ==
  /\ sent < MaxSignals
  /\ sent' = sent + 1
  /\ IF main = "closed"
     THEN Die("panic") /\ ch' = ch
     ELSE ch' = (IF waiter = "waiting" THEN 1 ELSE ch) /\ UNCHANGED <<request, exit>>
  /\ UNCHANGED <<main, result, waiter, server, closing>>

\* The runtime delivers a signal: one that finds the channel full is dropped,
\* one that finds it closed is a send on a closed channel.
Signal ==
  /\ sent < MaxSignals
  /\ sent' = sent + 1
  /\ IF main = "closed"
     THEN Die("panic") /\ ch' = ch
     ELSE ch' = 1 /\ UNCHANGED <<request, exit>>
  /\ UNCHANGED <<main, result, waiter, server, closing>>

\* Seeded fault: the http server is stopped first.
waitSign_HttpFirst ==
  /\ waiter = "waiting" /\ ch > 0
  /\ ch' = 0
  /\ waiter' = "http" /\ closing' = Servers
  /\ UNCHANGED <<main, result, server, sent, request, exit>>

\* waitSign gets a signal and calls GracefulStop.
waitSign ==
  /\ waiter = "waiting" /\ ch > 0
  /\ ch' = 0
  /\ waiter' = "grpc" /\ closing' = closing \cup {"grpc"}
  /\ UNCHANGED <<main, result, server, sent, request, exit>>

\* GracefulStop returns, and Shutdown is called.
StopHttp ==
  /\ waiter = "grpc" /\ UnderWay("grpc") = {}
  /\ waiter' = "http" /\ closing' = closing \cup {"http"}
  /\ UNCHANGED <<main, result, server, ch, sent, request, exit>>

\* Shutdown returns: nothing is under way, or 30 seconds have passed.  Either
\* way waitSign returns, and takes no other signal.
StopReturns ==
  /\ waiter = "http"
  /\ waiter' = "done"
  /\ UNCHANGED <<main, result, server, ch, sent, closing, request, exit>>

-----------------------------------------------------------------------------
(* The grpc server and the requests *)

\* Start of the grpc server; a server that was stopped does not serve.
grpcServes ==
  /\ server = "loading"
  /\ server' = IF "grpc" \in closing THEN "ended" ELSE "serving"
  /\ UNCHANGED <<main, result, waiter, ch, sent, closing, request, exit>>

\* Start ends: it could not listen, or Serve returned.
grpcEnds ==
  /\ \/ server = "loading"
     \/ server = "serving" /\ "grpc" \in closing
  /\ server' = "ended"
  /\ UNCHANGED <<main, result, waiter, ch, sent, closing, request, exit>>

Serves(s) == s \notin closing /\ (IF s = "http" THEN main ELSE server) = "serving"

Arrive(s, r) ==
  /\ Serves(s) /\ request[s][r] = "none"
  /\ request' = [request EXCEPT ![s][r] = "active"]
  /\ UNCHANGED <<main, result, waiter, server, ch, sent, closing, exit>>

Answer(s, r) ==
  /\ request[s][r] = "active"
  /\ request' = [request EXCEPT ![s][r] = "done"]
  /\ UNCHANGED <<main, result, waiter, server, ch, sent, closing, exit>>

\* The main goroutine, when nothing fails.
Main ==
  \/ newService \/ start \/ RegistryEndpoint \/ ListenAndServe
  \/ ServerClosed \/ CloseChannel \/ Exit

Waiter == waitSign \/ StopHttp \/ StopReturns

Next ==
  \/ Running /\ Main
  \/ Running /\ newServicePanics
  \/ Running /\ ListenFails
  \/ Running /\ Signal
  \/ Running /\ Waiter
  \/ Running /\ grpcServes
  \/ Running /\ grpcEnds
  \/ Running /\ \E s \in Servers, r \in Requests : Arrive(s, r)
  \/ Running /\ \E s \in Servers, r \in Requests : Answer(s, r)

Spec == Init /\ [][Next]_vars

\* The goroutines run, the auth service answers RegistryEndpoint, and every
\* handler ends.  The last is an assumption about the handlers, of which
\* StopHttp needs the part about grpc; nothing else in this code waits
\* without a limit.
FairSpec ==
  /\ Spec
  /\ WF_vars(Running /\ Main)
  /\ WF_vars(Running /\ Waiter)
  /\ \A s \in Servers, r \in Requests : WF_vars(Running /\ Answer(s, r))

-----------------------------------------------------------------------------
(* Properties *)

TypeOK ==
  /\ main \in { "newService", "start", "registry", "listen", "serving", "return", "closed" }
  /\ result \in {"ok", "error"}
  /\ waiter \in {"none", "waiting", "grpc", "http", "done"}
  /\ server \in {"none", "loading", "serving", "ended"}
  /\ ch \in 0 .. 1
  /\ sent \in 0 .. MaxSignals
  /\ closing \subseteq Servers
  /\ request \in [Servers -> [Requests -> {"none", "active", "done", "cut"}]]
  /\ exit \in {"no", "ok", "error", "panic"}

\* A process that ends well has answered every grpc call, because waitSign
\* stops the grpc server first and main lives on the http server.
GrpcDrained == exit = "ok" => \A r \in Requests : request["grpc"][r] # "cut"

\* A signal ends the process, whenever it comes: before waitSign runs, while
\* the endpoints are registered, or in the middle of requests.
StopsOnSignal == sent > 0 ~> ~ Running

\* The http server is stopped gracefully ("优雅关闭HTTP服务",
\* http.go.httprouter.tpl:94): a request is cut only when Shutdown has given
\* up after its 30 seconds, and with it waitSign.
HttpDrained ==
  exit = "ok" /\ waiter # "done" => \A r \in Requests : request["http"][r] # "cut"

=============================================================================
