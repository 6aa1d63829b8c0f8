---------------------------- MODULE HttpResponse ----------------------------
(***************************************************************************)
(* One request behind the middleware of a generated service: recovery,     *)
(* then the access log, then the route's handler (http/middleware, the     *)
(* wrapper of httprouter.go), all of them answering through the response   *)
(* writer of http/response/write.go.                                       *)
(*                                                                         *)
(* The handler makes any calls of the writer, in any order, and returns or *)
(* panics after any of them.  So does a function it gave to Before, which  *)
(* the writer calls from inside WriteHeader.                               *)
(*                                                                         *)
(* The http.ResponseWriter of net/http below is external: it sends the     *)
(* first status it is given and ignores others, and sends 200 before a     *)
(* body that comes without one.  It refuses a body with 204 and 304, which *)
(* are left out.                                                           *)
(***************************************************************************)
EXTENDS Naturals, Sequences, FiniteSets

CONSTANTS
  Statuses,   \* statuses a handler answers with
  Codes,      \* codes of the errors it gives to response.Failed
  MaxSize,    \* bound on the bytes of one Write
  MaxCalls    \* bound on the calls of a handler

\* What a function given to Before does: it sets headers, writes a body of
\* one byte, or panics.
Hooks == {"set", "write", "panic"}

\* Left out are the informational statuses 1xx, of which net/http sends any
\* number before the status proper, and those that have no body.
ASSUME ResponseAssumption ==
  /\ Statuses \subseteq (200 .. 599) \ {204, 304}
  /\ Codes \subseteq Nat \ (0 .. 199 \cup {204, 304})
  /\ MaxSize \in Nat /\ MaxCalls \in Nat

VARIABLES
  rw,      \* the responseWriter: status, size and beforeFuncs
  sent,    \* what net/http has sent: status (0: nothing yet) and bytes
  at,      \* who runs: the handler, the access log, the deferred recovery;
           \* or how the request ended: done, recovered, or aborted by
           \* net/http after a second panic
  calls,   \* number of calls the handler has made
  logged   \* the status in the access log, or 0

vars == <<rw, sent, at, calls, logged>>

OK == 200
InternalServerError == 500

Init ==
  /\ rw = [status |-> 0, size |-> 0, hooks |-> <<>>]
  /\ sent = [status |-> 0, bytes |-> 0]
  /\ at = "handler"
  /\ calls = 0
  /\ logged = 0

-----------------------------------------------------------------------------
(* The writer: what its methods make of x, a record of the writer, of what *)
(* was sent, and of whether a panic is under way.                          *)

\* net/http sends n bytes of a body.
NetWrite(x, n) ==
  [x EXCEPT !.sent = [status |-> IF @.status = 0 THEN OK ELSE @.status,
                      bytes  |-> @.bytes + n]]

\* net/http sends a status.
NetHeader(x, s) ==
  [x EXCEPT !.sent.status = IF @ = 0 THEN s ELSE @]

Written(x) == x.rw.status # 0

\* The end of Write, n of its len bytes having been written.
Body(x, n, len) == [NetWrite(x, n) EXCEPT !.rw.size = @ + n]

\* callBefore, from the last function to the first.  Those after the last
\* one that panics run to their end, with the status set, so that a Write of
\* theirs does not come back to WriteHeader; those before it do not run.
callBefore(x) ==
  LET hooks  == x.rw.hooks
      ran    == {i \in 1 .. Len(hooks) : \A j \in i .. Len(hooks) : hooks[j] # "panic"}
      writes == Cardinality({i \in ran : hooks[i] = "write"})
      y      == [x EXCEPT !.panics = \E i \in 1 .. Len(hooks) : hooks[i] = "panic"]
  IN  IF writes = 0 THEN y ELSE Body(y, writes, writes)

\* Seeded fault: the status is set after the hooks have run.
WriteHeader_Late(x, s) ==
  LET y == callBefore(x)
  IN  IF y.panics THEN y ELSE NetHeader([y EXCEPT !.rw.status = s], s)

WriteHeader(x, s) ==
  LET y == callBefore([x EXCEPT !.rw.status = s])
  IN  IF y.panics THEN y ELSE NetHeader(y, s)

\* The header that Write and Flush send first if there is none yet.
ImplicitHeader(x) == IF Written(x) THEN x ELSE WriteHeader(x, OK)

Write(x, n, len) ==
  LET y == ImplicitHeader(x)
  IN  IF y.panics THEN y ELSE Body(y, n, len)

Flush(x) ==
  LET y == ImplicitHeader(x)
  IN  IF y.panics THEN y ELSE NetHeader(y, OK)

Before(x, hook) == [x EXCEPT !.rw.hooks = Append(@, hook)]

\* A status and a body: what Success and Failed come to, with the status 500 if
\* json.Marshal fails.
Send(x, s) ==
  LET y == WriteHeader(x, s)
  IN  IF y.panics THEN y ELSE Write(y, 1, 1)

\* The status of an error code: itself if it is a status, else 200.
HttpCode(code) == IF code \div 100 \in 1 .. 5 THEN code ELSE OK

\* response.Failed.
Failed(x, code) == Send(x, HttpCode(code))

-----------------------------------------------------------------------------
(* The request *)

Writer == [rw |-> rw, sent |-> sent, panics |-> FALSE]

\* The handler makes a call; if that panics the deferred recovery runs.
Call(x) ==
  /\ at = "handler" /\ calls < MaxCalls
  /\ calls' = calls + 1
  /\ rw' = x.rw /\ sent' = x.sent
  /\ at' = IF x.panics THEN "recovery" ELSE "handler"
  /\ logged' = logged

\* The handler returns to the wrapper of addHandler, and that to the
\* middleware; so does the wrapper itself when the auther refuses a request,
\* after calling Failed.
Return ==
  /\ at = "handler"
  /\ at' = "access"
  /\ UNCHANGED <<rw, sent, calls, logged>>

Panic ==
  /\ at = "handler"
  /\ at' = "recovery"
  /\ UNCHANGED <<rw, sent, calls, logged>>

\* The access log after next.ServeHTTP; a panic passes it by.
Access ==
  /\ at = "access"
  /\ logged' = rw.status
  /\ at' = "done"
  /\ UNCHANGED <<rw, sent, calls>>

\* Seeded fault: nothing is answered when something has been.
Recover_IfUnwritten ==
  /\ at = "recovery"
  /\ LET x == IF Written(Writer) THEN Writer ELSE Failed(Writer, InternalServerError)
     IN  /\ rw' = x.rw /\ sent' = x.sent
         /\ at' = IF x.panics THEN "aborted" ELSE "recovered"
  /\ UNCHANGED <<calls, logged>>

\* The deferred function of recovery: response.Failed.  A panic in there is
\* left to net/http, which aborts the connection.
Recover ==
  /\ at = "recovery"
  /\ LET x == Failed(Writer, InternalServerError)
     IN  /\ rw' = x.rw /\ sent' = x.sent
         /\ at' = IF x.panics THEN "aborted" ELSE "recovered"
  /\ UNCHANGED <<calls, logged>>

Next ==
  \/ \E s \in Statuses : Call(WriteHeader(Writer, s))
  \/ \E len \in 0 .. MaxSize : \E n \in 0 .. len : Call(Write(Writer, n, len))
  \/ Call(Flush(Writer))
  \/ \E hook \in Hooks : Call(Before(Writer, hook))
  \/ \E s \in {OK, InternalServerError} : Call(Send(Writer, s))
  \/ \E code \in Codes : Call(Failed(Writer, code))
  \/ Return
  \/ Panic
  \/ Access
  \/ Recover

Spec == Init /\ [][Next]_vars

-----------------------------------------------------------------------------
(* Properties *)

\* Size() is the length of the body that was sent, also after short writes,
\* writes from inside WriteHeader and a panic in the middle of either.
SizeIsSent == rw.size = sent.bytes

\* Written() covers everything sent: nobody finds the writer unwritten, and
\* sends a header of his own, when the client has already got one.
WrittenIfSent == sent.status # 0 => rw.status # 0

\* The writer knows what the client has got, of the header and of the body.
SentIsRecorded == SizeIsSent /\ WrittenIfSent

\* The client of a request that panicked gets an answer with a body: recovery
\* fails only if a function given to Before panics.
PanicAnswered ==
  /\ at = "recovered" => sent.status # 0 /\ sent.bytes > 0
  /\ at = "aborted" => \E i \in 1 .. Len(rw.hooks) : rw.hooks[i] = "panic"

\* "Status returns the status code of the response or 0 if the response has
\* not been written" (write.go:16-17): what it returns is what was sent.
StatusIsSent == rw.status = sent.status

=============================================================================
