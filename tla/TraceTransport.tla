--------------------------- MODULE TraceTransport ---------------------------
(***************************************************************************)
(* trace/thttp/client.go: the spans of one traced request.                 *)
(*                                                                         *)
(* TraceRequest makes a Tracer for a request; Transport.RoundTrip is then  *)
(* called for it and for every redirect, and again if the caller sends the *)
(* request once more, also while the body of an earlier answer is open.    *)
(* Each call, a hop, gets a span of its own, and the Tracer remembers only *)
(* the last one.  net/http calls the Tracer's hooks from goroutines of its *)
(* own: a connection that was dialled or is put back for a hop may say so  *)
(* when the hop is over and another one is under way.                      *)
(*                                                                         *)
(* External: net/http, and the tracer that starts and finishes spans.      *)
(***************************************************************************)
EXTENDS Naturals, Sequences, SequencesExt

CONSTANTS
  MaxHops,    \* bound on the calls of RoundTrip
  MaxEvents,  \* bound on the calls of hooks
  MaxClosed   \* bound on the calls of Close for one body

VARIABLES
  opts,    \* the options of TraceRequest, or None if the request has no Tracer
  header,  \* the headers of the caller's request: its id and the span in it
  tracer,  \* the Tracer: its root span (none, open, finished) and last span
  spans,   \* the spans of the hops, by hop: the times it was finished, its
           \* tags and the hops whose events were logged in it
  hops,    \* the hops: how far each is, the headers it was sent with and those
           \* of the caller's request before
  events   \* number of calls of hooks

traceVars == <<opts, header, tracer, spans, hops, events>>

None == [none |-> TRUE]
NoSpan == 0
NoID == 0
CallersID == 1
XID(hop) == CallersID + hop   \* xid.New

Init ==
  /\ opts = None
  /\ header = [id |-> NoID, span |-> NoSpan]
  /\ tracer = [root |-> "none", sp |-> NoSpan]
  /\ spans = <<>>
  /\ hops = <<>>
  /\ events = 0

\* ClientTrace and InjectSpanContext override the defaults; the caller may
\* have given the request an id.  Without TraceRequest there is no Tracer.
TraceRequest(options, id) ==
  /\ opts = None
  /\ opts' = options
  /\ header' = [header EXCEPT !.id = id]
  /\ UNCHANGED <<tracer, spans, hops, events>>

-----------------------------------------------------------------------------
(* RoundTrip *)

\* start: the root with the first hop, and a span for every hop.
start ==
  /\ tracer' = [root |-> IF tracer.root = "none" THEN "open" ELSE tracer.root,
                sp   |-> Len(spans) + 1]
  /\ spans' = Append(spans, [finished |-> 0, error |-> FALSE, logged |-> {}])

\* The id and the span that go into the headers of the hop.
Sent(before) ==
  [id   |-> IF before.id = NoID THEN XID(Len(hops) + 1) ELSE before.id,
   span |-> IF opts.inject THEN Len(spans) + 1 ELSE before.span]

\* RoundTrip up to the call of the transport below.  When the caller sends the
\* request this changes its headers; a redirect has a copy net/http made of the
\* headers before that, and comes after net/http has closed the answer's body.
RoundTrip(redirect, head) ==
  /\ opts # None
  /\ Len(hops) < MaxHops
  /\ \A h \in DOMAIN hops : hops[h].state # "sent" /\ (hops[h].redirects => hops[h].state = "closed")
  /\ redirect => hops # <<>> /\ Last(hops).redirects /\ Last(hops).head = head
  /\ start
  /\ LET before == IF redirect THEN Last(hops).before ELSE header
     IN  /\ hops' = Append(hops, [state |-> "sent", head |-> head, redirects |-> FALSE,
                                  before |-> before, header |-> Sent(before), closed |-> 0])
         /\ header' = IF redirect THEN header ELSE Sent(before)
  /\ UNCHANGED <<opts, events>>

Finish(s) == [spans EXCEPT ![s].finished = @ + 1]

InFlight(h) == hops[h].state = "sent"

\* Seeded fault: closing the body finishes the span the Tracer is at.
CloseBody_Current(h) ==
  /\ hops[h].state \in {"answered", "closed"} /\ ~ hops[h].head
  /\ hops[h].closed < MaxClosed
  /\ hops' = [hops EXCEPT ![h].state = "closed", ![h].closed = @ + 1]
  /\ spans' = Finish(tracer.sp)
  /\ UNCHANGED <<opts, header, tracer, events>>

\* RoundTrip ends with an error.
Failed(h) ==
  /\ InFlight(h)
  /\ hops' = [hops EXCEPT ![h].state = "closed"]
  /\ spans' = Finish(tracer.sp)
  /\ UNCHANGED <<opts, header, tracer, events>>

\* RoundTrip ends with an answer.  That to a HEAD has no body to close.
Answered(h, answer) ==
  /\ InFlight(h)
  /\ hops' = [hops EXCEPT ![h].state = IF hops[h].head THEN "closed" ELSE "answered",
                          ![h].redirects = answer = "redirect"]
  /\ LET tagged == [spans EXCEPT ![tracer.sp].error = @ \/ answer = "serverError"]
     IN  spans' = IF hops[h].head
                  THEN [tagged EXCEPT ![tracer.sp].finished = @ + 1] ELSE tagged
  /\ UNCHANGED <<opts, header, tracer, events>>

\* closeTracker.Close, called by the caller or, for a redirect, by net/http,
\* and any number of times.  The closeTracker has the span of its hop.
CloseBody(h) ==
  /\ hops[h].state \in {"answered", "closed"} /\ ~ hops[h].head
  /\ hops[h].closed < MaxClosed
  /\ hops' = [hops EXCEPT ![h].state = "closed", ![h].closed = @ + 1]
  /\ spans' = Finish(h)
  /\ UNCHANGED <<opts, header, tracer, events>>

\* A hook, called for hop h at any time after it was sent: it logs to the span
\* the Tracer is at.  wroteRequest tags it if writing failed.
Event(h, failed) ==
  /\ opts.clientTrace
  /\ events < MaxEvents /\ events' = events + 1
  /\ spans' = [spans EXCEPT ![tracer.sp].logged = @ \cup {h}, ![tracer.sp].error = @ \/ failed]
  /\ UNCHANGED <<opts, header, tracer, hops>>

\* Tracer.Finish, by the caller, who may have sent nothing.
FinishRoot ==
  /\ opts # None /\ tracer.root = "open"
  /\ tracer' = [tracer EXCEPT !.root = "finished"]
  /\ UNCHANGED <<opts, header, spans, hops, events>>

Next ==
  \/ \E options \in [clientTrace : BOOLEAN, inject : BOOLEAN], id \in {NoID, CallersID} :
       TraceRequest(options, id)
  \/ \E redirect, head \in BOOLEAN : RoundTrip(redirect, head)
  \/ \E h \in DOMAIN hops : Failed(h)
  \/ \E h \in DOMAIN hops, answer \in {"success", "redirect", "serverError"} : Answered(h, answer)
  \/ \E h \in DOMAIN hops : CloseBody(h)
  \/ \E h \in DOMAIN hops, failed \in BOOLEAN : Event(h, failed)
  \/ FinishRoot

Spec == Init /\ [][Next]_traceVars

-----------------------------------------------------------------------------
(* Properties *)

\* Each hop has a span of its own, which is finished once the hop failed, was
\* answered to a HEAD or had its body closed, and not before, whatever the hops
\* after it do; the server is told of that span or, without injection, of none;
\* and what happened in a hop is never logged to the span of an earlier one.
\* (It may be logged to a later one's, or after the finish.)
SpanPerHop ==
  /\ Len(spans) = Len(hops)
  /\ \A h \in DOMAIN hops :
       /\ spans[h].finished > 0 <=> hops[h].state = "closed"
       /\ hops[h].header.span = IF opts.inject THEN h ELSE NoSpan
       /\ \A other \in spans[h].logged : other <= h

=============================================================================
