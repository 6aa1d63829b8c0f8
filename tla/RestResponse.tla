---------------------------- MODULE RestResponse ----------------------------
(***************************************************************************)
(* client/rest/response.go: what Into makes of the answer to a request,    *)
(* called any number of times.  The body is a connection: reading it comes *)
(* to its end or to an error, and until it is closed the connection cannot *)
(* be used again.                                                          *)
(***************************************************************************)
EXTENDS Naturals, Sequences

CONSTANT MaxInto  \* bound on the calls of Into

VARIABLES
  response,  \* err, whether the status is 2xx, isRead and bf
  body,      \* the body's connection: none, open, or closed
  into       \* what Into returned, in order of the calls

responseVars == <<response, body, into>>

Init ==
  /\ response = [err |-> FALSE, is2xx |-> FALSE, isRead |-> FALSE, bf |-> "empty"]
  /\ body = "none"
  /\ into = <<>>

\* The end of Request.Do, with an answer or without.
Do(answered, is2xx) ==
  /\ body = "none" /\ ~ response.err
  /\ response' = [response EXCEPT !.err = ~ answered, !.is2xx = answered /\ is2xx]
  /\ body' = IF answered THEN "open" ELSE "none"
  /\ UNCHANGED into

\* Seeded fault: what was read is kept whether or not there was an error.
read_Partial(p, whole) ==
  IF p.isRead THEN p
  ELSE [p EXCEPT !.isRead = TRUE, !.bf = IF whole THEN "whole" ELSE "part"]

\* The response after read, where ReadAll came to the end or not.
read(p, whole) ==
  IF p.isRead THEN p
  ELSE IF whole THEN [p EXCEPT !.isRead = TRUE, !.bf = "whole"]
  ELSE [p EXCEPT !.isRead = TRUE, !.err = TRUE]

\* The deferred Close is reached only if ReadAll had no error.
CloseAfter(p, whole) == IF ~ p.isRead /\ whole THEN "closed" ELSE body

\* What Into returns for response p: nothing decodes from no bytes.
Result(p, decodes) ==
  IF p.is2xx /\ p.bf # "empty" /\ decodes THEN p.bf ELSE "error"

Into(whole, decodes) ==
  /\ Len(into) < MaxInto
  /\ response.err \/ body # "none"
  /\ IF response.err
     THEN into' = Append(into, "error") /\ UNCHANGED <<response, body>>
     ELSE /\ response' = read(response, whole)
          /\ body' = CloseAfter(response, whole)
          /\ into' = Append(into, Result(read(response, whole), decodes))

Next ==
  \/ \E answered, is2xx \in BOOLEAN : Do(answered, is2xx)
  \/ \E whole, decodes \in BOOLEAN : Into(whole, decodes)

Spec == Init /\ [][Next]_responseVars

-----------------------------------------------------------------------------
(* Properties *)

\* Into succeeds only on the whole body, also after a read that failed halfway
\* and however often it is called; and once a body was read as a whole its
\* connection is free.  (After a read that failed it never is.)
IntoIsWhole ==
  /\ \A i \in DOMAIN into : into[i] \in {"whole", "error"}
  /\ response.bf # "empty" <=> body = "closed"

=============================================================================
