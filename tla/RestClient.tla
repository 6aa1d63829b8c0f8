----------------------------- MODULE RestClient -----------------------------
(***************************************************************************)
(* client/rest: clients and the requests made from them.                   *)
(*                                                                         *)
(* A client keeps its headers in a map, and NewRequest hands that map, not *)
(* a copy of it, to every request, and Do hands it on to net/http, which   *)
(* reads it when it writes the request to the connection.  Requests of one *)
(* client are made by different goroutines; a call of a method is one step *)
(* (overlapping writes of one Go map end the process), and Do is two:      *)
(* building the http.Request, and its way over the wire.                   *)
(*                                                                         *)
(* Every header value and every credential is a number of its own.         *)
(***************************************************************************)
EXTENDS Naturals, Sequences

CONSTANTS
  Clients,      \* clients of the process
  MaxRequests,  \* bound on the requests made
  MaxGiven,     \* bound on the header values and credentials given
  MaxSends      \* bound on the calls of Do

VARIABLES
  maps,      \* the http.Header maps, by reference: their content
  clients,   \* a client's headers (0: nil) and authentication
  requests,  \* the requests, in the order they were made
  givenTo,   \* to which client and request (0: to the client) a value was given
  wire,      \* what net/http sent in the last step
  sends      \* number of calls of Do

restVars == <<maps, clients, requests, givenTo, wire, sends>>

AUTHORIZATION_HEADER == "Authorization"
HeaderKeys == {AUTHORIZATION_HEADER, "X"}
Nil == 0
NoValue == 0
NoAuth == [type |-> "none", value |-> NoValue]
Requests == 1 .. Len(requests)
Fresh == Len(givenTo) + 1

Empty == [k \in HeaderKeys |-> NoValue]
Content(map) == IF map = Nil THEN Empty ELSE maps[map]

NotSent == [request |-> 0, headers |-> Empty, undisturbed |-> TRUE]

NewRESTClient == [headers |-> Nil, auth |-> NoAuth]

NothingSent == wire' = NotSent

Init ==
  /\ maps = <<>>
  /\ clients = [c \in Clients |-> NewRESTClient]
  /\ requests = <<>>
  /\ givenTo = <<>>
  /\ wire = NotSent
  /\ sends = 0

\* A new value for request r of client c, or for the client.
Given(c, r) ==
  /\ Fresh <= MaxGiven
  /\ givenTo' = Append(givenTo, [client |-> c, request |-> r])

\* The map a header is set in: a new one if there was none.
Target(map) == IF map = Nil THEN Len(maps) + 1 ELSE map
MapsWith(map, key, value) ==
  LET all == IF map = Nil THEN Append(maps, Empty) ELSE maps
  IN  [all EXCEPT ![Target(map)][key] = value]

\* Requests on their way with this map are sent as it is when it is written.
Disturbed(rs, map) ==
  [r \in DOMAIN rs |-> IF map # Nil /\ rs[r].state = "sending" /\ rs[r].bound = map
                       THEN [rs[r] EXCEPT !.undisturbed = FALSE] ELSE rs[r]]

-----------------------------------------------------------------------------
(* A client *)

SetHeader(c, key) ==
  /\ Given(c, 0)
  /\ maps' = MapsWith(clients[c].headers, key, Fresh)
  /\ clients' = [clients EXCEPT ![c].headers = Target(@)]
  /\ requests' = Disturbed(requests, clients[c].headers)
  /\ UNCHANGED sends /\ NothingSent

\* SetBasicAuth and SetBearerTokenAuth; each overrides the other.
SetAuth(c, type) ==
  /\ Given(c, 0)
  /\ clients' = [clients EXCEPT ![c].auth = [type |-> type, value |-> Fresh]]
  /\ UNCHANGED <<maps, requests, sends>> /\ NothingSent

-----------------------------------------------------------------------------
(* A request *)

\* Seeded fault: a client without headers makes them up for its requests.
NewRequest_Shares(c, parses) ==
  /\ Len(requests) < MaxRequests
  /\ LET new == clients[c].headers = Nil
     IN  /\ maps' = IF new THEN Append(maps, Empty) ELSE maps
         /\ clients' = [clients EXCEPT ![c].headers = Target(@)]
         /\ requests' = Append(requests,
              [client |-> c, headers |-> Target(clients[c].headers), auth |-> clients[c].auth,
               parses |-> parses, err |-> ~ parses, private |-> new,
               state |-> "open", bound |-> Nil, undisturbed |-> TRUE])
  /\ UNCHANGED <<givenTo, sends>> /\ NothingSent

\* Get, Post, ...: NewRequest, Method and URL, which fails if what SetBaseURL
\* gave does not parse and then leaves the URL as it was.
NewRequest(c, parses) ==
  /\ Len(requests) < MaxRequests
  /\ requests' = Append(requests,
       [client |-> c, headers |-> clients[c].headers, auth |-> clients[c].auth,
        parses |-> parses, err |-> ~ parses,
        private |-> clients[c].headers = Nil,
        state |-> "open", bound |-> Nil, undisturbed |-> TRUE])
  /\ UNCHANGED <<maps, clients, givenTo, sends>> /\ NothingSent

\* Header, which does nothing after an error.
Header(r, key) ==
  /\ requests[r].state = "open" /\ ~ requests[r].err
  /\ Given(requests[r].client, r)
  /\ maps' = MapsWith(requests[r].headers, key, Fresh)
  /\ requests' = Disturbed([requests EXCEPT ![r].headers = Target(@)], requests[r].headers)
  /\ UNCHANGED <<clients, sends>> /\ NothingSent

\* Body with a value that cannot be encoded.
BodyFails(r) ==
  /\ requests[r].state = "open" /\ ~ requests[r].err
  /\ requests' = [requests EXCEPT ![r].err = TRUE]
  /\ UNCHANGED <<maps, clients, givenTo, sends>> /\ NothingSent

\* Sets the authorization on a map, and request r off with this one.
Authorize(r, map, value) ==
  /\ maps' = MapsWith(map, AUTHORIZATION_HEADER, value)
  /\ requests' = [Disturbed(requests, map) EXCEPT ![r].state = "sending",
       ![r].headers = Target(map), ![r].bound = map, ![r].undisturbed = TRUE]

\* Seeded fault: the credentials are looked up in the client.
buildAuth_Late(r) ==
  LET q == requests[r]
      auth == clients[q.client].auth
  IN  \/ /\ auth.type = "none" \/ (auth.type = "bearer" /\ q.err)
         /\ requests' = [requests EXCEPT ![r].state = "sending", ![r].bound = q.headers,
                                         ![r].undisturbed = TRUE]
         /\ UNCHANGED maps
      \/ /\ (auth.type = "bearer" /\ ~ q.err) \/ (auth.type = "basic" /\ q.headers # Nil)
         /\ Authorize(r, q.headers, auth.value)
      \/ /\ auth.type = "basic" /\ q.headers = Nil
         /\ requests' = [requests EXCEPT ![r].state = "panicked"]
         /\ UNCHANGED maps

\* A bearer token is set through Header, that is in the map of the Request: if
\* that is nil Header makes one, which the http.Request does not have.  Basic
\* authentication is set in the map of the http.Request, and panics if that is
\* nil.  After an error Header does nothing.
buildAuth(r) ==
  LET q == requests[r] IN
  \/ /\ q.auth.type = "none" \/ (q.auth.type = "bearer" /\ q.err)
     /\ requests' = [requests EXCEPT ![r].state = "sending", ![r].bound = q.headers,
                                     ![r].undisturbed = TRUE]
     /\ UNCHANGED maps
  \/ /\ (q.auth.type = "bearer" /\ ~ q.err) \/ (q.auth.type = "basic" /\ q.headers # Nil)
     /\ Authorize(r, q.headers, q.auth.value)
  \/ /\ q.auth.type = "basic" /\ q.headers = Nil
     /\ requests' = [requests EXCEPT ![r].state = "panicked"]
     /\ UNCHANGED maps

\* Do up to the call of net/http.  It does not look at err; without a URL that
\* parses there is no http.Request to set the headers of.
Do(r) ==
  /\ requests[r].state = "open"
  /\ sends < MaxSends /\ sends' = sends + 1
  /\ IF requests[r].parses
     THEN buildAuth(r)
     ELSE requests' = [requests EXCEPT ![r].state = "panicked"] /\ UNCHANGED maps
  /\ UNCHANGED <<clients, givenTo>> /\ NothingSent

\* net/http writes the request.
Send(r) ==
  /\ requests[r].state = "sending"
  /\ wire' = [request |-> r, headers |-> Content(requests[r].bound),
              undisturbed |-> requests[r].undisturbed]
  /\ requests' = [requests EXCEPT ![r].state = "open", ![r].bound = Nil,
                                     ![r].undisturbed = TRUE]
  /\ UNCHANGED <<maps, clients, givenTo, sends>>

Next ==
  \/ \E c \in Clients, key \in HeaderKeys : SetHeader(c, key)
  \/ \E c \in Clients, type \in {"basic", "bearer"} : SetAuth(c, type)
  \/ \E c \in Clients, parses \in BOOLEAN : NewRequest(c, parses)
  \/ \E r \in Requests, key \in HeaderKeys : Header(r, key)
  \/ \E r \in Requests : BodyFails(r)
  \/ \E r \in Requests : Do(r)
  \/ \E r \in Requests : Send(r)

Spec == Init /\ [][Next]_restVars

-----------------------------------------------------------------------------
(* Properties *)

SentValues == {wire.headers[k] : k \in HeaderKeys} \ {NoValue}
Sender == requests[wire.request]

\* A request made from a client that had no headers goes out with nothing that
\* was given to another request or to the client's defaults later; only the
\* client's credentials join what was given to itself.
PrivateWithoutDefaults ==
  wire # NotSent /\ Sender.private =>
    \A v \in SentValues : givenTo[v].request = wire.request \/ v = Sender.auth.value

\* A request that has headers and that nobody overlapped goes out with its own
\* credentials, whatever the requests before it left in the shared map.
OwnCredentials ==
  wire # NotSent /\ wire.undisturbed /\ SentValues # {} =>
    \/ Sender.auth.type = "none" \/ Sender.err
    \/ wire.headers[AUTHORIZATION_HEADER] = Sender.auth.value

=============================================================================
