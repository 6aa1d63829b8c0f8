----------------------- MODULE ServiceLifecycleProofs -----------------------
(***************************************************************************)
(* Proofs about ServiceLifecycle: its type invariant, and that a process   *)
(* which ends well has answered every grpc call.  The second needs how far *)
(* the other goroutines are when main comes to its end: the http server is *)
(* closed only by waitSign, only after GracefulStop has returned, and      *)
(* after that the grpc server takes no call.                               *)
(***************************************************************************)
EXTENDS ServiceLifecycle, TLAPS

\* How waitSign, the servers and main depend on each other.
StopOrder ==
  /\ main = "newService" => waiter = "none"
  /\ "http" \in closing => waiter \in {"http", "done"}
  /\ waiter \in {"grpc", "http", "done"} => "grpc" \in closing
  /\ waiter \in {"http", "done"} => \A r \in Requests : request["grpc"][r] # "active"
  /\ main \in {"return", "closed"} /\ result = "ok" => "http" \in closing
  /\ main \in {"newService", "start", "registry", "listen", "serving"} => result = "ok"

\* A call is cut by nothing but the end of the process.
CutAtExit ==
  Running => \A s \in Servers, r \in Requests : request[s][r] # "cut"

IInv == TypeOK /\ StopOrder /\ CutAtExit /\ GrpcDrained

-----------------------------------------------------------------------------

\* Every process starts in a state that satisfies the invariant.
LEMMA InitInv == Init => IInv
  BY SignalsAssumption DEF Init, IInv, TypeOK, StopOrder, CutAtExit, GrpcDrained, Running, Servers

\* The end of the process, which cuts the requests under way.
LEMMA DieInv ==
  ASSUME IInv, Running, NEW how \in {"ok", "error", "panic"}, Die(how),
         how = "ok" => "http" \in closing,
         UNCHANGED <<main, result, waiter, server, closing>>,
         ch' \in 0 .. 1, sent' \in 0 .. MaxSignals
  PROVE  IInv'
<1>1. /\ request \in [Servers -> [Requests -> {"none", "active", "done", "cut"}]]
      /\ StopOrder /\ CutAtExit
  BY DEF IInv, TypeOK
<1>2. request' = [s \in Servers |-> [r \in Requests |->
                    IF request[s][r] = "active" THEN "cut" ELSE request[s][r]]]
  BY DEF Die, UnderWay
<1>3. TypeOK'
  <2>1. request' \in [Servers -> [Requests -> {"none", "active", "done", "cut"}]]
    BY <1>1, <1>2
  <2> QED
    BY <2>1 DEF IInv, TypeOK, Die
<1>4. "grpc" \in Servers
  BY DEF Servers
<1>5. \A r \in Requests : request["grpc"][r] # "active" => request'["grpc"][r] = request["grpc"][r]
  BY <1>2, <1>4
<1>6. \A r \in Requests : request'["grpc"][r] # "active"
  BY <1>2, <1>4
<1>7. StopOrder'
  BY <1>1, <1>6 DEF StopOrder
<1>8. CutAtExit'
  BY DEF CutAtExit, Running, Die
<1>9. GrpcDrained'
  <2>1. CASE how = "ok"
    BY <2>1, <1>1, <1>4, <1>5 DEF StopOrder, CutAtExit, GrpcDrained, Die
  <2>2. CASE how # "ok"
    BY <2>2 DEF GrpcDrained, Die
  <2> QED
    BY <2>1, <2>2
<1> QED
  BY <1>3, <1>7, <1>8, <1>9 DEF IInv

\* A request arrives or is answered.
LEMMA RequestInv ==
  ASSUME IInv, Running, NEW s \in Servers, NEW r \in Requests,
         Arrive(s, r) \/ Answer(s, r)
  PROVE  IInv'
<1> DEFINE state == IF request[s][r] = "active" THEN "done" ELSE "active"
<1>1. /\ state \in {"active", "done"}
      /\ request' = [request EXCEPT ![s][r] = state]
      /\ state = "active" => Serves(s)
      /\ UNCHANGED <<main, result, waiter, server, ch, sent, closing, exit>>
  BY DEF Arrive, Answer
<1> HIDE DEF state
<1>2. request \in [Servers -> [Requests -> {"none", "active", "done", "cut"}]]
  BY DEF IInv, TypeOK
<1>3. /\ request' \in [Servers -> [Requests -> {"none", "active", "done", "cut"}]]
      /\ \A t \in Servers, q \in Requests :
           request'[t][q] = IF t = s /\ q = r THEN state ELSE request[t][q]
  BY <1>1, <1>2
<1>4. TypeOK'
  BY <1>1, <1>3 DEF IInv, TypeOK
<1>5. "grpc" \in Servers
  BY DEF Servers
<1>6. StopOrder'
  <2>1. ASSUME waiter \in {"http", "done"}, NEW q \in Requests
        PROVE  request'["grpc"][q] # "active"
    BY <2>1, <1>1, <1>3, <1>5 DEF IInv, StopOrder, Serves
  <2> QED
    BY <2>1, <1>1 DEF IInv, StopOrder
<1>7. CutAtExit'
  BY <1>1, <1>3 DEF IInv, CutAtExit, Running
<1>8. GrpcDrained'
  BY <1>1 DEF Running, GrpcDrained
<1> QED
  BY <1>4, <1>6, <1>7, <1>8 DEF IInv

\* Every step of a running process preserves the invariant.
LEMMA NextInv == IInv /\ [Next]_vars => IInv'
<1> SUFFICES ASSUME IInv, [Next]_vars PROVE IInv'
  OBVIOUS
<1>1. CASE Running /\ Main
  <2>1. CASE newService
    BY <1>1, <2>1 DEF newService, IInv, TypeOK, StopOrder, CutAtExit, GrpcDrained, Running
  <2>2. CASE start
    BY <1>1, <2>2 DEF start, IInv, TypeOK, StopOrder, CutAtExit, GrpcDrained, Running
  <2>3. CASE RegistryEndpoint
    BY <1>1, <2>3 DEF RegistryEndpoint, IInv, TypeOK, StopOrder, CutAtExit, GrpcDrained, Running
  <2>4. CASE ListenAndServe
    BY <1>1, <2>4 DEF ListenAndServe, IInv, TypeOK, StopOrder, CutAtExit, GrpcDrained, Running
  <2>5. CASE ServerClosed
    BY <1>1, <2>5 DEF ServerClosed, IInv, TypeOK, StopOrder, CutAtExit, GrpcDrained, Running
  <2>6. CASE CloseChannel
    BY <1>1, <2>6 DEF CloseChannel, IInv, TypeOK, StopOrder, CutAtExit, GrpcDrained, Running
  <2>7. CASE Exit
    <3>1. /\ result \in {"ok", "error", "panic"}
          /\ result = "ok" => "http" \in closing
          /\ ch' \in 0 .. 1 /\ sent' \in 0 .. MaxSignals
      BY <2>7 DEF Exit, IInv, TypeOK, StopOrder
    <3> QED
      BY <1>1, <2>7, <3>1, DieInv DEF Exit
  <2> QED
    BY <1>1, <2>1, <2>2, <2>3, <2>4, <2>5, <2>6, <2>7 DEF Main
<1>2. CASE Running /\ newServicePanics
  <2>1. ch' \in 0 .. 1 /\ sent' \in 0 .. MaxSignals
    BY <1>2 DEF newServicePanics, IInv, TypeOK
  <2> QED
    BY <1>2, <2>1, DieInv DEF newServicePanics
<1>3. CASE Running /\ ListenFails
  BY <1>3 DEF ListenFails, IInv, TypeOK, StopOrder, CutAtExit, GrpcDrained, Running
<1>4. CASE Running /\ Signal
  <2>1. sent' \in 0 .. MaxSignals /\ ch' \in 0 .. 1
    BY <1>4, SignalsAssumption DEF Signal, IInv, TypeOK
  <2>2. CASE main = "closed"
    BY <1>4, <2>1, <2>2, DieInv DEF Signal
  <2>3. CASE main # "closed"
    BY <1>4, <2>1, <2>3 DEF Signal, IInv, TypeOK, StopOrder, CutAtExit, GrpcDrained, Running
  <2> QED
    BY <2>2, <2>3
<1>5. CASE Running /\ Waiter
  <2>1. CASE waitSign
    <3>1. "http" \in closing' <=> "http" \in closing
      BY <2>1 DEF waitSign
    <3>2. TypeOK'
      BY <2>1 DEF waitSign, IInv, TypeOK, Servers
    <3>3. StopOrder'
      BY <2>1, <3>1 DEF waitSign, IInv, StopOrder
    <3> QED
      BY <1>5, <2>1, <3>2, <3>3 DEF waitSign, IInv, CutAtExit, GrpcDrained, Running
  <2>2. CASE StopHttp
    <3>1. \A r \in Requests : request["grpc"][r] # "active"
      BY <2>2 DEF StopHttp, UnderWay
    <3>2. TypeOK'
      BY <2>2 DEF StopHttp, IInv, TypeOK, Servers
    <3>3. StopOrder'
      BY <2>2, <3>1 DEF StopHttp, IInv, StopOrder
    <3> QED
      BY <1>5, <2>2, <3>2, <3>3 DEF StopHttp, IInv, CutAtExit, GrpcDrained, Running
  <2>3. CASE StopReturns
    BY <1>5, <2>3 DEF StopReturns, IInv, TypeOK, StopOrder, CutAtExit, GrpcDrained, Running
  <2> QED
    BY <1>5, <2>1, <2>2, <2>3 DEF Waiter
<1>6. CASE Running /\ grpcServes
  BY <1>6 DEF grpcServes, IInv, TypeOK, StopOrder, CutAtExit, GrpcDrained, Running
<1>7. CASE Running /\ grpcEnds
  BY <1>7 DEF grpcEnds, IInv, TypeOK, StopOrder, CutAtExit, GrpcDrained, Running
<1>8. CASE Running /\ \E s \in Servers, r \in Requests : Arrive(s, r)
  BY <1>8, RequestInv
<1>9. CASE Running /\ \E s \in Servers, r \in Requests : Answer(s, r)
  BY <1>9, RequestInv
<1>10. CASE UNCHANGED vars
  BY <1>10 DEF vars, IInv, TypeOK, StopOrder, CutAtExit, GrpcDrained, Running
<1> QED
  BY <1>1, <1>2, <1>3, <1>4, <1>5, <1>6, <1>7, <1>8, <1>9, <1>10 DEF Next

\* The invariant holds in every reachable state.
THEOREM Invariant == Spec => []IInv
  BY InitInv, NextInv, PTL DEF Spec

\* The type invariant of the process and its requests.
THEOREM TypeCorrect == Spec => []TypeOK
<1>1. IInv => TypeOK
  BY DEF IInv
<1> QED
  BY <1>1, Invariant, PTL

\* However the signal, the servers and the requests interleave, a process
\* that ends well has cut no grpc call.
THEOREM Drained == Spec => []GrpcDrained
<1>1. IInv => GrpcDrained
  BY DEF IInv
<1> QED
  BY <1>1, Invariant, PTL

=============================================================================
