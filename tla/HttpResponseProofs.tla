------------------------- MODULE HttpResponseProofs -------------------------
(***************************************************************************)
(* The safety properties of HttpResponse for every set of statuses and     *)
(* error codes, and for handlers that make any number of calls.            *)
(*                                                                         *)
(* The methods of the writer are operators on records of what the writer   *)
(* and net/http have; the lemmas say what they keep of such a record, and  *)
(* the proof of the invariant puts a call, or the recovery, in between.    *)
(***************************************************************************)
EXTENDS HttpResponse, FiniteSetTheorems, TLAPS

\* The records that the methods work on.
Records ==
  [ rw : [status : Nat, size : Nat, hooks : Seq(Hooks)],
    sent : [status : Nat, bytes : Nat],
    panics : BOOLEAN ]

\* The size is that of the body sent, and a status is set before any is sent.
Good(x) ==
  /\ x \in Records
  /\ x.rw.size = x.sent.bytes
  /\ x.sent.status # 0 => x.rw.status # 0

\* Some function given to Before panics.
HookPanics(x) == \E i \in 1 .. Len(x.rw.hooks) : x.rw.hooks[i] = "panic"

\* What a method makes of x: a panic can come only from a hook.
After(x, y) ==
  /\ Good(y)
  /\ y.rw.hooks = x.rw.hooks
  /\ y.panics => HookPanics(y)

\* What it makes of x when it sends a header, or a body as well.
AfterHeader(x, y) ==
  /\ After(x, y)
  /\ ~ y.panics => y.rw.status # 0 /\ y.sent.status # 0

AfterBody(x, y) ==
  /\ AfterHeader(x, y)
  /\ ~ y.panics => y.sent.bytes > 0

Positions == {"handler", "access", "recovery", "done", "recovered", "aborted"}

Typed ==
  /\ Writer \in Records
  /\ at \in Positions
  /\ calls \in Nat
  /\ logged \in Nat

IInv == Typed /\ SizeIsSent /\ WrittenIfSent /\ PanicAnswered

-----------------------------------------------------------------------------
(* Records *)

\* A record is made of the parts of its parts.
LEMMA RecordIs ==
  ASSUME NEW x \in Records
  PROVE  /\ x = [rw |-> x.rw, sent |-> x.sent, panics |-> x.panics]
         /\ x.rw = [status |-> x.rw.status, size |-> x.rw.size, hooks |-> x.rw.hooks]
         /\ x.sent = [status |-> x.sent.status, bytes |-> x.sent.bytes]
         /\ x.rw.status \in Nat /\ x.rw.size \in Nat /\ x.rw.hooks \in Seq(Hooks)
         /\ x.sent.status \in Nat /\ x.sent.bytes \in Nat
         /\ x.panics \in BOOLEAN
<1>1. /\ x = [rw |-> x.rw, sent |-> x.sent, panics |-> x.panics]
      /\ x.rw \in [status : Nat, size : Nat, hooks : Seq(Hooks)]
      /\ x.sent \in [status : Nat, bytes : Nat]
      /\ x.panics \in BOOLEAN
  BY DEF Records
<1>2. /\ x.rw = [status |-> x.rw.status, size |-> x.rw.size, hooks |-> x.rw.hooks]
      /\ x.rw.status \in Nat /\ x.rw.size \in Nat /\ x.rw.hooks \in Seq(Hooks)
  BY <1>1
<1>3. /\ x.sent = [status |-> x.sent.status, bytes |-> x.sent.bytes]
      /\ x.sent.status \in Nat /\ x.sent.bytes \in Nat
  BY <1>1
<1> QED
  BY <1>1, <1>2, <1>3

\* What the records of Good are built with.
Made(status, size, hooks, sentStatus, bytes, panics) ==
  [ rw |-> [status |-> status, size |-> size, hooks |-> hooks],
    sent |-> [status |-> sentStatus, bytes |-> bytes],
    panics |-> panics ]

\* Every record is made so, and what is made so of the right parts is a record.
LEMMA MadeIs ==
  /\ \A x \in Records :
       x = Made(x.rw.status, x.rw.size, x.rw.hooks, x.sent.status, x.sent.bytes, x.panics)
  /\ \A s, z, t, b \in Nat, hooks \in Seq(Hooks), p \in BOOLEAN :
       Made(s, z, hooks, t, b, p) \in Records
<1>1. \A x \in Records :
        x = Made(x.rw.status, x.rw.size, x.rw.hooks, x.sent.status, x.sent.bytes, x.panics)
  BY RecordIs DEF Made
<1>2. \A s, z, t, b \in Nat, hooks \in Seq(Hooks), p \in BOOLEAN :
        Made(s, z, hooks, t, b, p) \in Records
  BY DEF Made, Records
<1> QED
  BY <1>1, <1>2

\* The updates of records that the methods make.
LEMMA Updates ==
  ASSUME NEW x \in Records, NEW n, NEW len
  PROVE  LET s == x.rw.status  z == x.rw.size  h == x.rw.hooks
             t == x.sent.status  b == x.sent.bytes  p == x.panics
         IN  /\ [x EXCEPT !.rw.status = n] = Made(n, z, h, t, b, p)
             /\ [x EXCEPT !.rw.hooks = n] = Made(s, z, n, t, b, p)
             /\ [x EXCEPT !.panics = n] = Made(s, z, h, t, b, n)
             /\ NetHeader(x, n) = Made(s, z, h, IF t = 0 THEN n ELSE t, b, p)
             /\ Body(x, n, len) = Made(s, z + n, h, IF t = 0 THEN OK ELSE t, b + n, p)
<1> DEFINE s == x.rw.status
           z == x.rw.size
           h == x.rw.hooks
           t == x.sent.status
           b == x.sent.bytes
           p == x.panics
<1>1. x = Made(s, z, h, t, b, p)
  BY MadeIs
<1> HIDE DEF s, z, h, t, b, p
<1>2. [x EXCEPT !.rw.status = n] = Made(n, z, h, t, b, p)
  BY <1>1 DEF Made
<1>3. [x EXCEPT !.rw.hooks = n] = Made(s, z, n, t, b, p)
  BY <1>1 DEF Made
<1>4. [x EXCEPT !.panics = n] = Made(s, z, h, t, b, n)
  BY <1>1 DEF Made
<1>5. NetHeader(x, n) = Made(s, z, h, IF t = 0 THEN n ELSE t, b, p)
  BY <1>1 DEF Made, NetHeader
<1>6. NetWrite(x, n) = Made(s, z, h, IF t = 0 THEN OK ELSE t, b + n, p)
  BY <1>1 DEF Made, NetWrite
<1>7. Body(x, n, len) = Made(s, z + n, h, IF t = 0 THEN OK ELSE t, b + n, p)
  BY <1>6 DEF Made, Body
<1> QED
  BY <1>2, <1>3, <1>4, <1>5, <1>7 DEF s, z, h, t, b, p

-----------------------------------------------------------------------------
(* What the methods keep *)

\* The end of Write.
LEMMA BodyKeeps ==
  ASSUME NEW x, Good(x), x.rw.status # 0, NEW n \in Nat, NEW len
  PROVE  LET y == Body(x, n, len)
         IN  /\ Good(y) /\ y.rw.hooks = x.rw.hooks /\ y.panics = x.panics
             /\ y.rw.status = x.rw.status /\ y.sent.status # 0
             /\ y.sent.bytes = x.sent.bytes + n
<1> DEFINE y == Body(x, n, len)
           t == IF x.sent.status = 0 THEN OK ELSE x.sent.status
<1>1. x \in Records /\ x.rw.size = x.sent.bytes
  BY DEF Good
<1>2. y = Made(x.rw.status, x.rw.size + n, x.rw.hooks, t, x.sent.bytes + n, x.panics)
  BY <1>1, Updates
<1>3. /\ x.sent.status \in Nat /\ x.rw.status \in Nat /\ x.rw.hooks \in Seq(Hooks)
      /\ x.panics \in BOOLEAN /\ x.rw.size \in Nat /\ x.sent.bytes \in Nat
  BY <1>1, RecordIs
<1>4. t \in Nat /\ t # 0 /\ x.rw.size + n \in Nat /\ x.sent.bytes + n \in Nat
  BY <1>3 DEF OK
<1> HIDE DEF y, t
<1>5. y \in Records
  BY <1>2, <1>3, <1>4, MadeIs
<1> QED
  BY <1>1, <1>2, <1>4, <1>5 DEF Made, Good, y

\* net/http's WriteHeader.
LEMMA HeaderKeeps ==
  ASSUME NEW x, Good(x), x.rw.status # 0, NEW s \in Nat \ {0}
  PROVE  LET y == NetHeader(x, s)
         IN  /\ Good(y) /\ y.rw = x.rw /\ y.panics = x.panics
             /\ y.sent.status # 0 /\ y.sent.bytes = x.sent.bytes
<1> DEFINE y == NetHeader(x, s)
           t == IF x.sent.status = 0 THEN s ELSE x.sent.status
<1>1. x \in Records /\ x.rw.size = x.sent.bytes
  BY DEF Good
<1>2. y = Made(x.rw.status, x.rw.size, x.rw.hooks, t, x.sent.bytes, x.panics)
  BY <1>1, Updates
<1>3. x = Made(x.rw.status, x.rw.size, x.rw.hooks, x.sent.status, x.sent.bytes, x.panics)
  BY <1>1, MadeIs
<1>4. t \in Nat /\ t # 0
  BY <1>1, RecordIs
<1> HIDE DEF y, t
<1>5. y \in Records
  BY <1>1, <1>2, <1>4, RecordIs, MadeIs
<1> QED
  BY <1>1, <1>2, <1>3, <1>4, <1>5 DEF Made, Good, y

\* callBefore panics if one of the functions does, and keeps the status.
LEMMA callBeforeKeeps ==
  ASSUME NEW x, Good(x), ~ x.panics, x.rw.status # 0
  PROVE  LET y == callBefore(x)
         IN  /\ After(x, y) /\ y.rw.status = x.rw.status
             /\ y.panics <=> HookPanics(y)
<1> DEFINE h == x.rw.hooks
           p == \E i \in 1 .. Len(h) : h[i] = "panic"
           ran == {i \in 1 .. Len(h) : \A j \in i .. Len(h) : h[j] # "panic"}
           wrote == {i \in ran : h[i] = "write"}
           n == Cardinality(wrote)
           w == [x EXCEPT !.panics = p]
           y == callBefore(x)
<1>1. x \in Records /\ x.rw.size = x.sent.bytes /\ (x.sent.status # 0 => x.rw.status # 0)
  BY DEF Good
<1>2. y = IF n = 0 THEN w ELSE Body(w, n, n)
  BY DEF callBefore
<1>3. n \in Nat
  <2>1. Len(h) \in Int /\ 1 \in Int
    BY <1>1, RecordIs
  <2>2. IsFiniteSet(1 .. Len(h)) /\ wrote \in SUBSET (1 .. Len(h))
    BY <2>1, FS_Interval
  <2> QED
    BY <2>2, FS_Subset, FS_CardinalityType
<1>4. w = Made(x.rw.status, x.rw.size, h, x.sent.status, x.sent.bytes, p)
  BY <1>1, Updates
<1>5. Good(w) /\ w.rw.status = x.rw.status /\ w.rw.hooks = h /\ w.panics = p
  <2> HIDE DEF w
  <2>1. w \in Records
    BY <1>1, <1>4, RecordIs, MadeIs
  <2> QED
    BY <1>1, <1>4, <2>1 DEF Made, Good
<1> HIDE DEF w, n, y, p, h
<1>6. Good(y) /\ y.rw.status = x.rw.status /\ y.rw.hooks = h /\ y.panics = p
  BY <1>2, <1>3, <1>5, BodyKeeps
<1> QED
  BY <1>6 DEF After, HookPanics, y, p, h

LEMMA WriteHeaderKeeps ==
  ASSUME NEW x, Good(x), ~ x.panics, NEW s \in Nat \ {0}
  PROVE  AfterHeader(x, WriteHeader(x, s))
<1> DEFINE w == [x EXCEPT !.rw.status = s]
           y == callBefore(w)
<1>1. x \in Records /\ x.rw.size = x.sent.bytes
  BY DEF Good
<1>2. w = Made(s, x.rw.size, x.rw.hooks, x.sent.status, x.sent.bytes, x.panics)
  BY <1>1, Updates
<1>3. Good(w) /\ w.rw.status = s /\ w.rw.hooks = x.rw.hooks /\ ~ w.panics
  <2> HIDE DEF w
  <2>1. w \in Records
    BY <1>1, <1>2, RecordIs, MadeIs
  <2> QED
    BY <1>1, <1>2, <2>1 DEF Made, Good
<1> HIDE DEF w
<1>4. After(w, y) /\ y.rw.status = s
  BY <1>3, callBeforeKeeps
<1>5. WriteHeader(x, s) = IF y.panics THEN y ELSE NetHeader(y, s)
  BY DEF WriteHeader, w
<1> HIDE DEF y
<1>6. CASE y.panics
  BY <1>3, <1>4, <1>5, <1>6 DEF After, AfterHeader
<1>7. CASE ~ y.panics
  BY <1>3, <1>4, <1>5, <1>7, HeaderKeeps DEF After, AfterHeader
<1> QED
  BY <1>6, <1>7

\* What Write and Flush start with.
LEMMA ImplicitHeaderKeeps ==
  ASSUME NEW x, Good(x), ~ x.panics
  PROVE  /\ After(x, ImplicitHeader(x))
         /\ ~ ImplicitHeader(x).panics => ImplicitHeader(x).rw.status # 0
<1>1. OK \in Nat \ {0}
  BY DEF OK
<1>2. CASE Written(x)
  BY <1>2 DEF ImplicitHeader, Written, After
<1>3. CASE ~ Written(x)
  BY <1>1, <1>3, WriteHeaderKeeps DEF ImplicitHeader, AfterHeader
<1> QED
  BY <1>2, <1>3

LEMMA WriteKeeps ==
  ASSUME NEW x, Good(x), ~ x.panics, NEW n \in Nat, NEW len
  PROVE  /\ AfterHeader(x, Write(x, n, len))
         /\ n > 0 => AfterBody(x, Write(x, n, len))
<1> DEFINE y == ImplicitHeader(x)
<1>1. After(x, y) /\ (~ y.panics => y.rw.status # 0)
  BY ImplicitHeaderKeeps
<1>2. Write(x, n, len) = IF y.panics THEN y ELSE Body(y, n, len)
  BY DEF Write
<1> HIDE DEF y
<1>3. CASE y.panics
  BY <1>1, <1>2, <1>3 DEF After, AfterHeader, AfterBody
<1>4. CASE ~ y.panics
  <2> DEFINE z == Body(y, n, len)
  <2>1. /\ Good(z) /\ z.rw.hooks = y.rw.hooks /\ ~ z.panics
        /\ z.rw.status # 0 /\ z.sent.status # 0 /\ z.sent.bytes = y.sent.bytes + n
    BY <1>1, <1>4, BodyKeeps DEF After
  <2>2. y.sent.bytes \in Nat
    BY <1>1, RecordIs DEF After, Good
  <2> HIDE DEF z
  <2>3. n > 0 => z.sent.bytes > 0
    BY <2>1, <2>2
  <2> QED
    BY <1>1, <1>2, <1>4, <2>1, <2>3 DEF After, AfterHeader, AfterBody, z
<1> QED
  BY <1>3, <1>4

LEMMA FlushKeeps ==
  ASSUME NEW x, Good(x), ~ x.panics
  PROVE  AfterHeader(x, Flush(x))
<1> DEFINE y == ImplicitHeader(x)
<1>1. After(x, y) /\ (~ y.panics => y.rw.status # 0)
  BY ImplicitHeaderKeeps
<1>2. Flush(x) = IF y.panics THEN y ELSE NetHeader(y, OK)
  BY DEF Flush
<1>3. OK \in Nat \ {0}
  BY DEF OK
<1> HIDE DEF y
<1>4. CASE y.panics
  BY <1>1, <1>2, <1>4 DEF After, AfterHeader
<1>5. CASE ~ y.panics
  BY <1>1, <1>2, <1>3, <1>5, HeaderKeeps DEF After, AfterHeader
<1> QED
  BY <1>4, <1>5

LEMMA BeforeKeeps ==
  ASSUME NEW x, Good(x), ~ x.panics, NEW hook \in Hooks
  PROVE  Good(Before(x, hook)) /\ ~ Before(x, hook).panics
<1> DEFINE y == Before(x, hook)
<1>1. x \in Records /\ x.rw.size = x.sent.bytes /\ (x.sent.status # 0 => x.rw.status # 0)
  BY DEF Good
<1>2. y = Made(x.rw.status, x.rw.size, Append(x.rw.hooks, hook), x.sent.status, x.sent.bytes, x.panics)
  <2>1. y = [x EXCEPT !.rw.hooks = Append(x.rw.hooks, hook)]
    BY <1>1 DEF Before, Records
  <2> QED
    BY <1>1, <2>1, Updates
<1>3. Append(x.rw.hooks, hook) \in Seq(Hooks)
  <2>1. x.rw.hooks \in Seq(Hooks)
    BY <1>1, RecordIs
  <2> QED
    BY <2>1
<1> HIDE DEF y
<1>4. y \in Records
  BY <1>1, <1>2, <1>3, RecordIs, MadeIs
<1> QED
  BY <1>1, <1>2, <1>4 DEF Made, Good, y

\* A status and a body leave a body behind, unless a hook panics.
LEMMA SendKeeps ==
  ASSUME NEW x, Good(x), ~ x.panics, NEW s \in Nat \ {0}
  PROVE  AfterBody(x, Send(x, s))
<1> DEFINE y == WriteHeader(x, s)
<1>1. AfterHeader(x, y)
  BY WriteHeaderKeeps
<1>2. Send(x, s) = IF y.panics THEN y ELSE Write(y, 1, 1)
  BY DEF Send
<1> HIDE DEF y
<1>3. CASE y.panics
  BY <1>1, <1>2, <1>3 DEF After, AfterHeader, AfterBody
<1>4. CASE ~ y.panics
  <2>1. AfterBody(y, Write(y, 1, 1))
    BY <1>1, <1>4, WriteKeeps DEF AfterHeader, After
  <2> QED
    BY <1>1, <1>2, <1>4, <2>1 DEF After, AfterHeader, AfterBody
<1> QED
  BY <1>3, <1>4

LEMMA FailedKeeps ==
  ASSUME NEW x, Good(x), ~ x.panics, NEW code \in Nat
  PROVE  AfterBody(x, Failed(x, code))
<1>1. HttpCode(code) \in Nat \ {0}
  BY DEF HttpCode, OK
<1> QED
  BY <1>1, SendKeeps DEF Failed

-----------------------------------------------------------------------------
(* The invariant *)

\* A call of the handler, of what the methods may make of the writer.
LEMMA CallInv ==
  ASSUME IInv, NEW y, Good(y), Call(y)
  PROVE  IInv'
<1>1. /\ Writer' \in Records /\ SizeIsSent' /\ WrittenIfSent'
      /\ at' \in Positions /\ at' # "recovered" /\ at' # "aborted"
  <2>1. y \in Records /\ rw' = y.rw /\ sent' = y.sent
    BY DEF Good, Call
  <2>2. Writer' \in Records
    BY <2>1 DEF Writer, Records
  <2> QED
    BY <2>1, <2>2 DEF Good, Call, SizeIsSent, WrittenIfSent, Positions
<1>2. calls' \in Nat /\ logged' \in Nat
  BY DEF IInv, Typed, Call
<1> QED
  BY <1>1, <1>2 DEF IInv, Typed, PanicAnswered

\* The handler's record of the writer is good.
LEMMA WriterGood ==
  ASSUME IInv
  PROVE  Good(Writer) /\ ~ Writer.panics
  BY DEF IInv, Typed, SizeIsSent, WrittenIfSent, Good, Writer

\* The writer, the recovery and the access log keep the size and the status
\* of what was sent, and the recovery answers, whatever the handler does.
THEOREM Invariant == Spec => []IInv
<1>1. Init => IInv
  <2> SUFFICES ASSUME Init PROVE IInv
    OBVIOUS
  <2>1. Writer \in Records
    BY DEF Init, Writer, Records
  <2> QED
    BY <2>1 DEF Init, IInv, Typed, Positions, SizeIsSent, WrittenIfSent, PanicAnswered
<1>2. IInv /\ [Next]_vars => IInv'
  <2> SUFFICES ASSUME IInv, [Next]_vars PROVE IInv'
    OBVIOUS
  <2>1. Good(Writer) /\ ~ Writer.panics
    BY WriterGood
  <2>2. ASSUME NEW s \in Statuses, Call(WriteHeader(Writer, s)) PROVE IInv'
    <3>1. s \in Nat \ {0}
      BY ResponseAssumption
    <3>2. Good(WriteHeader(Writer, s))
      BY <2>1, <3>1, WriteHeaderKeeps DEF AfterHeader, After
    <3> QED
      BY <2>2, <3>2, CallInv
  <2>3. ASSUME NEW len \in 0 .. MaxSize, NEW n \in 0 .. len, Call(Write(Writer, n, len))
        PROVE  IInv'
    <3>1. n \in Nat
      BY ResponseAssumption
    <3>2. Good(Write(Writer, n, len))
      BY <2>1, <3>1, WriteKeeps DEF AfterHeader, After
    <3> QED
      BY <2>3, <3>2, CallInv
  <2>4. CASE Call(Flush(Writer))
    <3>1. Good(Flush(Writer))
      BY <2>1, FlushKeeps DEF AfterHeader, After
    <3> QED
      BY <2>4, <3>1, CallInv
  <2>5. ASSUME NEW hook \in Hooks, Call(Before(Writer, hook)) PROVE IInv'
    BY <2>1, <2>5, BeforeKeeps, CallInv
  <2>6. ASSUME NEW s \in {OK, InternalServerError}, Call(Send(Writer, s)) PROVE IInv'
    <3>1. s \in Nat \ {0}
      BY DEF OK, InternalServerError
    <3>2. Good(Send(Writer, s))
      BY <2>1, <3>1, SendKeeps DEF AfterBody, AfterHeader, After
    <3> QED
      BY <2>6, <3>2, CallInv
  <2>7. ASSUME NEW code \in Codes, Call(Failed(Writer, code)) PROVE IInv'
    <3>1. code \in Nat
      BY ResponseAssumption
    <3>2. Good(Failed(Writer, code))
      BY <2>1, <3>1, FailedKeeps DEF AfterBody, AfterHeader, After
    <3> QED
      BY <2>7, <3>2, CallInv
  <2>8. CASE Return \/ Panic \/ Access
    <3>1. /\ Writer' = Writer /\ rw' = rw /\ sent' = sent
          /\ at' \in {"access", "recovery", "done"}
          /\ calls' \in Nat /\ logged' \in Nat
      <4>1. rw.status \in Nat
        BY RecordIs DEF IInv, Typed, Writer
      <4> QED
        BY <2>8, <4>1 DEF Return, Panic, Access, IInv, Typed, Writer
    <3> QED
      BY <3>1 DEF IInv, Typed, Positions, SizeIsSent, WrittenIfSent, PanicAnswered
  <2>9. CASE Recover
    <3> DEFINE x == Failed(Writer, InternalServerError)
    <3>1. AfterBody(Writer, x)
      BY <2>1, FailedKeeps DEF InternalServerError
    <3>2. /\ rw' = x.rw /\ sent' = x.sent
          /\ at' = IF x.panics THEN "aborted" ELSE "recovered"
          /\ calls' = calls /\ logged' = logged
      BY <2>9 DEF Recover
    <3> HIDE DEF x
    <3>3. Writer' \in Records /\ SizeIsSent' /\ WrittenIfSent'
      <4>1. x \in Records /\ x.rw.size = x.sent.bytes /\ (x.sent.status # 0 => x.rw.status # 0)
        BY <3>1 DEF AfterBody, AfterHeader, After, Good
      <4> QED
        BY <3>2, <4>1 DEF Writer, Records, SizeIsSent, WrittenIfSent
    <3>4. PanicAnswered'
      BY <3>1, <3>2 DEF AfterBody, AfterHeader, After, HookPanics, PanicAnswered
    <3> QED
      BY <3>2, <3>3, <3>4 DEF IInv, Typed, Positions
  <2>10. CASE UNCHANGED vars
    BY <2>10 DEF vars, IInv, Typed, Writer, SizeIsSent, WrittenIfSent, PanicAnswered
  <2> QED
    BY <2>2, <2>3, <2>4, <2>5, <2>6, <2>7, <2>8, <2>9, <2>10 DEF Next
<1> QED
  BY <1>1, <1>2, PTL DEF Spec

\* Size() is the length of the body that was sent, and nothing is sent before
\* the writer has a status, so that Written() tells whether the client has got
\* a header: for any calls of the handler, short writes, hooks that write or
\* panic, and the recovery.
THEOREM SentRecorded == Spec => []SentIsRecorded
<1>1. IInv => SentIsRecorded
  BY DEF IInv, SentIsRecorded
<1> QED
  BY <1>1, Invariant, PTL

\* The recovery of a request that panicked has sent a status and a body, or
\* was aborted by a function given to Before.
THEOREM PanicIsAnswered == Spec => []PanicAnswered
<1>1. IInv => PanicAnswered
  BY DEF IInv
<1> QED
  BY <1>1, Invariant, PTL

=============================================================================
