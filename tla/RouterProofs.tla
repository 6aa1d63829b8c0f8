---------------------------- MODULE RouterProofs ----------------------------
(***************************************************************************)
(* What routers and entries may rely on although they share the arrays of  *)
(* their slices, for every number of routers, entries and calls.           *)
(*                                                                         *)
(* The lemmas about append come first: what it makes of the slice it is    *)
(* given, and of any other slice of the same array.                        *)
(***************************************************************************)
EXTENDS Router, SequenceTheorems, TLAPS

Arrays == Seq(Seq(Int))

Slice == [array : Nat, len : Nat, inherited : Seq(Int), own : Seq(Int)]

\* A slice of one of the arrays A, with as many elements as it was given.  An
\* array that has room behind the slice holds at least three.
Fits(A, s) ==
  /\ s \in Slice
  /\ s.array \in 0 .. Len(A)
  /\ s.len = Len(s.inherited) + Len(s.own)
  /\ s.array = 0 => s.len = 0
  /\ s.array # 0 => s.len <= Len(A[s.array]) /\ (s.len < Len(A[s.array]) => s.len >= 3)

\* The first three elements of s are the first three that it was given.
Three(A, s) ==
  \A k \in 1 .. 3 : k <= s.len => Elements(A, s)[k] = Given(s)[k]

\* All of them are.
Whole(A, s) == Elements(A, s) = Given(s)

-----------------------------------------------------------------------------
(* Slices *)

\* The elements of a slice, and what it was given.
LEMMA ElementsIs ==
  ASSUME NEW A \in Arrays, NEW s, Fits(A, s)
  PROVE  /\ Elements(A, s) \in Seq(Int) /\ Len(Elements(A, s)) = s.len
         /\ Given(s) \in Seq(Int) /\ Len(Given(s)) = s.len
         /\ \A k \in 1 .. s.len : s.array # 0 /\ Elements(A, s)[k] = A[s.array][k]
         /\ s.len \in Nat /\ s.array \in Nat /\ s.inherited \in Seq(Int) /\ s.own \in Seq(Int)
<1>1. s.len \in Nat /\ s.array \in Nat /\ s.inherited \in Seq(Int) /\ s.own \in Seq(Int)
  BY DEF Fits, Slice
<1>2. Given(s) \in Seq(Int) /\ Len(Given(s)) = s.len
  BY <1>1, ConcatProperties DEF Given, Fits
<1>3. CASE s.array = 0
  <2>1. Elements(A, s) = <<>> /\ s.len = 0
    BY <1>3 DEF Fits, Elements
  <2>2. <<>> \in Seq(Int) /\ Len(<<>>) = 0
    BY EmptySeq
  <2> QED
    BY <1>1, <1>2, <2>1, <2>2
<1>4. CASE s.array # 0
  <2>1. s.array \in 1 .. Len(A) /\ A[s.array] \in Seq(Int) /\ s.len <= Len(A[s.array])
    <3>1. Len(A) \in Nat /\ \A a \in 1 .. Len(A) : A[a] \in Seq(Int)
      BY DEF Arrays
    <3>2. s.array \in 1 .. Len(A)
      BY <1>1, <1>4, <3>1 DEF Fits
    <3> QED
      BY <1>4, <3>1, <3>2 DEF Fits
  <2> DEFINE a == A[s.array]
  <2>2. \A k \in 1 .. s.len : a[k] \in Int
    BY <1>1, <2>1
  <2>3. 1 \in Int /\ s.len \in Int /\ (IF 1 <= s.len THEN s.len - 1 + 1 ELSE 0) = s.len
    BY <1>1
  <2> HIDE DEF a
  <2>4. /\ SubSeq(a, 1, s.len) \in Seq(Int)
        /\ Len(SubSeq(a, 1, s.len)) = s.len
        /\ \A k \in 1 .. s.len - 1 + 1 : SubSeq(a, 1, s.len)[k] = a[1 + k - 1]
    BY <2>2, <2>3, SubSeqProperties
  <2>5. \A k \in 1 .. s.len : SubSeq(a, 1, s.len)[k] = a[k]
    BY <1>1, <2>4
  <2> QED
    BY <1>1, <1>2, <1>4, <2>4, <2>5 DEF Elements, a
<1> QED
  BY <1>3, <1>4

\* The nil slice, and a slice in another variable.
LEMMA NilFits ==
  ASSUME NEW A \in Arrays
  PROVE  Fits(A, Nil) /\ Three(A, Nil) /\ Whole(A, Nil)
<1>1. Nil.array = 0 /\ Nil.len = 0 /\ Nil.inherited = <<>> /\ Nil.own = <<>> /\ Len(A) \in Nat
  BY DEF Nil, Arrays
<1>2. Nil \in Slice
  BY DEF Nil, Slice
<1>3. Fits(A, Nil)
  BY <1>1, <1>2 DEF Fits
<1>4. Whole(A, Nil)
  BY <1>1 DEF Whole, Elements, Given
<1> QED
  BY <1>1, <1>3, <1>4 DEF Three

LEMMA ShareFits ==
  ASSUME NEW A \in Arrays, NEW s, Fits(A, s)
  PROVE  LET t == Share(A, s)
         IN  Fits(A, t) /\ Three(A, t) /\ Whole(A, t) /\ t.array = s.array
<1> DEFINE t == Share(A, s)
           e == Elements(A, s)
<1>1. e \in Seq(Int) /\ Len(e) = s.len
  BY ElementsIs
<1>2. t = [array |-> s.array, len |-> s.len, inherited |-> e, own |-> <<>>]
  <2>1. s = [array |-> s.array, len |-> s.len, inherited |-> s.inherited, own |-> s.own]
    BY DEF Fits, Slice
  <2> DEFINE u == [s EXCEPT !.inherited = e]
  <2>2. u = [array |-> s.array, len |-> s.len, inherited |-> e, own |-> s.own]
    <3> HIDE DEF e
    <3> QED
      BY DEF Fits, Slice
  <2>3. [u EXCEPT !.own = <<>>] = [array |-> s.array, len |-> s.len, inherited |-> e, own |-> <<>>]
    <3> HIDE DEF u, e
    <3> QED
      BY <2>2
  <2>4. t = [u EXCEPT !.own = <<>>]
    BY Zenon DEF Share
  <2> QED
    BY <2>3, <2>4
<1>3. t \in Slice
  BY <1>1, <1>2 DEF Fits, Slice
<1> HIDE DEF t, e
<1>4. t.array = s.array /\ t.len = s.len /\ t.inherited = e /\ t.own = <<>>
  BY <1>2
<1>5. Fits(A, t)
  <2>1. s.len = Len(e) + Len(<<>>)
    BY <1>1 DEF Fits, Slice
  <2> QED
    BY <1>3, <1>4, <2>1 DEF Fits
<1>6. Whole(A, t)
  <2>1. Given(t) = e
    BY <1>1, <1>4, ConcatEmptySeq DEF Given
  <2>2. Elements(A, t) = e
    BY <1>4 DEF Elements, e
  <2> QED
    BY <2>1, <2>2 DEF Whole
<1>7. Three(A, t)
  BY <1>6 DEF Three, Whole
<1> QED
  BY <1>4, <1>5, <1>6, <1>7 DEF t

\* Whatever append does, the slice it returns holds what was there and then
\* the values; a new array that has room holds at least three.
LEMMA AppendedIs ==
  ASSUME NEW A \in Arrays, NEW s, Fits(A, s), NEW v \in Seq(Int)
  PROVE  LET A2 == ArraysAfter(A, s, v)
             s2 == Appended(A, s, v)
         IN  /\ A2 \in Arrays /\ Fits(A2, s2)
             /\ Elements(A2, s2) = Elements(A, s) \o v
             /\ Given(s2) = Given(s) \o v
             /\ s2.array = s.array \/ s2.array = Len(A) + 1
             /\ s2.array = s.array => s.len + Len(v) <= Cap(A, s)
<1> DEFINE A2 == ArraysAfter(A, s, v)
           s2 == Appended(A, s, v)
           e == Elements(A, s)
           n == Len(v)
           need == s.len + n
           old == e \o v
           room == HasRoom(A, s, n)
           cap == Cap(A, s)
<1>1. /\ e \in Seq(Int) /\ Len(e) = s.len /\ Given(s) \in Seq(Int)
      /\ s.len \in Nat /\ s.array \in Nat /\ s.inherited \in Seq(Int) /\ s.own \in Seq(Int)
      /\ n \in Nat /\ need \in Nat /\ Len(A) \in Nat
  BY ElementsIs DEF Arrays
<1>2. /\ old \in Seq(Int) /\ Len(old) = need
      /\ \A k \in 1 .. need : old[k] = IF k <= s.len THEN e[k] ELSE v[k - s.len]
  <2>1. /\ e \o v \in Seq(Int) /\ Len(e \o v) = Len(e) + Len(v)
        /\ \A k \in 1 .. Len(e) + Len(v) : (e \o v)[k] = IF k <= Len(e) THEN e[k] ELSE v[k - Len(e)]
    <3> HIDE DEF e
    <3> QED
      BY <1>1, ConcatProperties
  <2>2. Len(e) + Len(v) = need
    BY <1>1
  <2> HIDE DEF e, need
  <2> QED
    BY <1>1, <2>1, <2>2
<1>3. /\ s2.array = IF room THEN s.array ELSE Len(A) + 1
      /\ s2.len = need /\ s2.inherited = s.inherited /\ s2.own = s.own \o v
      /\ s2 = [array |-> s2.array, len |-> s2.len, inherited |-> s2.inherited, own |-> s2.own]
  BY DEF Appended
<1>4. s2.own \in Seq(Int) /\ Len(s2.own) = Len(s.own) + n
  BY <1>1, <1>3, ConcatProperties
<1>5. Given(s2) = Given(s) \o v
  <2>1. (s.inherited \o s.own) \o v = s.inherited \o (s.own \o v)
    <3>1. \A x, y, z \in Seq(Int) : (x \o y) \o z = x \o (y \o z)
      BY ConcatAssociative
    <3>2. s.inherited \in Seq(Int) /\ s.own \in Seq(Int) /\ v \in Seq(Int)
      BY <1>1
    <3> QED
      BY <3>1, <3>2
  <2> HIDE DEF s2
  <2> QED
    BY <1>3, <2>1 DEF Given
<1>6. need = Len(s2.inherited) + Len(s2.own)
  <2>1. Len(s.inherited) \in Nat /\ Len(s.own) \in Nat
    BY <1>1, LenProperties
  <2>2. s.len = Len(s.inherited) + Len(s.own)
    BY DEF Fits
  <2>3. need = s.len + n
    OBVIOUS
  <2> HIDE DEF s2, need, n
  <2>4. Len(s2.own) = Len(s.own) + n
    BY <1>4
  <2>5. s2.inherited = s.inherited
    BY <1>3
  <2>6. n \in Nat
    BY <1>1
  <2>7. \A i, o, k \in Nat : (i + o) + k = i + (o + k)
    OBVIOUS
  <2>8. (Len(s.inherited) + Len(s.own)) + n = Len(s.inherited) + (Len(s.own) + n)
    BY <2>1, <2>6, <2>7, Zenon
  <2> QED
    BY <2>2, <2>3, <2>4, <2>5, <2>8, Zenon
<1> HIDE DEF s2, e, n, need, old, room, cap
<1>7. s2 \in Slice
  <2>1. s2.array \in Nat
    BY <1>1, <1>3
  <2> QED
    BY <1>1, <1>3, <1>4, <2>1 DEF Slice
<1>8. cap \in Nat /\ (s.array = 0 => cap = 0) /\ (s.array # 0 => cap = Len(A[s.array]))
  <2>1. CASE s.array = 0
    BY <2>1 DEF cap, Cap
  <2>2. CASE s.array # 0
    <3>1. s.array \in 1 .. Len(A)
      BY <1>1, <2>2 DEF Fits
    <3>2. A[s.array] \in Seq(Int)
      BY <3>1 DEF Arrays
    <3> QED
      BY <2>2, <3>2 DEF cap, Cap
  <2> QED
    BY <2>1, <2>2
<1>9. room <=> need <= cap
  BY DEF room, HasRoom, need, cap, n
\* The three ways of append.
<1>10. CASE room /\ v = <<>>
  <2>1. n = 0 /\ need = s.len
    BY <1>1, <1>10 DEF n, need
  <2>2. A2 = A
    BY <1>10 DEF ArraysAfter, room, n
  <2>3. old = e
    BY <1>1, <1>10, ConcatEmptySeq DEF old
  <2>4. Elements(A, s2) = e
    BY <1>3, <1>10, <2>1 DEF Elements, e
  <2>5. Fits(A, s2)
    BY <1>3, <1>6, <1>7, <1>10, <2>1 DEF Fits
  <2> QED
    BY <1>3, <1>5, <1>9, <1>10, <2>2, <2>3, <2>4, <2>5 DEF s2, old, e, n, need, cap
<1>11. CASE room /\ v # <<>>
  <2>1. n > 0 /\ s.array # 0 /\ s.array \in 1 .. Len(A)
    <3>1. n > 0
      BY <1>1, <1>11, EmptySeq DEF n
    <3>2. s.array # 0
      BY <1>1, <1>8, <1>9, <1>11, <3>1 DEF need
    <3> QED
      BY <1>1, <3>1, <3>2 DEF Fits
  <2> DEFINE a == A[s.array]
             a2 == [k \in DOMAIN a |-> IF k \in s.len + 1 .. need THEN old[k] ELSE a[k]]
  <2>2. a \in Seq(Int) /\ Len(a) = cap /\ DOMAIN a = 1 .. cap
    BY <1>8, <2>1 DEF Arrays
  <2>3. A2 = [A EXCEPT ![s.array] = a2]
    BY <1>11, <2>1 DEF ArraysAfter, room, n, need, old, e, Arrays
  <2>4. \A k \in 1 .. cap : a2[k] \in Int
    BY <1>1, <1>2, <2>2
  <2>5. a2 \in [1 .. cap -> Int]
    BY <2>2, <2>4
  <2> HIDE DEF a2
  <2>6. a2 \in Seq(Int) /\ Len(a2) = cap
    BY <1>8, <2>5
  <2>7. A2 \in Arrays /\ Len(A2) = Len(A) /\ A2[s.array] = a2
    BY <2>1, <2>3, <2>6, ExceptSeq DEF Arrays
  <2>8. \A k \in 1 .. need : a2[k] = old[k]
    <3> SUFFICES ASSUME NEW k \in 1 .. need PROVE a2[k] = old[k]
      OBVIOUS
    <3>1. k \in 1 .. cap
      BY <1>1, <1>8, <1>9, <1>11
    <3>2. CASE k \in s.len + 1 .. need
      BY <2>2, <3>1, <3>2 DEF a2
    <3>3. CASE k \notin s.len + 1 .. need
      <4>1. k \in 1 .. s.len
        BY <1>1, <3>3
      <4>2. e[k] = a[k]
        BY <4>1, ElementsIs DEF e, a
      <4> QED
        <5>1. a2[k] = a[k]
          BY <2>2, <3>1, <3>3 DEF a2
        <5>2. old[k] = e[k]
          BY <1>1, <1>2, <4>1
        <5> QED
          BY <4>2, <5>1, <5>2
    <3> QED
      BY <3>2, <3>3
  <2>9. Fits(A2, s2)
    <3>1. s2.array = s.array /\ s2.len = need /\ need <= cap
      BY <1>3, <1>9, <1>11
    <3>2. need < cap => need >= 3
      <4>1. s.len < cap
        BY <1>1, <1>8, <2>1, <3>1 DEF need
      <4>2. s.len >= 3
        BY <1>8, <2>1, <4>1 DEF Fits
      <4> QED
        BY <1>1, <4>2 DEF need
    <3>3. s2.array \in 0 .. Len(A2)
      BY <1>1, <2>1, <2>7, <3>1
    <3> QED
      BY <1>3, <1>6, <1>7, <2>1, <2>6, <2>7, <3>1, <3>2, <3>3 DEF Fits
  <2>10. Elements(A2, s2) = old
    <3>1. Elements(A2, s2) \in Seq(Int) /\ Len(Elements(A2, s2)) = need
          /\ \A k \in 1 .. need : Elements(A2, s2)[k] = A2[s2.array][k]
      BY <1>3, <2>7, <2>9, ElementsIs
    <3>2. \A k \in 1 .. need : Elements(A2, s2)[k] = old[k]
      BY <1>3, <1>11, <2>7, <2>8, <3>1
    <3> QED
      BY <1>2, <3>1, <3>2, SeqEqual
  <2> QED
    BY <1>3, <1>5, <1>9, <1>11, <2>7, <2>9, <2>10 DEF s2, old, e, n, need, cap
<1>12. CASE ~ room
  <2> DEFINE size == Grow(cap, need)
             a2 == [k \in 1 .. size |-> IF k <= need THEN old[k] ELSE Unset]
  <2>1. need > cap /\ size \in Nat /\ size >= need
    BY <1>1, <1>8, <1>9, <1>12 DEF Grow
  <2>2. size > need => need >= 3
    <3>1. size > need => size = 2 * cap /\ need < 2 * cap
      BY <1>1, <1>8, <2>1 DEF Grow
    <3>2. /\ s.array = 0 => s.len = 0
          /\ s.array # 0 => s.len <= Len(A[s.array]) /\ (s.len < Len(A[s.array]) => s.len >= 3)
      BY DEF Fits
    <3>3. s.len <= cap /\ (s.len < cap => s.len >= 3)
      BY <1>1, <1>8, <3>2
    <3>4. ~ (s.len < cap) => s.len = cap
      BY <1>1, <1>8, <3>3
    <3>5. need >= s.len
      BY <1>1 DEF need
    <3> HIDE DEF size
    <3> QED
      BY <1>1, <1>8, <2>1, <3>1, <3>3, <3>4, <3>5
  <2>3. A2 = Append(A, a2)
    BY <1>12 DEF ArraysAfter, room, n, need, old, e, cap
  <2> HIDE DEF size
  <2>4. \A k \in 1 .. size : a2[k] \in Int
    BY <1>1, <1>2, <2>1 DEF Unset
  <2>5. a2 \in [1 .. size -> Int]
    BY <2>4
  <2>51. \A k \in 1 .. need : a2[k] = old[k]
    <3>1. \A k \in 1 .. need : k \in 1 .. size /\ k <= need
      BY <1>1, <2>1
    <3> QED
      BY <3>1
  <2> HIDE DEF a2
  <2>6. a2 \in Seq(Int) /\ Len(a2) = size
    BY <2>1, <2>5
  <2>7. A2 \in Arrays /\ Len(A2) = Len(A) + 1 /\ A2[Len(A) + 1] = a2
    BY <2>3, <2>6 DEF Arrays
  <2>8. s2.array = Len(A) + 1 /\ s2.len = need
    BY <1>3, <1>12
  <2>9. Fits(A2, s2)
    <3>1. s2.array \in 0 .. Len(A2) /\ s2.array # 0
      BY <1>1, <2>7, <2>8
    <3> QED
      BY <1>3, <1>6, <1>7, <2>1, <2>2, <2>6, <2>7, <2>8, <3>1 DEF Fits
  <2>10. Elements(A2, s2) = old
    <3>1. Elements(A2, s2) \in Seq(Int) /\ Len(Elements(A2, s2)) = need
          /\ \A k \in 1 .. need : Elements(A2, s2)[k] = A2[s2.array][k]
      BY <2>7, <2>8, <2>9, ElementsIs
    <3>2. \A k \in 1 .. need : Elements(A2, s2)[k] = old[k]
      BY <2>51, <2>7, <2>8, <3>1
    <3> QED
      BY <1>2, <3>1, <3>2, SeqEqual
  <2>11. s2.array # s.array
    BY <1>1, <2>8 DEF Fits
  <2> QED
    BY <1>5, <2>7, <2>8, <2>9, <2>10, <2>11 DEF s2, old, e
<1> QED
  BY <1>10, <1>11, <1>12

\* Another slice keeps its length and its first three elements; all of them if
\* it views another array, or append took a new one.
LEMMA OthersKept ==
  ASSUME NEW A \in Arrays, NEW s, Fits(A, s), NEW v \in Seq(Int), NEW t, Fits(A, t)
  PROVE  LET A2 == ArraysAfter(A, s, v)
         IN  /\ Fits(A2, t)
             /\ Three(A, t) => Three(A2, t)
             /\ (t.array = 0 \/ t.array # s.array) /\ Whole(A, t) => Whole(A2, t)
<1> DEFINE A2 == ArraysAfter(A, s, v)
           n == Len(v)
           need == s.len + n
           old == Elements(A, s) \o v
           a == A[s.array]
           a2 == [k \in DOMAIN a |-> IF k \in s.len + 1 .. need THEN old[k] ELSE a[k]]
<1>1. /\ A2 \in Arrays /\ Len(A) \in Nat /\ n \in Nat /\ s.len \in Nat /\ s.array \in Nat
      /\ t.len \in Nat /\ t.array \in Nat
  <2>1. A2 \in Arrays
    BY AppendedIs
  <2>2. s.len \in Nat /\ s.array \in Nat /\ t.len \in Nat /\ t.array \in Nat
    BY ElementsIs
  <2>3. Len(A) \in Nat /\ Len(v) \in Nat
    BY LenProperties DEF Arrays
  <2> QED
    BY <2>1, <2>2, <2>3
<1>2. /\ \/ A2 = A
         \/ /\ A2 = [A EXCEPT ![s.array] = a2] /\ n > 0 /\ need <= Cap(A, s)
         \/ \E x : A2 = Append(A, x)
  <2>1. v # <<>> => n > 0
    BY <1>1, EmptySeq
  <2>2. CASE ~ HasRoom(A, s, n)
    BY <2>2 DEF ArraysAfter
  <2>3. CASE HasRoom(A, s, n) /\ v = <<>>
    BY <2>3 DEF ArraysAfter
  <2>4. CASE HasRoom(A, s, n) /\ v # <<>>
    <3>1. A2 = [A EXCEPT ![s.array] = a2]
      <4>1. s.array \in 1 .. Len(A)
        <5>1. n > 0 /\ s.len + n <= Cap(A, s)
          BY <2>1, <2>4 DEF HasRoom
        <5>2. s.array # 0
          <6> HIDE DEF n
          <6> QED
            BY <1>1, <5>1 DEF Cap
        <5>3. s.array \in 0 .. Len(A)
          BY DEF Fits
        <5> QED
          BY <1>1, <5>2, <5>3
      <4> QED
        BY <2>4, <4>1 DEF ArraysAfter, Arrays
    <3> QED
      BY <2>1, <2>4, <3>1 DEF HasRoom
  <2> QED
    BY <2>2, <2>3, <2>4
<1> HIDE DEF A2, a2, n
\* The array that t views.
<1>3. t.array # 0 => t.array \in 1 .. Len(A)
  BY <1>1 DEF Fits
<1>4. ASSUME t.array # 0
      PROVE  /\ Len(A2) >= Len(A)
             /\ Len(A2[t.array]) = Len(A[t.array])
             /\ t.array # s.array => A2[t.array] = A[t.array]
             /\ \A k \in 1 .. 3 : k <= t.len => A2[t.array][k] = A[t.array][k]
  <2>1. CASE A2 = A
    BY <1>1, <2>1
  <2>2. CASE A2 = [A EXCEPT ![s.array] = a2] /\ n > 0 /\ need <= Cap(A, s)
    <3>1. s.array # 0 /\ s.array \in 1 .. Len(A) /\ Cap(A, s) = Len(a)
      <4>1. s.array # 0
        BY <1>1, <2>2 DEF Cap
      <4> QED
        BY <1>1, <4>1 DEF Fits, Cap
    <3>2. a \in Seq(Int) /\ DOMAIN a = 1 .. Len(a) /\ Len(a) \in Nat
      BY <3>1 DEF Arrays
    <3>3. a2 \in [1 .. Len(a) -> Int]
      <4>1. /\ old \in Seq(Int) /\ Len(old) = need
        <5> DEFINE e == Elements(A, s)
        <5>1. e \in Seq(Int) /\ Len(e) = s.len
          BY ElementsIs
        <5> HIDE DEF e
        <5>2. e \o v \in Seq(Int) /\ Len(e \o v) = Len(e) + Len(v)
          BY <5>1, ConcatProperties
        <5> QED
          BY <5>1, <5>2 DEF e, n
      <4>2. \A k \in 1 .. Len(a) : k \in s.len + 1 .. need => old[k] \in Int
        <5> HIDE DEF old
        <5>1. need \in Nat
          BY <1>1
        <5> HIDE DEF need
        <5>2. ASSUME NEW k \in 1 .. Len(a), k \in s.len + 1 .. need PROVE old[k] \in Int
          <6>1. k \in 1 .. Len(old)
            BY <1>1, <4>1, <5>1, <5>2
          <6> QED
            BY <4>1, <6>1, ElementOfSeq
        <5> QED
          BY <5>2
      <4> HIDE DEF old
      <4> QED
        BY <3>2, <4>2 DEF a2
    <3>4. a2 \in Seq(Int) /\ Len(a2) = Len(a)
      <4> HIDE DEF a
      <4> QED
        BY <3>2, <3>3
    <3>5. Len(A2) = Len(A) /\ A2[t.array] = IF t.array = s.array THEN a2 ELSE A[t.array]
      BY <1>3, <1>4, <2>2, <3>1, <3>4 DEF Arrays
    <3>6. s.len >= 3
      <4>1. s.len < Len(a)
        BY <1>1, <2>2, <3>1, <3>2
      <4> QED
        BY <3>1, <4>1 DEF Fits
    <3>7. \A k \in 1 .. 3 : k <= Len(a) => a2[k] = a[k]
      <4> SUFFICES ASSUME NEW k \in 1 .. 3, k <= Len(a) PROVE a2[k] = a[k]
        OBVIOUS
      <4>1. k \notin s.len + 1 .. need /\ k \in DOMAIN a
        BY <1>1, <3>2, <3>6
      <4> QED
        BY <4>1 DEF a2
    <3>8. t.len <= Len(A[t.array])
      BY <1>4 DEF Fits
    <3>9. CASE t.array = s.array
      <4>1. t.len <= Len(a)
        BY <3>8, <3>9
      <4>2. \A k \in 1 .. 3 : k <= t.len => k <= Len(a)
        BY <1>1, <3>2, <4>1
      <4> QED
        BY <1>1, <3>4, <3>5, <3>7, <3>9, <4>2
    <3>10. CASE t.array # s.array
      BY <1>1, <3>5, <3>10
    <3> QED
      BY <3>9, <3>10
  <2>3. ASSUME NEW x, A2 = Append(A, x)
        PROVE  Len(A2) >= Len(A) /\ A2[t.array] = A[t.array]
    BY <1>1, <1>3, <1>4, <2>3 DEF Arrays
  <2> QED
    BY <1>2, <2>1, <2>2, <2>3
<1>5. Fits(A2, t)
  <2>1. CASE t.array = 0
    <3>1. Len(A2) \in Nat
      BY <1>1, LenProperties DEF Arrays
    <3>2. t.array \in 0 .. Len(A2)
      BY <2>1, <3>1
    <3> QED
      BY <2>1, <3>2 DEF Fits
  <2>2. CASE t.array # 0
    <3>1. t.array \in 0 .. Len(A2)
      BY <1>1, <1>3, <1>4, <2>2 DEF Arrays
    <3> QED
      BY <1>4, <2>2, <3>1 DEF Fits
  <2> QED
    BY <2>1, <2>2
<1>6. ASSUME Three(A, t) PROVE Three(A2, t)
  <2> SUFFICES ASSUME NEW k \in 1 .. 3, k <= t.len
               PROVE  Elements(A2, t)[k] = Given(t)[k]
    BY DEF Three
  <2>1. k \in 1 .. t.len
    BY <1>1
  <2>2. t.array # 0 /\ Elements(A, t)[k] = A[t.array][k] /\ Elements(A2, t)[k] = A2[t.array][k]
    BY <1>1, <1>5, <2>1, ElementsIs
  <2> QED
    BY <1>4, <1>6, <2>2 DEF Three
<1>7. ASSUME t.array = 0 \/ t.array # s.array, Whole(A, t) PROVE Whole(A2, t)
  <2>1. CASE t.array = 0
    BY <1>7, <2>1 DEF Whole, Elements
  <2>2. CASE t.array # 0
    BY <1>4, <1>7, <2>2 DEF Whole, Elements
  <2> QED
    BY <2>1, <2>2
<1> QED
  BY <1>5, <1>6, <1>7 DEF A2


\* Append loses none of the first three elements, and nothing of a slice that
\* holds all it was given.
LEMMA AppendedKeeps ==
  ASSUME NEW A \in Arrays, NEW s, Fits(A, s), NEW v \in Seq(Int)
  PROVE  LET A2 == ArraysAfter(A, s, v)
             s2 == Appended(A, s, v)
         IN  /\ Three(A, s) => Three(A2, s2)
             /\ Whole(A, s) => Whole(A2, s2)
<1> DEFINE A2 == ArraysAfter(A, s, v)
           s2 == Appended(A, s, v)
           e == Elements(A, s)
           g == Given(s)
<1>1. e \in Seq(Int) /\ g \in Seq(Int) /\ Len(e) = s.len /\ Len(g) = s.len /\ s.len \in Nat
  BY ElementsIs
<1>2. Elements(A2, s2) = e \o v /\ Given(s2) = g \o v
  BY AppendedIs
<1>3. s2.len = s.len + Len(v) /\ Len(v) \in Nat
  BY DEF Appended
<1> HIDE DEF A2, s2, e, g
<1>4. \A k \in 1 .. s.len + Len(v) :
        /\ (e \o v)[k] = IF k <= s.len THEN e[k] ELSE v[k - s.len]
        /\ (g \o v)[k] = IF k <= s.len THEN g[k] ELSE v[k - s.len]
  <2>1. \A k \in 1 .. Len(e) + Len(v) :
          (e \o v)[k] = IF k <= Len(e) THEN e[k] ELSE v[k - Len(e)]
    BY <1>1, ConcatProperties
  <2>2. \A k \in 1 .. Len(g) + Len(v) :
          (g \o v)[k] = IF k <= Len(g) THEN g[k] ELSE v[k - Len(g)]
    BY <1>1, ConcatProperties
  <2> QED
    BY <1>1, <2>1, <2>2
<1>5. ASSUME Three(A, s) PROVE Three(A2, s2)
  <2> SUFFICES ASSUME NEW k \in 1 .. 3, k <= s2.len
               PROVE  Elements(A2, s2)[k] = Given(s2)[k]
    BY DEF Three
  <2>1. k \in 1 .. s.len + Len(v)
    BY <1>1, <1>3
  <2>2. k <= s.len => e[k] = g[k]
    BY <1>5 DEF Three, e, g
  <2> QED
    BY <1>2, <1>4, <2>1, <2>2
<1>6. ASSUME Whole(A, s) PROVE Whole(A2, s2)
  BY <1>2, <1>6 DEF Whole, e, g
<1> QED
  BY <1>5, <1>6 DEF A2, s2

-----------------------------------------------------------------------------
(* The invariant *)

Segments == {Base} \cup Paths

RouterRecords ==
  [ basePath : Seq(Segments), resourceBasePath : Seq(Segments), flags : [Flags -> BOOLEAN],
    middlewareChain : Slice, labels : Slice, allow : Slice ]

EntryRecords ==
  [ path : Seq(Segments), flags : [Flags -> BOOLEAN], allow : Slice,
    labels : Seq(Int), chain : Seq(Int) ]

TypeOK ==
  /\ arrays \in Arrays
  /\ routers \in Seq(RouterRecords) /\ routers # <<>>
  /\ entries \in Seq(EntryRecords)
  /\ calls \in Nat /\ given \in Nat /\ panicked \in BOOLEAN

RootOwners == {<<"router", Root, "middlewareChain">>, <<"router", Root, "labels">>}

\* Every slice views one of the arrays and has kept its first three elements.
SlicesFit == \A o \in Owners : Fits(arrays, SliceOf(o)) /\ Three(arrays, SliceOf(o))

\* The middleware and the labels of the root have arrays of their own, and
\* with them all of their elements.
RootAlone ==
  \A p \in RootOwners :
    /\ Whole(arrays, SliceOf(p))
    /\ \A o \in Owners : o # p /\ SliceOf(p).array # 0 => SliceOf(o).array # SliceOf(p).array

Inv == TypeOK /\ SlicesFit /\ RootAlone

\* A slice for an owner that has none yet: nil, or one assigned from an owner
\* other than the root's middleware and labels.
Assigned(o, x) ==
  /\ o \notin RootOwners
  /\ x = Nil \/ \E p \in Owners \ RootOwners : x = Share(arrays, SliceOf(p))

LEMMA AssignedIs ==
  ASSUME Inv, NEW o, NEW x, Assigned(o, x)
  PROVE  /\ Fits(arrays, x) /\ Three(arrays, x) /\ o \notin RootOwners
         /\ x.array # 0 => \E p \in Owners \ RootOwners : x.array = SliceOf(p).array
<1>1. arrays \in Arrays
  BY DEF Inv, TypeOK
<1>2. CASE x = Nil
  BY <1>1, <1>2, NilFits DEF Assigned, Nil
<1>3. ASSUME NEW p \in Owners \ RootOwners, x = Share(arrays, SliceOf(p))
      PROVE  Fits(arrays, x) /\ Three(arrays, x) /\ x.array = SliceOf(p).array
  <2>1. Fits(arrays, SliceOf(p))
    BY DEF Inv, SlicesFit
  <2> QED
    BY <1>1, <1>3, <2>1, ShareFits
<1> QED
  BY <1>2, <1>3 DEF Assigned

\* Nothing is appended: the arrays stay, owners keep their slices, and new
\* ones are assigned theirs.
LEMMA Quiet ==
  ASSUME Inv, arrays' = arrays, RootOwners \subseteq Owners',
         \A o \in Owners' : \/ o \in Owners /\ SliceOf(o)' = SliceOf(o)
                           \/ Assigned(o, SliceOf(o)')
  PROVE  SlicesFit' /\ RootAlone'
<1>1. ASSUME NEW o \in Owners'
      PROVE  /\ Fits(arrays, SliceOf(o)') /\ Three(arrays, SliceOf(o)')
             /\ \A p \in RootOwners :
                  o # p /\ SliceOf(p).array # 0 => SliceOf(o)'.array # SliceOf(p).array
  <2>1. CASE o \in Owners /\ SliceOf(o)' = SliceOf(o)
    BY <2>1 DEF Inv, SlicesFit, RootAlone
  <2>2. CASE Assigned(o, SliceOf(o)')
    BY <2>2, AssignedIs DEF Inv, RootAlone
  <2> QED
    BY <1>1, <2>1, <2>2
<1>2. ASSUME NEW p \in RootOwners PROVE SliceOf(p)' = SliceOf(p)
  BY <1>2 DEF Assigned
<1> QED
  BY <1>1, <1>2 DEF SlicesFit, RootAlone, Inv

\* Values are appended to a slice s, which becomes owner q's: it was q's
\* before, or it views the array of an owner other than the root's middleware
\* and labels.
LEMMA Giving ==
  ASSUME Inv, RootOwners \subseteq Owners',
         NEW s, Fits(arrays, s), Three(arrays, s), NEW v \in Seq(Int),
         arrays' = ArraysAfter(arrays, s, v),
         NEW q, SliceOf(q)' = Appended(arrays, s, v),
         q \in RootOwners => q \in Owners /\ s = SliceOf(q),
         q \notin RootOwners /\ s.array # 0 =>
           \E p \in Owners \ RootOwners : s.array = SliceOf(p).array,
         \A o \in Owners' : o # q => \/ o \in Owners /\ SliceOf(o)' = SliceOf(o)
                                    \/ Assigned(o, SliceOf(o)')
  PROVE  arrays' \in Arrays /\ SlicesFit' /\ RootAlone'
<1> DEFINE s2 == Appended(arrays, s, v)
           A2 == ArraysAfter(arrays, s, v)
<1>1. arrays \in Arrays /\ Len(arrays) \in Nat
  BY LenProperties DEF Inv, TypeOK, Arrays
<1>2. /\ A2 \in Arrays /\ Fits(A2, s2)
      /\ s2.array = s.array \/ s2.array = Len(arrays) + 1
  BY <1>1, AppendedIs
<1>3. Three(A2, s2) /\ (Whole(arrays, s) => Whole(A2, s2))
  BY <1>1, AppendedKeeps
<1> HIDE DEF s2, A2
<1>4. arrays' = A2 /\ SliceOf(q)' = s2
  BY DEF A2, s2
\* What the other owners have was there before.
<1>5. ASSUME NEW o \in Owners', o # q
      PROVE  /\ Fits(arrays, SliceOf(o)') /\ Three(arrays, SliceOf(o)')
             /\ \A p \in RootOwners :
                  o # p /\ SliceOf(p).array # 0 => SliceOf(o)'.array # SliceOf(p).array
  <2>1. CASE o \in Owners /\ SliceOf(o)' = SliceOf(o)
    BY <2>1 DEF Inv, SlicesFit, RootAlone
  <2>2. CASE Assigned(o, SliceOf(o)')
    BY <2>2, AssignedIs DEF Inv, RootAlone
  <2> QED
    BY <1>5, <2>1, <2>2
<1>6. SlicesFit'
  <2> SUFFICES ASSUME NEW o \in Owners'
               PROVE  Fits(A2, SliceOf(o)') /\ Three(A2, SliceOf(o)')
    BY <1>4 DEF SlicesFit
  <2>1. CASE o = q
    BY <1>2, <1>3, <1>4, <2>1
  <2>2. CASE o # q
    BY <1>1, <1>5, <2>2, OthersKept DEF A2
  <2> QED
    BY <2>1, <2>2
<1>7. ASSUME NEW p \in RootOwners, p # q PROVE SliceOf(p)' = SliceOf(p) /\ p \in Owners
  BY <1>7 DEF Assigned
\* s views the array of no other owner that stands alone.
<1>8. ASSUME NEW p \in RootOwners, p \in Owners, p # q, SliceOf(p).array # 0
      PROVE  s.array # SliceOf(p).array
  <2>1. CASE q \in RootOwners
    BY <1>8, <2>1 DEF Inv, RootAlone
  <2>2. CASE q \notin RootOwners
    BY <1>8, <2>2 DEF Inv, RootAlone
  <2> QED
    BY <2>1, <2>2
<1>9. ASSUME NEW o, Fits(arrays, o) PROVE o.array \in Nat /\ o.array # Len(arrays) + 1
  BY <1>1, <1>9 DEF Fits, Slice
<1>10. ASSUME NEW p \in RootOwners
       PROVE  /\ Whole(A2, SliceOf(p)')
              /\ \A o \in Owners' : o # p /\ SliceOf(p)'.array # 0 =>
                   SliceOf(o)'.array # SliceOf(p)'.array
  <2>1. CASE p = q
    <3>1. s = SliceOf(p) /\ p \in Owners
      BY <2>1
    <3>2. Whole(A2, s2)
      BY <1>3, <3>1 DEF Inv, RootAlone
    <3>3. ASSUME NEW o \in Owners', o # p, s2.array # 0 PROVE SliceOf(o)'.array # s2.array
      <4>1. Fits(arrays, SliceOf(o)')
        BY <1>5, <2>1, <3>3
      <4>2. s.array # 0 => SliceOf(o)'.array # s.array
        BY <1>5, <2>1, <3>1, <3>3
      <4> QED
        BY <1>2, <1>9, <3>3, <4>1, <4>2
    <3> QED
      BY <1>4, <2>1, <3>2, <3>3
  <2>2. CASE p # q
    <3>1. SliceOf(p)' = SliceOf(p) /\ p \in Owners /\ Fits(arrays, SliceOf(p))
          /\ Whole(arrays, SliceOf(p))
      BY <1>7, <2>2 DEF Inv, SlicesFit, RootAlone
    <3>2. Whole(A2, SliceOf(p))
      BY <1>1, <1>8, <2>2, <3>1, OthersKept DEF A2
    <3>3. ASSUME NEW o \in Owners', o # p, SliceOf(p).array # 0
          PROVE  SliceOf(o)'.array # SliceOf(p).array
      <4>1. CASE o = q
        BY <1>2, <1>4, <1>8, <1>9, <2>2, <3>1, <3>3, <4>1
      <4>2. CASE o # q
        BY <1>5, <3>3, <4>2
      <4> QED
        BY <4>1, <4>2
    <3> QED
      BY <3>1, <3>2, <3>3
  <2> QED
    BY <2>1, <2>2
<1>11. RootAlone'
  BY <1>4, <1>10 DEF RootAlone
<1> QED
  BY <1>2, <1>4, <1>6, <1>11

-----------------------------------------------------------------------------
(* Owners *)

SliceFields == {"middlewareChain", "labels", "allow"}

LEMMA OwnersAre ==
  /\ \A r \in RouterIds, f \in SliceFields :
       <<"router", r, f>> \in Owners /\ SliceOf(<<"router", r, f>>) = routers[r][f]
  /\ \A e \in EntryIds :
       <<"entry", e, "allow">> \in Owners /\ SliceOf(<<"entry", e, "allow">>) = entries[e].allow
  /\ \A o \in Owners :
       \/ \E r \in RouterIds, f \in SliceFields : o = <<"router", r, f>>
       \/ \E e \in EntryIds : o = <<"entry", e, "allow">>
  BY DEF Owners, SliceOf, SliceFields

LEMMA NextOwnersAre ==
  /\ \A r \in RouterIds', f \in SliceFields :
       <<"router", r, f>> \in Owners' /\ SliceOf(<<"router", r, f>>)' = routers'[r][f]
  /\ \A e \in EntryIds' :
       /\ <<"entry", e, "allow">> \in Owners'
       /\ SliceOf(<<"entry", e, "allow">>)' = entries'[e].allow
  /\ \A o \in Owners' :
       \/ \E r \in RouterIds', f \in SliceFields : o = <<"router", r, f>>
       \/ \E e \in EntryIds' : o = <<"entry", e, "allow">>
  BY DEF Owners, SliceOf, SliceFields

\* The root's middleware and labels are always owners.
LEMMA RootOwns ==
  ASSUME TypeOK
  PROVE  RootOwners \subseteq Owners
<1>1. Root \in RouterIds
  BY EmptySeq DEF TypeOK, Root, RouterIds
<1> QED
  BY <1>1, OwnersAre DEF RootOwners, SliceFields

LEMMA NextRootOwns ==
  ASSUME TypeOK'
  PROVE  RootOwners \subseteq Owners'
<1>1. Root \in RouterIds'
  BY EmptySeq DEF TypeOK, Root, RouterIds
<1> QED
  BY <1>1, NextOwnersAre DEF RootOwners, SliceFields

LEMMA RouterSlices ==
  ASSUME TypeOK, NEW r \in RouterIds, NEW f \in SliceFields
  PROVE  routers[r] \in RouterRecords /\ routers[r][f] \in Slice
<1>1. routers[r] \in RouterRecords
  BY ElementOfSeq DEF TypeOK, RouterIds
<1> QED
  BY <1>1 DEF RouterRecords, SliceFields

-----------------------------------------------------------------------------
(* Steps *)

LEMMA FreshIs ==
  ASSUME TypeOK, NEW n \in Nat
  PROVE  Fresh(n) \in Seq(Int) /\ Len(Fresh(n)) = n
<1>1. \A k \in 1 .. n : given + k \in Int
  BY DEF TypeOK
<1> QED
  BY <1>1 DEF Fresh

LEMMA CalledIs ==
  ASSUME TypeOK, NEW n \in Nat, Called(n)
  PROVE  calls' \in Nat /\ given' \in Nat
BY DEF TypeOK, Called

\* Use, Allow and SetLabel.
LEMMA GiveKeeps ==
  ASSUME Inv, NEW r \in RouterIds, NEW field \in SliceFields, NEW n \in Nat,
         Called(n), Give(r, field, n)
  PROVE  Inv'
<1> DEFINE q == <<"router", r, field>>
           s == routers[r][field]
           x == Appended(arrays, s, Fresh(n))
<1>1. TypeOK /\ arrays \in Arrays /\ routers \in Seq(RouterRecords) /\ entries \in Seq(EntryRecords)
  BY DEF Inv, TypeOK
<1>2. Fresh(n) \in Seq(Int) /\ calls' \in Nat /\ given' \in Nat /\ panicked' \in BOOLEAN
  BY <1>1, FreshIs, CalledIs DEF Give, TypeOK
<1>3. q \in Owners /\ s = SliceOf(q) /\ Fits(arrays, s) /\ Three(arrays, s)
  <2>1. q \in Owners /\ s = SliceOf(q)
    BY OwnersAre
  <2> QED
    BY <2>1 DEF Inv, SlicesFit
<1>4. x \in Slice /\ ArraysAfter(arrays, s, Fresh(n)) \in Arrays
  BY <1>1, <1>2, <1>3, AppendedIs DEF Fits
<1>5. /\ routers' = [routers EXCEPT ![r][field] = x] /\ entries' = entries
      /\ arrays' = ArraysAfter(arrays, s, Fresh(n))
  BY DEF Give
<1> HIDE DEF x
<1>6. /\ routers' \in Seq(RouterRecords) /\ Len(routers') = Len(routers)
      /\ \A i \in RouterIds, f \in SliceFields :
           routers'[i][f] = IF i = r /\ f = field THEN x ELSE routers[i][f]
  <2> DEFINE rec == [routers[r] EXCEPT ![field] = x]
  <2>1. routers[r] \in RouterRecords
    BY <1>1, RouterSlices
  <2>2. rec \in RouterRecords
    BY <1>4, <2>1 DEF RouterRecords, SliceFields
  <2>3. \A f \in SliceFields : rec[f] = IF f = field THEN x ELSE routers[r][f]
    BY <2>1 DEF RouterRecords, SliceFields
  <2>4. routers' = [routers EXCEPT ![r] = rec]
    BY <1>5
  <2> HIDE DEF rec
  <2>5. /\ routers' \in Seq(RouterRecords) /\ Len(routers') = Len(routers)
        /\ \A i \in RouterIds : routers'[i] = IF i = r THEN rec ELSE routers[i]
    BY <1>1, <2>2, <2>4, ExceptSeq DEF RouterIds
  <2> QED
    BY <2>3, <2>5
<1>7. TypeOK'
  <2>1. routers' # <<>>
    BY <1>1, <1>6, EmptySeq DEF TypeOK
  <2> QED
    BY <1>1, <1>2, <1>4, <1>5, <1>6, <2>1 DEF TypeOK
<1>8. RouterIds' = RouterIds /\ EntryIds' = EntryIds
  BY <1>5, <1>6 DEF RouterIds, EntryIds
<1>9. SliceOf(q)' = x
  <2>1. SliceOf(q)' = routers'[r][field]
    BY <1>8, NextOwnersAre
  <2> QED
    BY <1>6, <2>1
<1>10. ASSUME NEW o \in Owners', o # q PROVE o \in Owners /\ SliceOf(o)' = SliceOf(o)
  <2>1. ASSUME NEW i \in RouterIds, NEW f \in SliceFields, o = <<"router", i, f>>
        PROVE  o \in Owners /\ SliceOf(o)' = SliceOf(o)
    <3>1. SliceOf(o)' = routers'[i][f] /\ SliceOf(o) = routers[i][f] /\ o \in Owners
      BY <1>8, <2>1, OwnersAre, NextOwnersAre
    <3>2. ~ (i = r /\ f = field)
      BY <1>10, <2>1
    <3> QED
      BY <1>6, <3>1, <3>2
  <2>2. ASSUME NEW e \in EntryIds, o = <<"entry", e, "allow">>
        PROVE  o \in Owners /\ SliceOf(o)' = SliceOf(o)
    BY <1>5, <1>8, <2>2, OwnersAre, NextOwnersAre
  <2> QED
    BY <1>8, <1>10, <2>1, <2>2, NextOwnersAre
<1>11. q \in RootOwners \/ (s.array # 0 => \E p \in Owners \ RootOwners : s.array = SliceOf(p).array)
  BY <1>3
<1> HIDE DEF q, s
<1>12. SlicesFit' /\ RootAlone'
  BY <1>2, <1>3, <1>5, <1>7, <1>9, <1>10, <1>11, NextRootOwns, Giving DEF x
<1> QED
  BY <1>7, <1>12 DEF Inv

\* The owners after a new router.
LEMMA DeriveIs ==
  ASSUME Inv, NEW sr \in RouterRecords, Derive(sr), arrays' \in Arrays,
         calls' \in Nat, given' \in Nat, NEW id, id = Len(routers) + 1
  PROVE  /\ TypeOK'
         /\ \A f \in SliceFields :
              /\ <<"router", id, f>> \notin RootOwners
              /\ <<"router", id, f>> \notin Owners
              /\ SliceOf(<<"router", id, f>>)' = sr[f]
         /\ \A o \in Owners' : \/ o \in Owners /\ SliceOf(o)' = SliceOf(o)
                               \/ \E f \in SliceFields : o = <<"router", id, f>>
<1>1. /\ TypeOK /\ routers \in Seq(RouterRecords) /\ entries \in Seq(EntryRecords)
      /\ Len(routers) \in Nat /\ Len(routers) >= 1 /\ panicked \in BOOLEAN
  BY EmptySeq, LenProperties DEF Inv, TypeOK
<1>2. routers' = Append(routers, sr) /\ entries' = entries /\ panicked' = panicked
  BY DEF Derive
<1>3. /\ routers' \in Seq(RouterRecords) /\ Len(routers') = id
      /\ routers'[id] = sr /\ \A i \in 1 .. Len(routers) : routers'[i] = routers[i]
  BY <1>1, <1>2
<1>4. TypeOK'
  <2>1. routers' # <<>>
    BY <1>1, <1>3, EmptySeq
  <2> QED
    BY <1>1, <1>2, <1>3, <2>1 DEF TypeOK
<1>5. RouterIds' = 1 .. id /\ id \in RouterIds' /\ EntryIds' = EntryIds
      /\ \A i \in RouterIds' : i \in RouterIds \/ i = id
  BY <1>1, <1>2, <1>3 DEF RouterIds, EntryIds
<1>6. id # Root /\ id \notin RouterIds
  BY <1>1 DEF Root, RouterIds
<1>7. ASSUME NEW f \in SliceFields
      PROVE  /\ <<"router", id, f>> \notin RootOwners
             /\ <<"router", id, f>> \notin Owners
             /\ SliceOf(<<"router", id, f>>)' = sr[f]
  <2>1. <<"router", id, f>> \notin RootOwners
    BY <1>6 DEF RootOwners
  <2>2. <<"router", id, f>> \notin Owners
    BY <1>6 DEF Owners
  <2>3. SliceOf(<<"router", id, f>>)' = routers'[id][f]
    BY <1>5, NextOwnersAre
  <2> QED
    BY <1>3, <2>1, <2>2, <2>3
<1>8. ASSUME NEW o \in Owners'
      PROVE  \/ o \in Owners /\ SliceOf(o)' = SliceOf(o)
             \/ \E f \in SliceFields : o = <<"router", id, f>>
  <2>1. ASSUME NEW i \in RouterIds', NEW f \in SliceFields, o = <<"router", i, f>>, i # id
        PROVE  o \in Owners /\ SliceOf(o)' = SliceOf(o)
    <3>1. i \in RouterIds /\ routers'[i] = routers[i]
      BY <1>3, <1>5, <2>1 DEF RouterIds
    <3> QED
      BY <2>1, <3>1, OwnersAre, NextOwnersAre
  <2>2. ASSUME NEW e \in EntryIds, o = <<"entry", e, "allow">>
        PROVE  o \in Owners /\ SliceOf(o)' = SliceOf(o)
    BY <1>2, <1>5, <2>2, OwnersAre, NextOwnersAre
  <2> QED
    BY <1>5, <1>8, <2>1, <2>2, NextOwnersAre
<1> QED
  BY <1>4, <1>7, <1>8

LEMMA NewRootIs == NewRoot \in RouterRecords
<1>1. NoFlags \in [Flags -> BOOLEAN]
  BY DEF NoFlags
<1>2. Nil \in Slice
  BY EmptySeq DEF Nil, Slice
<1>3. <<>> \in Seq(Segments)
  BY EmptySeq
<1> HIDE DEF NoFlags
<1> QED
  BY <1>1, <1>2, <1>3 DEF NewRoot, RouterRecords

\* The routers of SubRouter and of With.
LEMMA SubRouterIs ==
  ASSUME NEW path \in Seq(Segments), NEW flags \in [Flags -> BOOLEAN]
  PROVE  LET sr == [NewRoot EXCEPT !.basePath = path, !.flags = flags]
         IN  sr \in RouterRecords /\ \A f \in SliceFields : sr[f] = Nil
<1> DEFINE u == [NewRoot EXCEPT !.basePath = path]
           sr == [u EXCEPT !.flags = flags]
<1>1. u \in RouterRecords
  BY NewRootIs DEF RouterRecords
<1>2. \A f \in SliceFields : u[f] = Nil
  BY DEF NewRoot, SliceFields
<1>3. sr \in RouterRecords /\ \A f \in SliceFields : sr[f] = u[f]
  <2> HIDE DEF u
  <2> QED
    BY <1>1 DEF RouterRecords, SliceFields
<1>4. sr = [NewRoot EXCEPT !.basePath = path, !.flags = flags]
  BY Zenon
<1> HIDE DEF u, sr
<1> QED
  BY <1>2, <1>3, <1>4

LEMMA WithIs ==
  ASSUME NEW path \in Seq(Segments), NEW chain \in Slice
  PROVE  LET sr == [NewRoot EXCEPT !.basePath = path, !.middlewareChain = chain]
         IN  /\ sr \in RouterRecords
             /\ sr.middlewareChain = chain /\ sr.labels = Nil /\ sr.allow = Nil
<1> DEFINE u == [NewRoot EXCEPT !.basePath = path]
           sr == [u EXCEPT !.middlewareChain = chain]
<1>1. u \in RouterRecords
  BY NewRootIs DEF RouterRecords
<1>2. u.labels = Nil /\ u.allow = Nil
  BY DEF NewRoot
<1>3. sr \in RouterRecords /\ sr.middlewareChain = chain /\ sr.labels = u.labels /\ sr.allow = u.allow
  <2> HIDE DEF u
  <2> QED
    BY <1>1 DEF RouterRecords
<1>4. sr = [NewRoot EXCEPT !.basePath = path, !.middlewareChain = chain]
  BY Zenon
<1> HIDE DEF u, sr
<1> QED
  BY <1>2, <1>3, <1>4

LEMMA NewSubRouterKeeps ==
  ASSUME Inv, newSubRouter
  PROVE  Inv'
<1> DEFINE sr == [NewRoot EXCEPT !.basePath = <<Base>>, !.flags = routers[Root].flags]
<1>1. TypeOK /\ calls' \in Nat /\ given' \in Nat /\ arrays' = arrays /\ arrays' \in Arrays
  BY CalledIs DEF Inv, TypeOK, newSubRouter
<1>2. routers[Root] \in RouterRecords
  <2>1. Root \in RouterIds
    BY <1>1, EmptySeq DEF TypeOK, Root, RouterIds
  <2> QED
    BY <1>1, <2>1, RouterSlices DEF SliceFields
<1>3. sr \in RouterRecords /\ \A f \in SliceFields : sr[f] = Nil
  <2>1. <<Base>> \in Seq(Segments)
    BY DEF Segments
  <2>2. routers[Root].flags \in [Flags -> BOOLEAN]
    BY <1>2 DEF RouterRecords
  <2> QED
    BY <2>1, <2>2, SubRouterIs
<1>4. Derive(sr)
  BY DEF newSubRouter
<1> HIDE DEF sr
<1>5. PICK id : id = Len(routers) + 1
  OBVIOUS
<1>6. /\ TypeOK'
      /\ \A o \in Owners' : \/ o \in Owners /\ SliceOf(o)' = SliceOf(o)
                            \/ o \notin RootOwners /\ SliceOf(o)' = Nil
  BY <1>1, <1>3, <1>4, <1>5, DeriveIs
<1>7. SlicesFit' /\ RootAlone'
  BY <1>1, <1>6, NextRootOwns, Quiet DEF Assigned
<1> QED
  BY <1>6, <1>7 DEF Inv

LEMMA WithKeeps ==
  ASSUME Inv, NEW r \in RouterIds, NEW n \in Nat, With(r, n)
  PROVE  Inv'
<1> DEFINE p == <<"router", r, "middlewareChain">>
           c == routers[r].middlewareChain
           s == Share(arrays, c)
           x == Appended(arrays, s, Fresh(n))
           sr == [NewRoot EXCEPT !.basePath = routers[r].basePath, !.middlewareChain = x]
<1>1. TypeOK /\ arrays \in Arrays
  BY DEF Inv, TypeOK
<1>2. Fresh(n) \in Seq(Int) /\ calls' \in Nat /\ given' \in Nat
  BY <1>1, FreshIs, CalledIs DEF With
<1>3. p \in Owners \ RootOwners /\ c = SliceOf(p) /\ Fits(arrays, c)
  <2>1. p \in Owners /\ c = SliceOf(p)
    BY OwnersAre DEF SliceFields
  <2>2. p \notin RootOwners
    BY DEF With, RootOwners
  <2> QED
    BY <2>1, <2>2 DEF Inv, SlicesFit
<1>4. Fits(arrays, s) /\ Three(arrays, s) /\ s.array = SliceOf(p).array
  <2> HIDE DEF c
  <2> QED
    BY <1>1, <1>3, ShareFits
<1> HIDE DEF s
<1>5. x \in Slice /\ ArraysAfter(arrays, s, Fresh(n)) \in Arrays
  BY <1>1, <1>2, <1>4, AppendedIs DEF Fits
<1>6. Derive(sr) /\ arrays' = ArraysAfter(arrays, s, Fresh(n))
  BY DEF With, s
<1> HIDE DEF x
<1>7. /\ sr \in RouterRecords
      /\ sr.middlewareChain = x /\ sr.labels = Nil /\ sr.allow = Nil
  <2>1. routers[r].basePath \in Seq(Segments)
    BY <1>1, RouterSlices DEF RouterRecords, SliceFields
  <2> QED
    BY <1>5, <2>1, WithIs
<1> HIDE DEF sr
<1>8. PICK id : id = Len(routers) + 1
  OBVIOUS
<1> DEFINE q == <<"router", id, "middlewareChain">>
<1>9. /\ TypeOK' /\ q \notin RootOwners /\ SliceOf(q)' = x
      /\ \A o \in Owners' : o # q => \/ o \in Owners /\ SliceOf(o)' = SliceOf(o)
                                     \/ o \notin RootOwners /\ SliceOf(o)' = Nil
  BY <1>2, <1>5, <1>6, <1>7, <1>8, DeriveIs DEF SliceFields
<1> HIDE DEF q, p
<1>10. SlicesFit' /\ RootAlone'
  BY <1>2, <1>3, <1>4, <1>6, <1>9, NextRootOwns, Giving DEF Assigned, x
<1> QED
  BY <1>9, <1>10 DEF Inv

LEMMA ResourceRouterKeeps ==
  ASSUME Inv, NEW r \in RouterIds, NEW n \in Nat, ResourceRouter(r, n)
  PROVE  Inv'
<1> DEFINE p == <<"router", r, "labels">>
           a == <<"router", r, "allow">>
           c == routers[r].labels
           s == Share(arrays, c)
           x == Appended(arrays, s, Fresh(n))
           y == Share(arrays, SliceOf(a))
           sr == [ basePath |-> routers[r].basePath, resourceBasePath |-> routers[r].basePath,
                   flags |-> routers[r].flags, middlewareChain |-> Nil, labels |-> x, allow |-> y ]
<1>1. TypeOK /\ arrays \in Arrays
  BY DEF Inv, TypeOK
<1>2. Fresh(n) \in Seq(Int) /\ calls' \in Nat /\ given' \in Nat
  BY <1>1, FreshIs, CalledIs DEF ResourceRouter
<1>3. p \in Owners \ RootOwners /\ c = SliceOf(p) /\ Fits(arrays, c)
  <2>1. p \in Owners /\ c = SliceOf(p)
    BY OwnersAre DEF SliceFields
  <2>2. p \notin RootOwners
    BY DEF ResourceRouter, RootOwners
  <2> QED
    BY <2>1, <2>2 DEF Inv, SlicesFit
<1>4. a \in Owners \ RootOwners /\ SliceOf(a) = routers[r].allow /\ Fits(arrays, SliceOf(a))
  <2>1. a \in Owners /\ SliceOf(a) = routers[r].allow
    BY OwnersAre DEF SliceFields
  <2>2. a \notin RootOwners
    BY DEF RootOwners
  <2> QED
    BY <2>1, <2>2 DEF Inv, SlicesFit
<1>5. Fits(arrays, s) /\ Three(arrays, s) /\ s.array = SliceOf(p).array
  <2> HIDE DEF c
  <2> QED
    BY <1>1, <1>3, ShareFits
<1> HIDE DEF s
<1>6. x \in Slice /\ ArraysAfter(arrays, s, Fresh(n)) \in Arrays
  BY <1>1, <1>2, <1>5, AppendedIs DEF Fits
<1>7. y \in Slice
  <2> DEFINE z == SliceOf(a)
  <2>1. Fits(arrays, z)
    BY <1>4
  <2> HIDE DEF z
  <2>2. Fits(arrays, Share(arrays, z))
    BY <1>1, <2>1, ShareFits
  <2> QED
    BY <2>2 DEF Fits, z
<1>8. Derive(sr) /\ arrays' = ArraysAfter(arrays, s, Fresh(n))
  BY <1>4 DEF ResourceRouter, s
<1> HIDE DEF x, y
<1>9. /\ sr \in RouterRecords
      /\ sr.middlewareChain = Nil /\ sr.labels = x /\ sr.allow = y
  <2>1. routers[r].basePath \in Seq(Segments) /\ routers[r].flags \in [Flags -> BOOLEAN]
    BY <1>1, RouterSlices DEF RouterRecords, SliceFields
  <2>2. Nil \in Slice
    BY EmptySeq DEF Nil, Slice
  <2> QED
    BY <1>6, <1>7, <2>1, <2>2 DEF RouterRecords
<1> HIDE DEF sr
<1>10. PICK id : id = Len(routers) + 1
  OBVIOUS
<1> DEFINE q == <<"router", id, "labels">>
<1>11. /\ TypeOK' /\ q \notin RootOwners /\ SliceOf(q)' = x
       /\ \A o \in Owners' : o # q => \/ o \in Owners /\ SliceOf(o)' = SliceOf(o)
                                      \/ o \notin RootOwners /\ SliceOf(o)' \in {Nil, y}
  BY <1>2, <1>6, <1>8, <1>9, <1>10, DeriveIs DEF SliceFields
<1> HIDE DEF q, p, a
<1>12. ASSUME NEW o \in Owners', o # q
       PROVE  (o \in Owners /\ SliceOf(o)' = SliceOf(o)) \/ Assigned(o, SliceOf(o)')
  BY <1>4, <1>11, <1>12 DEF Assigned, y
<1>13. SlicesFit' /\ RootAlone'
  BY <1>2, <1>3, <1>5, <1>8, <1>11, <1>12, NextRootOwns, Giving DEF x
<1> QED
  BY <1>11, <1>13 DEF Inv

\* A step that leaves every slice and every array as it is.
LEMMA SlicesSame ==
  ASSUME Inv, TypeOK', arrays' = arrays,
         Len(routers') = Len(routers), Len(entries') = Len(entries),
         \A r \in RouterIds, f \in SliceFields : routers'[r][f] = routers[r][f],
         \A e \in EntryIds : entries'[e].allow = entries[e].allow
  PROVE  Inv'
<1>1. RouterIds' = RouterIds /\ EntryIds' = EntryIds
  BY DEF RouterIds, EntryIds
<1>2. ASSUME NEW o \in Owners' PROVE o \in Owners /\ SliceOf(o)' = SliceOf(o)
  <2>1. ASSUME NEW i \in RouterIds, NEW f \in SliceFields, o = <<"router", i, f>>
        PROVE  o \in Owners /\ SliceOf(o)' = SliceOf(o)
    BY <1>1, <2>1, OwnersAre, NextOwnersAre
  <2>2. ASSUME NEW e \in EntryIds, o = <<"entry", e, "allow">>
        PROVE  o \in Owners /\ SliceOf(o)' = SliceOf(o)
    BY <1>1, <2>2, OwnersAre, NextOwnersAre
  <2> QED
    BY <1>1, <1>2, <2>1, <2>2, NextOwnersAre
<1> QED
  BY <1>2, NextRootOwns, Quiet DEF Inv

\* Auth and the other switches of a router.
LEMMA EnableKeeps ==
  ASSUME Inv, NEW r \in RouterIds, NEW f \in Flags, NEW on \in BOOLEAN, Enable(r, f, on)
  PROVE  Inv'
<1> DEFINE fl == [routers[r].flags EXCEPT ![f] = on]
           rec == [routers[r] EXCEPT !.flags = fl]
<1>1. TypeOK /\ routers \in Seq(RouterRecords) /\ calls' \in Nat /\ given' \in Nat
  BY CalledIs DEF Inv, TypeOK, Enable
<1>2. routers[r] \in RouterRecords
  BY <1>1, RouterSlices DEF SliceFields
<1>3. fl \in [Flags -> BOOLEAN]
  BY <1>2 DEF RouterRecords
<1>4. routers' = [routers EXCEPT ![r] = rec] /\ UNCHANGED <<arrays, entries, panicked>>
  BY Zenon DEF Enable
<1> HIDE DEF fl
<1>5. rec \in RouterRecords /\ \A g \in SliceFields : rec[g] = routers[r][g]
  BY <1>2, <1>3 DEF RouterRecords, SliceFields
<1> HIDE DEF rec
<1>6. /\ routers' \in Seq(RouterRecords) /\ Len(routers') = Len(routers)
      /\ \A i \in RouterIds : routers'[i] = IF i = r THEN rec ELSE routers[i]
  BY <1>1, <1>4, <1>5, ExceptSeq DEF RouterIds
<1>7. TypeOK'
  <2>1. routers' # <<>>
    BY <1>1, <1>6, EmptySeq DEF TypeOK
  <2> QED
    BY <1>1, <1>4, <1>6, <2>1 DEF TypeOK
<1>8. \A i \in RouterIds, g \in SliceFields : routers'[i][g] = routers[i][g]
  BY <1>5, <1>6
<1> QED
  BY <1>4, <1>6, <1>7, <1>8, SlicesSame

LEMMA BasePathKeeps ==
  ASSUME Inv, NEW r \in RouterIds, NEW path \in Paths, BasePath(r, path)
  PROVE  Inv'
<1> DEFINE b == Append(routers[r].resourceBasePath, path)
           rec == [routers[r] EXCEPT !.basePath = b]
<1>1. TypeOK /\ routers \in Seq(RouterRecords) /\ calls' \in Nat /\ given' \in Nat
  BY CalledIs DEF Inv, TypeOK, BasePath
<1>2. routers[r] \in RouterRecords
  BY <1>1, RouterSlices DEF SliceFields
<1>3. b \in Seq(Segments)
  BY <1>2 DEF RouterRecords, Segments
<1>4. routers' = [routers EXCEPT ![r] = rec] /\ UNCHANGED <<arrays, entries, panicked>>
  BY Zenon DEF BasePath
<1> HIDE DEF b
<1>5. rec \in RouterRecords /\ \A g \in SliceFields : rec[g] = routers[r][g]
  BY <1>2, <1>3 DEF RouterRecords, SliceFields
<1> HIDE DEF rec
<1>6. /\ routers' \in Seq(RouterRecords) /\ Len(routers') = Len(routers)
      /\ \A i \in RouterIds : routers'[i] = IF i = r THEN rec ELSE routers[i]
  BY <1>1, <1>4, <1>5, ExceptSeq DEF RouterIds
<1>7. TypeOK'
  <2>1. routers' # <<>>
    BY <1>1, <1>6, EmptySeq DEF TypeOK
  <2> QED
    BY <1>1, <1>4, <1>6, <2>1 DEF TypeOK
<1>8. \A i \in RouterIds, g \in SliceFields : routers'[i][g] = routers[i][g]
  BY <1>5, <1>6
<1> QED
  BY <1>4, <1>6, <1>7, <1>8, SlicesSame

\* A decorator that changes an entry, but not its targets.
LEMMA EntryChanged ==
  ASSUME Inv, NEW e \in EntryIds, NEW rec \in EntryRecords, rec.allow = entries[e].allow,
         entries' = [entries EXCEPT ![e] = rec], UNCHANGED <<arrays, routers, panicked>>,
         calls' \in Nat, given' \in Nat
  PROVE  Inv'
<1>1. TypeOK /\ entries \in Seq(EntryRecords)
  BY DEF Inv, TypeOK
<1>2. /\ entries' \in Seq(EntryRecords) /\ Len(entries') = Len(entries)
      /\ \A i \in EntryIds : entries'[i] = IF i = e THEN rec ELSE entries[i]
  BY <1>1, ExceptSeq DEF EntryIds
<1>3. TypeOK'
  BY <1>1, <1>2 DEF TypeOK
<1>4. \A i \in EntryIds : entries'[i].allow = entries[i].allow
  BY <1>2
<1> QED
  BY <1>2, <1>3, <1>4, SlicesSame

LEMMA EntryIs ==
  ASSUME TypeOK, NEW e \in EntryIds
  PROVE  entries[e] \in EntryRecords
  BY ElementOfSeq DEF TypeOK, EntryIds

LEMMA AddLabelKeeps ==
  ASSUME Inv, NEW e \in EntryIds, AddLabel(e)
  PROVE  Inv'
<1> DEFINE l == entries[e].labels \o Fresh(1)
           rec == [entries[e] EXCEPT !.labels = l]
<1>1. TypeOK /\ calls' \in Nat /\ given' \in Nat /\ entries[e] \in EntryRecords
  BY CalledIs, EntryIs DEF Inv, AddLabel
<1>2. l \in Seq(Int)
  <2>1. Fresh(1) \in Seq(Int) /\ entries[e].labels \in Seq(Int)
    BY <1>1, FreshIs DEF EntryRecords
  <2> QED
    BY <2>1, ConcatProperties
<1>3. entries' = [entries EXCEPT ![e] = rec] /\ UNCHANGED <<arrays, routers, panicked>>
  BY Zenon DEF AddLabel
<1> HIDE DEF l
<1>4. rec \in EntryRecords /\ rec.allow = entries[e].allow
  BY <1>1, <1>2 DEF EntryRecords
<1> QED
  BY <1>1, <1>3, <1>4, EntryChanged

LEMMA DecorateKeeps ==
  ASSUME Inv, NEW e \in EntryIds, NEW f \in Flags, NEW on \in BOOLEAN, Decorate(e, f, on)
  PROVE  Inv'
<1> DEFINE fl == [entries[e].flags EXCEPT ![f] = on]
           rec == [entries[e] EXCEPT !.flags = fl]
<1>1. TypeOK /\ calls' \in Nat /\ given' \in Nat /\ entries[e] \in EntryRecords
  BY CalledIs, EntryIs DEF Inv, Decorate
<1>2. fl \in [Flags -> BOOLEAN]
  BY <1>1 DEF EntryRecords
<1>3. entries' = [entries EXCEPT ![e] = rec] /\ UNCHANGED <<arrays, routers, panicked>>
  BY Zenon DEF Decorate
<1> HIDE DEF fl
<1>4. rec \in EntryRecords /\ rec.allow = entries[e].allow
  BY <1>1, <1>2 DEF EntryRecords
<1> QED
  BY <1>1, <1>3, <1>4, EntryChanged

LEMMA SetAllowKeeps ==
  ASSUME Inv, NEW e \in EntryIds, SetAllow(e)
  PROVE  Inv'
<1> DEFINE q == <<"entry", e, "allow">>
           s == entries[e].allow
           x == Appended(arrays, s, Fresh(1))
           rec == [entries[e] EXCEPT !.allow = x]
<1>1. TypeOK /\ arrays \in Arrays /\ entries \in Seq(EntryRecords) /\ entries[e] \in EntryRecords
  BY EntryIs DEF Inv, TypeOK
<1>2. Fresh(1) \in Seq(Int) /\ calls' \in Nat /\ given' \in Nat
  BY <1>1, FreshIs, CalledIs DEF SetAllow
<1>3. q \in Owners \ RootOwners /\ s = SliceOf(q) /\ Fits(arrays, s) /\ Three(arrays, s)
  <2>1. q \in Owners /\ s = SliceOf(q)
    BY OwnersAre
  <2>2. q \notin RootOwners
    BY DEF RootOwners
  <2> QED
    BY <2>1, <2>2 DEF Inv, SlicesFit
<1>4. x \in Slice /\ ArraysAfter(arrays, s, Fresh(1)) \in Arrays
  BY <1>1, <1>2, <1>3, AppendedIs DEF Fits
<1>5. /\ entries' = [entries EXCEPT ![e] = rec] /\ arrays' = ArraysAfter(arrays, s, Fresh(1))
      /\ UNCHANGED <<routers, panicked>>
  BY Zenon DEF SetAllow
<1> HIDE DEF x
<1>6. rec \in EntryRecords /\ rec.allow = x
  BY <1>1, <1>4 DEF EntryRecords
<1> HIDE DEF rec
<1>7. /\ entries' \in Seq(EntryRecords) /\ Len(entries') = Len(entries)
      /\ \A i \in EntryIds : entries'[i] = IF i = e THEN rec ELSE entries[i]
  BY <1>1, <1>5, <1>6, ExceptSeq DEF EntryIds
<1>8. TypeOK'
  BY <1>1, <1>2, <1>4, <1>5, <1>7 DEF TypeOK
<1>9. RouterIds' = RouterIds /\ EntryIds' = EntryIds
  BY <1>5, <1>7 DEF RouterIds, EntryIds
<1>10. SliceOf(q)' = x
  <2>1. SliceOf(q)' = entries'[e].allow
    BY <1>9, NextOwnersAre
  <2> QED
    BY <1>6, <1>7, <2>1
<1>11. ASSUME NEW o \in Owners', o # q PROVE o \in Owners /\ SliceOf(o)' = SliceOf(o)
  <2>1. ASSUME NEW i \in RouterIds, NEW f \in SliceFields, o = <<"router", i, f>>
        PROVE  o \in Owners /\ SliceOf(o)' = SliceOf(o)
    BY <1>5, <1>9, <2>1, OwnersAre, NextOwnersAre
  <2>2. ASSUME NEW i \in EntryIds, o = <<"entry", i, "allow">>
        PROVE  o \in Owners /\ SliceOf(o)' = SliceOf(o)
    <3>1. SliceOf(o)' = entries'[i].allow /\ SliceOf(o) = entries[i].allow /\ o \in Owners
      BY <1>9, <2>2, OwnersAre, NextOwnersAre
    <3>2. i # e
      BY <1>11, <2>2
    <3> QED
      BY <1>7, <3>1, <3>2
  <2> QED
    BY <1>9, <1>11, <2>1, <2>2, NextOwnersAre
<1> HIDE DEF q, s
<1>12. SlicesFit' /\ RootAlone'
  BY <1>2, <1>3, <1>5, <1>8, <1>10, <1>11, NextRootOwns, Giving DEF x
<1> QED
  BY <1>8, <1>12 DEF Inv

\* The entry of Handle takes the slice of its router's targets, and copies of
\* the middleware and the labels.
LEMMA NewEntryIs ==
  ASSUME Inv, NEW r \in RouterIds, NEW relative \in Seq(Segments)
  PROVE  LET a == SliceOf(<<"router", r, "allow">>)
         IN  /\ NewEntry(r, relative) \in EntryRecords
             /\ NewEntry(r, relative).allow = Share(arrays, a)
             /\ Fits(arrays, a)
<1> DEFINE a == SliceOf(<<"router", r, "allow">>)
           y == Share(arrays, a)
           path == AbsolutePath(r, relative)
           chain == IF r = Root THEN <<>> ELSE Elements(arrays, routers[r].middlewareChain)
<1>1. TypeOK /\ arrays \in Arrays /\ routers[r] \in RouterRecords
  BY RouterSlices DEF Inv, TypeOK, SliceFields
<1>2. Root \in RouterIds
  BY <1>1, EmptySeq DEF TypeOK, Root, RouterIds
<1>3. ASSUME NEW i \in RouterIds, NEW f \in SliceFields PROVE Fits(arrays, routers[i][f])
  BY OwnersAre DEF Inv, SlicesFit
<1>4. a = routers[r].allow /\ Fits(arrays, a)
  BY <1>3, OwnersAre DEF SliceFields
<1>5. y \in Slice
  <2> HIDE DEF a
  <2> QED
    BY <1>1, <1>4, ShareFits DEF Fits
<1>6. path \in Seq(Segments)
  <2>1. routers[r].basePath \in Seq(Segments)
    BY <1>1 DEF RouterRecords
  <2> QED
    BY <2>1, ConcatProperties DEF AbsolutePath
<1>7. <<>> \in Seq(Int)
  BY EmptySeq
<1>8. ASSUME NEW i \in RouterIds, NEW f \in SliceFields PROVE Elements(arrays, routers[i][f]) \in Seq(Int)
  BY <1>1, <1>3, ElementsIs
<1>9. chain \in Seq(Int)
  BY <1>7, <1>8 DEF SliceFields
<1>10. LabelsOf(r) \in Seq(Int)
  <2> DEFINE l == IF r = Root THEN <<>> ELSE Elements(arrays, routers[Root].labels)
             m == Elements(arrays, routers[r].labels)
  <2>1. l \in Seq(Int) /\ m \in Seq(Int)
    BY <1>2, <1>7, <1>8 DEF SliceFields
  <2>2. LabelsOf(r) = m \o l
    BY DEF LabelsOf
  <2> HIDE DEF l, m
  <2> QED
    BY <2>1, <2>2, ConcatProperties
<1>11. routers[r].flags \in [Flags -> BOOLEAN]
  BY <1>1 DEF RouterRecords
<1>12. NewEntry(r, relative) = [ path |-> path, flags |-> routers[r].flags, allow |-> y,
                                labels |-> LabelsOf(r), chain |-> chain ]
  BY <1>4 DEF NewEntry
<1> HIDE DEF path, y, chain, a
<1>13. NewEntry(r, relative) \in EntryRecords /\ NewEntry(r, relative).allow = y
  BY <1>5, <1>6, <1>9, <1>10, <1>11, <1>12 DEF EntryRecords
<1> QED
  BY <1>4, <1>13 DEF y, a

LEMMA HandleKeeps ==
  ASSUME Inv, NEW r \in RouterIds, NEW path \in Paths, Handle(r, <<path>>)
  PROVE  Inv'
<1> DEFINE relative == <<path>>
           new == NewEntry(r, relative)
           a == <<"router", r, "allow">>
<1>1. /\ TypeOK /\ entries \in Seq(EntryRecords) /\ Len(entries) \in Nat
      /\ calls' \in Nat /\ given' \in Nat /\ UNCHANGED <<arrays, routers>>
  BY CalledIs, LenProperties DEF Inv, TypeOK, Handle
<1>2. relative \in Seq(Segments)
  BY DEF Segments
<1>3. /\ new \in EntryRecords /\ new.allow = Share(arrays, SliceOf(a))
      /\ a \in Owners \ RootOwners
  <2>1. a \in Owners /\ a \notin RootOwners
    BY OwnersAre DEF SliceFields, RootOwners
  <2> HIDE DEF relative
  <2> QED
    BY <1>2, <2>1, NewEntryIs
<1> HIDE DEF new, a
<1>4. CASE panicked' = TRUE /\ entries' = entries
  <2>1. TypeOK'
    BY <1>1, <1>4 DEF TypeOK
  <2> QED
    BY <1>1, <1>4, <2>1, SlicesSame
<1>5. CASE entries' = Append(entries, new) /\ panicked' = panicked
  <2>1. PICK id : id = Len(entries) + 1
    OBVIOUS
  <2>2. /\ entries' \in Seq(EntryRecords) /\ Len(entries') = id /\ entries'[id] = new
        /\ \A i \in EntryIds : entries'[i] = entries[i]
    BY <1>1, <1>3, <1>5, <2>1 DEF EntryIds
  <2>3. TypeOK'
    BY <1>1, <1>5, <2>2 DEF TypeOK
  <2>4. RouterIds' = RouterIds /\ \A i \in EntryIds' : i \in EntryIds \/ i = id
    BY <1>1, <2>1, <2>2 DEF RouterIds, EntryIds
  <2>5. ASSUME NEW o \in Owners'
        PROVE  (o \in Owners /\ SliceOf(o)' = SliceOf(o)) \/ Assigned(o, SliceOf(o)')
    <3>1. ASSUME NEW i \in RouterIds, NEW f \in SliceFields, o = <<"router", i, f>>
          PROVE  o \in Owners /\ SliceOf(o)' = SliceOf(o)
      BY <1>1, <2>4, <3>1, OwnersAre, NextOwnersAre
    <3>2. ASSUME NEW i \in EntryIds', i \in EntryIds, o = <<"entry", i, "allow">>
          PROVE  o \in Owners /\ SliceOf(o)' = SliceOf(o)
      BY <2>2, <3>2, OwnersAre, NextOwnersAre
    <3>3. ASSUME NEW i \in EntryIds', i = id, o = <<"entry", i, "allow">>
          PROVE  Assigned(o, SliceOf(o)')
      <4>1. SliceOf(o)' = new.allow
        BY <2>2, <3>3, NextOwnersAre
      <4>2. o \notin RootOwners
        BY <3>3 DEF RootOwners
      <4> QED
        BY <1>3, <4>1, <4>2 DEF Assigned
    <3> QED
      BY <2>4, <2>5, <3>1, <3>2, <3>3, NextOwnersAre
  <2> QED
    BY <1>1, <2>3, <2>5, NextRootOwns, Quiet DEF Inv
<1> QED
  BY <1>4, <1>5 DEF Handle, new

-----------------------------------------------------------------------------
(* Theorems *)

LEMMA InvariantInit == Init => Inv
<1> SUFFICES ASSUME Init PROVE Inv
  OBVIOUS
<1>1. TypeOK
  <2>1. arrays \in Arrays /\ entries \in Seq(EntryRecords)
    BY EmptySeq DEF Init, Arrays
  <2>2. routers \in Seq(RouterRecords) /\ routers # <<>>
    <3>1. routers = <<NewRoot>>
      BY DEF Init
    <3> QED
      BY <3>1, NewRootIs
  <2> QED
    BY <2>1, <2>2 DEF Init, TypeOK
<1>2. RouterIds = {Root} /\ EntryIds = {} /\ routers[Root] = NewRoot
  BY EmptySeq DEF Init, RouterIds, EntryIds, Root
<1>3. \A f \in SliceFields : NewRoot[f] = Nil
  BY DEF NewRoot, SliceFields
<1>4. \A o \in Owners : SliceOf(o) = Nil
  BY <1>2, <1>3, OwnersAre
<1>5. Fits(arrays, Nil) /\ Three(arrays, Nil) /\ Whole(arrays, Nil)
  BY <1>1, NilFits DEF TypeOK
<1>6. RootOwners \subseteq Owners
  BY <1>1, RootOwns
<1> QED
  BY <1>1, <1>4, <1>5, <1>6 DEF Inv, SlicesFit, RootAlone, Nil

LEMMA InvariantStep == Inv /\ [Next]_vars => Inv'
<1> SUFFICES ASSUME Inv, [Next]_vars PROVE Inv'
  OBVIOUS
<1>1. ASSUME NEW r \in RouterIds, Use(r) PROVE Inv'
  BY <1>1, GiveKeeps DEF Use, SliceFields
<1>2. ASSUME NEW r \in RouterIds, Allow(r) PROVE Inv'
  BY <1>2, GiveKeeps DEF Allow, SliceFields
<1>3. ASSUME NEW r \in RouterIds, NEW n \in 1 .. 2, SetLabel(r, n) PROVE Inv'
  BY <1>3, GiveKeeps DEF SetLabel, SliceFields
<1>4. ASSUME NEW r \in RouterIds, NEW f \in Flags, Enable(r, f, ~ routers[r].flags[f]) PROVE Inv'
  BY <1>4, EnableKeeps
<1>5. ASSUME newSubRouter PROVE Inv'
  BY <1>5, NewSubRouterKeeps
<1>6. ASSUME NEW r \in RouterIds, NEW n \in 1 .. 2, With(r, n) PROVE Inv'
  BY <1>6, WithKeeps
<1>7. ASSUME NEW r \in RouterIds, NEW n \in 0 .. 2, ResourceRouter(r, n) PROVE Inv'
  BY <1>7, ResourceRouterKeeps
<1>8. ASSUME NEW r \in RouterIds, NEW path \in Paths, BasePath(r, path) PROVE Inv'
  BY <1>8, BasePathKeeps
<1>9. ASSUME NEW r \in RouterIds, NEW path \in Paths, Handle(r, <<path>>) PROVE Inv'
  BY <1>9, HandleKeeps
<1>10. ASSUME NEW e \in EntryIds, SetAllow(e) PROVE Inv'
  BY <1>10, SetAllowKeeps
<1>11. ASSUME NEW e \in EntryIds, AddLabel(e) PROVE Inv'
  BY <1>11, AddLabelKeeps
<1>12. ASSUME NEW e \in EntryIds, NEW f \in Flags, Decorate(e, f, ~ entries[e].flags[f]) PROVE Inv'
  BY <1>12, DecorateKeeps
<1>13. ASSUME UNCHANGED vars PROVE Inv'
  <2>1. TypeOK'
    BY <1>13 DEF vars, Inv, TypeOK
  <2> QED
    BY <1>13, <2>1, SlicesSame DEF vars
<1> QED
  BY <1>1, <1>2, <1>3, <1>4, <1>5, <1>6, <1>7, <1>8, <1>9, <1>10, <1>11, <1>12, <1>13 DEF Next

\* In every state every slice views an array there is and keeps its first
\* three elements, and the root's middleware and labels stand alone.
THEOREM Invariant == Spec => []Inv
<1> QED
  BY InvariantInit, InvariantStep, PTL DEF Spec

\* No call of a router and no decorator of an entry changes the middleware or
\* the labels that the root router was given, however many there are: With and
\* ResourceRouter, which share arrays, are calls of sub-routers only.
THEOREM RootSafe == Spec => []RootKept
<1>1. Inv => RootKept
  <2> SUFFICES ASSUME Inv PROVE RootKept
    OBVIOUS
  <2>1. Root \in RouterIds
    BY EmptySeq DEF Inv, TypeOK, Root, RouterIds
  <2>2. /\ SliceOf(<<"router", Root, "middlewareChain">>) = routers[Root].middlewareChain
        /\ SliceOf(<<"router", Root, "labels">>) = routers[Root].labels
    BY <2>1, OwnersAre DEF SliceFields
  <2>3. /\ Whole(arrays, SliceOf(<<"router", Root, "middlewareChain">>))
        /\ Whole(arrays, SliceOf(<<"router", Root, "labels">>))
    BY DEF Inv, RootAlone, RootOwners
  <2> QED
    BY <2>2, <2>3 DEF RootKept, Exact, Whole
<1> QED
  BY <1>1, Invariant, PTL

\* Up to three elements, no list of a router or an entry is ever written over:
\* append leaves no room in an array of fewer.
THEOREM FirstThreeSafe == Spec => []FirstThreeKept
<1>1. Inv => FirstThreeKept
  BY DEF Inv, SlicesFit, FirstThreeKept, Three, Slices
<1> QED
  BY <1>1, Invariant, PTL

=============================================================================
