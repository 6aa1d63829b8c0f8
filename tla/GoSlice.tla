------------------------------ MODULE GoSlice ------------------------------
(***************************************************************************)
(* Slices of Go: a view of the first len elements of a backing array that  *)
(* other slices may view as well.  Assigning a slice shares the array;     *)
(* append writes behind the slice's own length and takes a new array only  *)
(* when the old one is full (append and growslice of the Go runtime; its   *)
(* rounding to allocation sizes starts beyond the lengths used here).      *)
(*                                                                         *)
(* A slice also carries its history: the elements it was made with, and    *)
(* those its owner has appended since.                                     *)
(***************************************************************************)
EXTENDS Integers, Sequences

Unset == 0

Nil == [array |-> 0, len |-> 0, inherited |-> <<>>, own |-> <<>>]

\* Arrays are a sequence of arrays, and an array one of elements.
Cap(arrays, s) == IF s.array = 0 THEN 0 ELSE Len(arrays[s.array])

Elements(arrays, s) ==
  IF s.array = 0 THEN <<>> ELSE SubSeq(arrays[s.array], 1, s.len)

\* The slice in another variable.
Share(arrays, s) ==
  [s EXCEPT !.inherited = Elements(arrays, s), !.own = <<>>]

\* What the slice would hold if nobody else could write to it.
Given(s) == s.inherited \o s.own

Grow(cap, need) == IF need > 2 * cap THEN need ELSE 2 * cap

\* Whether append stays in the array.
HasRoom(arrays, s, n) == s.len + n <= Cap(arrays, s)

\* The slice that append returns.
Appended(arrays, s, values) ==
  [ array     |-> IF HasRoom(arrays, s, Len(values)) THEN s.array ELSE Len(arrays) + 1,
    len       |-> s.len + Len(values),
    inherited |-> s.inherited,
    own       |-> s.own \o values ]

\* The arrays after it.
ArraysAfter(arrays, s, values) ==
  LET need == s.len + Len(values)
      old  == Elements(arrays, s) \o values
  IN  IF HasRoom(arrays, s, Len(values))
      THEN IF values = <<>> THEN arrays
           ELSE [arrays EXCEPT ![s.array] =
                   [i \in DOMAIN @ |-> IF i \in s.len + 1 .. need THEN old[i] ELSE @[i]]]
      ELSE Append(arrays, [i \in 1 .. Grow(Cap(arrays, s), need) |->
                             IF i <= need THEN old[i] ELSE Unset])

=============================================================================
