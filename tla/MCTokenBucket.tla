--------------------------- MODULE MCTokenBucket ---------------------------
(* Small instances of TokenBucket for TLC. *)
EXTENDS TokenBucket

\* A .cfg cannot write a negative number.
MCCounts == {-1, 0, 1, 4}
=============================================================================
