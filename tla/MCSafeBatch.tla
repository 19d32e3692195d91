---------------------------- MODULE MCSafeBatch ----------------------------
(* Four owners: enough for a removal at the head, in the middle and at the  *)
(* tail of a list that keeps one, and for every threshold.  The names do    *)
(* not matter, so the Safe's own list is a prefix of a, b, c, d.            *)
EXTENDS SafeBatch

CONSTANTS a, b, c, d

OwnerVal == {a, b, c, d}
StartVal == {[owners |-> SubSeq(<<a, b, c, d>>, 1, n), threshold |-> t] :
               <<n, t>> \in {m \in (1 .. 4) \X (1 .. 4) : m[2] <= m[1]}}
=============================================================================
