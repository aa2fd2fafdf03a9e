------------------------------- MODULE Paths -------------------------------
(***************************************************************************)
(* Trees as functions of paths, for hw1 (directories) and hw8 (nested      *)
(* values): a path is the sequence of steps from the root to a node.       *)
(***************************************************************************)
EXTENDS Integers, Sequences

\* The node that p is in, and the last step to p
In(p) == SubSeq(p, 1, Len(p) - 1)
Base(p) == p[Len(p)]

\* p is q or inside it
Starts(q, p) == Len(q) <= Len(p) /\ q = SubSeq(p, 1, Len(q))
=============================================================================
