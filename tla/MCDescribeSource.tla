-------------------------- MODULE MCDescribeSource --------------------------
(* A small instance of DescribeSource for TLC: two callers and two items,  *)
(* so that a List may be seen between its items.                           *)
EXTENDS DescribeSource, TLC

CONSTANTS c1, c2, n1, n2, own

MCCallers == {c1, c2}
MCNames == {n1, n2}
MCScopes == {own}

MCSources ==
  {[kind |-> "DescribeOnlySource", CacheDuration |-> 0, Deadline |-> 0,
    cancels |-> FALSE, told |-> 1]}

(* Callers are alike, and so are names.                                    *)
Symmetry == Permutations(MCCallers) \cup Permutations(MCNames)
=============================================================================
