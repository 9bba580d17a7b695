------------------------- MODULE MCAlwaysGetSource -------------------------
(* A small instance of AlwaysGetSource for TLC: one caller is enough to    *)
(* keep an item for ever.                                                  *)
EXTENDS AlwaysGetSource

CONSTANTS c1, n1, own

MCCallers == {c1}
MCNames == {n1}
MCScopes == {own}

MCSources ==
  {[kind |-> "AlwaysGetSource", CacheDuration |-> 0, Deadline |-> 0,
    cancels |-> FALSE, told |-> 3]}
=============================================================================
