--------------------------- MODULE MCLimitBucket ---------------------------
(* A small instance of LimitBucket for TLC. Its callers are alike, but     *)
(* symmetry is not sound for the liveness properties.                      *)
EXTENDS LimitBucket

CONSTANTS c1, c2

MCCallers == {c1, c2}
=============================================================================
