---------------------------- MODULE MCDiscovery ----------------------------
(* A small instance of Discovery for TLC: two regions of one account.      *)
EXTENDS Discovery

MCRegions == {"r1", "r2"}
=============================================================================
