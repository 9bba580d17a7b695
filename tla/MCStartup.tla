----------------------------- MODULE MCStartup -----------------------------
(* Small instances of Startup for TLC.                                     *)
EXTENDS Startup

CONSTANTS q1, q2

MCQueries == {q1}
MCTwoQueries == {q1, q2}

(* Every configuration, and the one most processes run with.               *)
AllConfigs == Configs
DefaultConfig == {[set |-> {}, strategy |-> "defaults", auto |-> FALSE]}
=============================================================================
