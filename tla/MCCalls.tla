------------------------------ MODULE MCCalls ------------------------------
(* Instances of Calls for TLC: a caller that is asked everything and one   *)
(* that competes with it for the tokens; callers that list volumes.        *)
EXTENDS Calls, TLC

CONSTANTS c1, c2

MCCallers == {c1, c2}
MCAsked == (c1 :> Queries) @@ (c2 :> {"AddressGet"})
MCListing == (c1 :> {"VolumeList"}) @@ (c2 :> {"AddressGet"})

(* An answer that is given is taken before anything else happens.          *)
AnswersTakenAtOnce ==
  (\E c \in Callers : call[c].answer # "none") =>
    \E c \in Callers : call[c].answer # "none" /\ call'[c] = NoCall

(* Of the queries of c1 one is watched, that of a policy with its entities. *)
OneQueryWatched == window'.open => call'[c1].query \in {"none", "PolicyGet"}
=============================================================================
