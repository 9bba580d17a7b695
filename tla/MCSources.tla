----------------------------- MODULE MCSources -----------------------------
(* A small instance of Sources for TLC.                                    *)
EXTENDS Sources, TLC

CONSTANTS c1, c2, n1, own, p1

MCCallers == {c1, c2}
MCNames == {n1}
MCScopes == {own}
MCParts == {p1}

(* A kind is given what makes its own behaviour hard: time that passes     *)
(* while a call is under way, or contexts that end before their calls. The *)
(* IAM sources set the CacheDuration of a GetListSource; elsewhere it is   *)
(* not set, so there is one of each.                                       *)
Source(kind, duration, deadline, cancels, told) ==
  [kind |-> kind, CacheDuration |-> duration, Deadline |-> deadline,
   cancels |-> cancels, told |-> told]

MCSources ==
  {Source("DescribeOnlySource", 0, 0, TRUE, 2),
   Source("GetListSource", 1, 1, FALSE, 4),
   Source("GetListSource", 0, 0, FALSE, 1),
   Source("AlwaysGetSource", 0, 0, FALSE, 1),
   Source("S3Source", 0, 0, FALSE, 3)}

(* Callers are alike.                                                      *)
Symmetry == Permutations(MCCallers)

(* An answer that is given is taken before anything else happens: what is  *)
(* asked of it only gets easier to keep as the world changes, and nothing  *)
(* else depends on it.                                                     *)
AnswersTakenAtOnce ==
  (\E c \in Callers : call[c].at = "done") =>
    \E c \in Callers : call[c].at = "done" /\ call'[c] = Idle
=============================================================================
