---------------------------- MODULE ListContract ----------------------------
(***************************************************************************)
(* What AlwaysGetSource.listInternal promises to its caller, without its   *)
(* goroutines and channels: inputs are listed page by page, at most        *)
(* MaxParallel of them are being fetched at any time, and an answer        *)
(* without error holds exactly the items whose fetch succeeded, once every *)
(* listed input has been tried.                                            *)
(***************************************************************************)
EXTENDS Naturals, FiniteSets

CONSTANTS
  MaxJobs,      \* bound: inputs one List can produce
  MaxParallel   \* AlwaysGetSource.MaxParallel.Value()

VARIABLES
  listed,    \* how many inputs have been listed: they are 1..listed
  running,   \* inputs being fetched
  got,       \* inputs fetched
  failed,    \* inputs whose fetch failed
  reply,     \* "none", "ok" or "error"
  answer     \* the items replied

vars == <<listed, running, got, failed, reply, answer>>

Tried == running \cup got \cup failed

Init ==
  /\ listed = 0
  /\ running = {} /\ got = {} /\ failed = {}
  /\ reply = "none"
  /\ answer = {}

ListPage(n) ==
  /\ reply = "none"
  /\ listed' = listed + n
  /\ UNCHANGED <<running, got, failed, reply, answer>>

(* Fetches of inputs already listed may go on after an error was replied.  *)
Start(i) ==
  /\ reply # "ok"
  /\ i \notin Tried
  /\ Cardinality(running) < MaxParallel
  /\ running' = running \cup {i}
  /\ UNCHANGED <<listed, got, failed, reply, answer>>

Succeed(i) ==
  /\ i \in running
  /\ running' = running \ {i}
  /\ got' = got \cup {i}
  /\ UNCHANGED <<listed, failed, reply, answer>>

Fail(i) ==
  /\ i \in running
  /\ running' = running \ {i}
  /\ failed' = failed \cup {i}
  /\ UNCHANGED <<listed, got, reply, answer>>

ReplyItems ==
  /\ reply = "none"
  /\ got \cup failed = 1..listed
  /\ reply' = "ok"
  /\ answer' = got
  /\ UNCHANGED <<listed, running, got, failed>>

ReplyError ==
  /\ reply = "none"
  /\ reply' = "error"
  /\ UNCHANGED <<listed, running, got, failed, answer>>

Next ==
  \/ \E n \in 0..MaxJobs : ListPage(n)
  \/ \E i \in 1..listed : Start(i) \/ Succeed(i) \/ Fail(i)
  \/ ReplyItems
  \/ ReplyError

Spec == Init /\ [][Next]_vars
=============================================================================
