---------------------------- MODULE ListPipeline ----------------------------
(***************************************************************************)
(* AlwaysGetSource.listInternal (sources/always_get_source.go): the        *)
(* calling goroutine pages through the AWS list API and pushes the inputs  *)
(* it finds to a dispatcher, which takes a permission and starts one       *)
(* worker per input; a worker calls GetFunc and sends its item to a        *)
(* collector; closing one channel after the other tells each goroutine     *)
(* that there will be no more.                                             *)
(*                                                                         *)
(* Inputs are numbered in the order the pages list them.  A send on an     *)
(* unbuffered channel and its receive are one step.                        *)
(***************************************************************************)
EXTENDS Naturals, FiniteSets

CONSTANTS
  MaxParallel,  \* s.MaxParallel.Value()
  MaxJobs,      \* bound: inputs one List can produce
  MaxPages,     \* bound: pages of the list API
  MaxPanics     \* bound: GetFunc calls that panic

ASSUME PipelineAssumption ==
  /\ MaxParallel \in Nat \ {0}
  /\ MaxJobs \in Nat
  /\ MaxPages \in Nat
  /\ MaxPanics \in Nat

VARIABLES
  caller,       \* the goroutine that runs listInternal
  pages,        \* pages it has read
  left,         \* inputs of the current page it still has to push
  dispatcher,   \* the goroutine that ranges over getInputs
  job,          \* the last input the dispatcher received
  permissions,  \* len(permissions)
  worker,       \* the goroutine of each input
  got,          \* inputs whose GetFunc returned an item
  collector,    \* the goroutine that ranges over itemsChan
  items         \* what it has collected

callerVars == <<caller, pages, left>>
vars == <<callerVars, dispatcher, job, permissions, worker, got, collector, items>>

Jobs == 1..MaxJobs
In(states) == {i \in Jobs : worker[i] \in states}

Init ==
  /\ caller = "paging"
  /\ pages = 0
  /\ left = 0
  /\ dispatcher = "receiving"
  /\ job = 0
  /\ permissions = MaxParallel
  /\ worker = [i \in Jobs |-> "none"]
  /\ got = {}
  /\ collector = "receiving"
  /\ items = {}

-----------------------------------------------------------------------------
(* The caller.                                                             *)

NextPage(n) ==
  /\ caller = "paging"
  /\ pages < MaxPages
  /\ job + n <= MaxJobs
  /\ caller' = "pushing"
  /\ pages' = pages + 1
  /\ left' = n
  /\ UNCHANGED <<dispatcher, job, permissions, worker, got, collector, items>>

(* return nil, err: getInputs stays open                                   *)
PageError ==
  /\ caller = "paging"
  /\ pages < MaxPages
  /\ caller' = "error"
  /\ UNCHANGED <<pages, left, dispatcher, job, permissions, worker, got,
                 collector, items>>

(* mutant: one push more than the page has inputs                          *)
PushPastEnd ==
  /\ caller = "pushing"
  /\ dispatcher = "receiving"
  /\ left' = left - 1
  /\ job' = job + 1
  /\ dispatcher' = "acquiring"
  /\ UNCHANGED <<caller, pages, permissions, worker, got, collector, items>>

(* getInputs <- q, received by the dispatcher                              *)
Push ==
  /\ caller = "pushing"
  /\ left > 0
  /\ dispatcher = "receiving"
  /\ left' = left - 1
  /\ job' = job + 1
  /\ dispatcher' = "acquiring"
  /\ UNCHANGED <<caller, pages, permissions, worker, got, collector, items>>

EndPage ==
  /\ caller = "pushing"
  /\ left = 0
  /\ caller' = "paging"
  /\ UNCHANGED <<pages, left, dispatcher, job, permissions, worker, got,
                 collector, items>>

(* No more pages, of which there is always one: close(getInputs).          *)
CloseInputs ==
  /\ caller = "paging"
  /\ pages > 0
  /\ caller' = "waiting"
  /\ UNCHANGED <<pages, left, dispatcher, job, permissions, worker, got,
                 collector, items>>

(* mutant: the items are returned without waiting for doneChan             *)
ReplyAtOnce ==
  /\ caller = "waiting"
  /\ caller' = "ok"
  /\ UNCHANGED <<pages, left, dispatcher, job, permissions, worker, got,
                 collector, items>>

(* <-doneChan; return items, nil                                           *)
Reply ==
  /\ caller = "waiting"
  /\ collector = "done"
  /\ caller' = "ok"
  /\ UNCHANGED <<pages, left, dispatcher, job, permissions, worker, got,
                 collector, items>>

-----------------------------------------------------------------------------
(* The dispatcher.                                                         *)

(* mutant: the worker is started without taking a permission               *)
AcquireNothing ==
  /\ dispatcher = "acquiring"
  /\ worker' = [worker EXCEPT ![job] = "getting"]
  /\ dispatcher' = "receiving"
  /\ UNCHANGED <<callerVars, job, permissions, got, collector, items>>

(* <-permissions; wg.Add(1); go func                                       *)
Acquire ==
  /\ dispatcher = "acquiring"
  /\ permissions > 0
  /\ permissions' = permissions - 1
  /\ worker' = [worker EXCEPT ![job] = "getting"]
  /\ dispatcher' = "receiving"
  /\ UNCHANGED <<callerVars, job, got, collector, items>>

(* getInputs is closed: the range loop ends                                *)
EndOfInputs ==
  /\ dispatcher = "receiving"
  /\ caller = "waiting"
  /\ dispatcher' = "joining"
  /\ UNCHANGED <<callerVars, job, permissions, worker, got, collector, items>>

NotDoneGetting == In({"getting"})   \* mutant: wg.Done before the item is sent

(* Workers wg.Wait waits for: started, and wg.Done not yet called.         *)
NotDone == In({"getting", "sending", "releasing", "finishing"})

(* wg.Wait(); close(itemsChan)                                             *)
CloseItems ==
  /\ dispatcher = "joining"
  /\ NotDone = {}
  /\ dispatcher' = "done"
  /\ UNCHANGED <<callerVars, job, permissions, worker, got, collector, items>>

-----------------------------------------------------------------------------
(* The workers and the collector.                                          *)

Move(i, from, to) ==
  /\ worker[i] = from
  /\ worker' = [worker EXCEPT ![i] = to]

GetSucceeds(i) ==
  /\ Move(i, "getting", "sending")
  /\ got' = got \cup {i}
  /\ UNCHANGED <<callerVars, dispatcher, job, permissions, collector, items>>

(* mutant: the error path returns before it gives the permission back      *)
GetFailsEarlyReturn(i) ==
  /\ Move(i, "getting", "finishing")
  /\ UNCHANGED <<callerVars, dispatcher, job, permissions, got, collector, items>>

(* the error is logged and nothing else                                    *)
GetFails(i) ==
  /\ Move(i, "getting", "releasing")
  /\ UNCHANGED <<callerVars, dispatcher, job, permissions, got, collector, items>>

(* A panic unwinds through wg.Done and ends in sentry.Recover: the         *)
(* statement that gives the permission back is not deferred.               *)
GetPanics(i) ==
  /\ Cardinality(In({"panicked"})) < MaxPanics
  /\ Move(i, "getting", "panicked")
  /\ UNCHANGED <<callerVars, dispatcher, job, permissions, got, collector, items>>

(* mutant: nobody collects once the caller has left                        *)
SendItemToCaller(i) ==
  /\ caller # "error"
  /\ collector = "receiving"
  /\ Move(i, "sending", "releasing")
  /\ items' = items \cup {i}
  /\ UNCHANGED <<callerVars, dispatcher, job, permissions, got, collector>>

(* itemsChan <- item, received and appended by the collector               *)
SendItem(i) ==
  /\ collector = "receiving"
  /\ Move(i, "sending", "releasing")
  /\ items' = items \cup {i}
  /\ UNCHANGED <<callerVars, dispatcher, job, permissions, got, collector>>

(* permissions <- struct{}{}                                               *)
Release(i) ==
  /\ permissions < MaxParallel
  /\ Move(i, "releasing", "finishing")
  /\ permissions' = permissions + 1
  /\ UNCHANGED <<callerVars, dispatcher, job, got, collector, items>>

(* the deferred wg.Done                                                    *)
Finish(i) ==
  /\ Move(i, "finishing", "done")
  /\ UNCHANGED <<callerVars, dispatcher, job, permissions, got, collector, items>>

(* itemsChan is closed: close(doneChan)                                    *)
EndOfItems ==
  /\ collector = "receiving"
  /\ dispatcher = "done"
  /\ collector' = "done"
  /\ UNCHANGED <<callerVars, dispatcher, job, permissions, worker, got, items>>

-----------------------------------------------------------------------------
Caller ==
  \/ \E n \in 0..MaxJobs : NextPage(n)
  \/ PageError \/ Push \/ EndPage \/ CloseInputs \/ Reply

Dispatcher == Acquire \/ EndOfInputs \/ CloseItems

Worker(i) ==
  \/ GetSucceeds(i) \/ GetFails(i) \/ GetPanics(i)
  \/ SendItem(i) \/ Release(i) \/ Finish(i)

Next == Caller \/ Dispatcher \/ EndOfItems \/ \E i \in Jobs : Worker(i)

Spec == Init /\ [][Next]_vars

(* Goroutines that can run do run, and AWS calls return.                   *)
Fairness ==
  /\ WF_vars(Caller)
  /\ WF_vars(Dispatcher)
  /\ WF_vars(EndOfItems)
  /\ \A i \in Jobs : WF_vars(Worker(i))

FairSpec == Spec /\ Fairness

-----------------------------------------------------------------------------
(* Types of the pipeline's variables.                                      *)
TypeOK ==
  /\ caller \in {"paging", "pushing", "waiting", "ok", "error"}
  /\ pages \in 0..MaxPages
  /\ left \in 0..MaxJobs
  /\ dispatcher \in {"receiving", "acquiring", "joining", "done"}
  /\ job \in 0..MaxJobs
  /\ permissions \in 0..MaxParallel
  /\ worker \in [Jobs -> {"none", "getting", "sending", "releasing",
                          "finishing", "done", "panicked"}]
  /\ got \in SUBSET Jobs
  /\ collector \in {"receiving", "done"}
  /\ items \in SUBSET Jobs

(* "allow only a certain number of Get requests to run in parallel"        *)
(* (always_get_source.go:242).                                             *)
BoundedParallel == Cardinality(In({"getting"})) <= MaxParallel

(* Giving a permission back never blocks a worker, so a permission is      *)
(* never given back twice, nor one that was not taken.                     *)
ReleaseNeverBlocks == In({"releasing"}) # {} => permissions < MaxParallel

(* No worker is left to send on itemsChan when it is closed: such a send   *)
(* panics, and the item is lost.                                           *)
NoSendAfterClose == dispatcher = "done" => In({"getting", "sending"}) = {}

(* What listInternal promises, with workers' states mapped to fetches.     *)
Contract == INSTANCE ListContract WITH
  listed  <- job + left,
  running <- In({"getting"}),
  failed  <- In({"releasing", "finishing", "done", "panicked"}) \ got,
  reply   <- IF caller \in {"ok", "error"} THEN caller ELSE "none",
  answer  <- IF caller = "ok" THEN items ELSE {}

ImplementsContract == Contract!Spec

(* A List is answered as long as fewer Gets panic than there are           *)
(* permissions.                                                            *)
Answers == <>(caller \in {"ok", "error"})

(* Fetches under way when a page fails are not stranded by the error       *)
(* reply: each of their workers comes to its end.                          *)
WorkersEnd ==
  \A i \in Jobs : worker[i] = "getting" ~> worker[i] \in {"done", "panicked"}

(* "Close channel as there will be no more items"                          *)
(* (always_get_source.go:279): after an error reply no more items come.    *)
ErrorEndsGoroutines == caller = "error" ~> dispatcher = "done"
=============================================================================
