------------------------- MODULE ListPipelineProofs -------------------------
(***************************************************************************)
(* listInternal keeps its promise for every number of inputs, pages,       *)
(* permissions and panics: types, bounded parallelism, no send on a closed *)
(* channel, and that the pipeline implements ListContract.                 *)
(***************************************************************************)
EXTENDS ListPipeline, FiniteSetTheorems, TLAPS

(* Workers that took a permission and have not given it back.              *)
Holding == In({"getting", "sending", "releasing", "panicked"})

PermissionInv == permissions + Cardinality(Holding) = MaxParallel

(* Inputs are numbered as they are received; a job's worker starts when    *)
(* the dispatcher has a permission for it.                                 *)
JobInv ==
  /\ job + left <= MaxJobs
  /\ left > 0 => caller = "pushing"
  /\ dispatcher = "acquiring" => job > 0
  /\ \A i \in Jobs :
       worker[i] = "none" <=> i > job \/ (i = job /\ dispatcher = "acquiring")

(* Each goroutine ends after those it waits for.                           *)
CloseInv ==
  /\ dispatcher \in {"joining", "done"} => caller \in {"waiting", "ok"}
  /\ dispatcher = "done" => NotDone = {}
  /\ collector = "done" => dispatcher = "done"
  /\ caller = "ok" => collector = "done"

(* What was fetched is on its way to the collector or with it.             *)
ItemInv ==
  /\ In({"sending"}) \subseteq got
  /\ got \cap In({"none", "getting", "panicked"}) = {}
  /\ items = got \ In({"sending"})

IInv == TypeOK /\ PermissionInv /\ JobInv /\ CloseInv /\ ItemInv

-----------------------------------------------------------------------------
(* A set of workers picked out by their state is finite.                   *)
LEMMA InFinite ==
  ASSUME NEW S
  PROVE  In(S) \subseteq Jobs /\ IsFiniteSet(In(S)) /\ Cardinality(In(S)) \in Nat
<1>1. IsFiniteSet(Jobs)
  BY PipelineAssumption, FS_Interval DEF Jobs
<1>2. In(S) \subseteq Jobs
  BY DEF In
<1> QED BY <1>1, <1>2, FS_Subset, FS_CardinalityType

(* What a worker's change of state does to such a set.                     *)
LEMMA InMove ==
  ASSUME TypeOK, NEW i \in Jobs, NEW from, NEW to, from # to, Move(i, from, to),
         NEW S
  PROVE  In(S)' = IF to \in S THEN In(S) \cup {i} ELSE In(S) \ {i}
  BY DEF In, Move, TypeOK

(* How many workers such a set has after the change.                       *)
LEMMA InMoveCardinality ==
  ASSUME TypeOK, NEW i \in Jobs, NEW from, NEW to, from # to, Move(i, from, to),
         NEW S
  PROVE  Cardinality(In(S)') = Cardinality(In(S))
                                 + (IF to \in S THEN 1 ELSE 0)
                                 - (IF from \in S THEN 1 ELSE 0)
<1>1. i \in In(S) <=> from \in S
  BY DEF In, Move
<1>2. CASE to \in S
  BY <1>1, <1>2, InMove, InFinite, FS_AddElement
<1>3. CASE to \notin S
  BY <1>1, <1>3, InMove, InFinite, FS_RemoveElement
<1> QED BY <1>2, <1>3

-----------------------------------------------------------------------------
(* At first nobody holds a permission and no worker exists.                *)
LEMMA InitIInv == Init => IInv
<1> SUFFICES ASSUME Init PROVE IInv
  OBVIOUS
<1> USE PipelineAssumption DEF Init
<1>1. \A S : "none" \notin S => In(S) = {}
  BY DEF In
<1>2. TypeOK
  BY DEF TypeOK
<1>3. PermissionInv
  <2>1. Holding = {}
    BY <1>1 DEF Holding
  <2> QED BY <2>1, FS_EmptySet DEF PermissionInv
<1>4. JobInv
  BY DEF JobInv, Jobs
<1>5. CloseInv /\ ItemInv
  BY <1>1 DEF CloseInv, ItemInv
<1> QED BY <1>2, <1>3, <1>4, <1>5 DEF IInv

(* Steps that leave the workers and what they produce alone.               *)
LEMMA CallerIInv ==
  ASSUME IInv,
         \/ \E n \in 0..MaxJobs : NextPage(n)
         \/ PageError \/ Push \/ EndPage \/ CloseInputs \/ Reply
         \/ EndOfInputs \/ CloseItems \/ EndOfItems
         \/ UNCHANGED vars
  PROVE  IInv'
<1> USE PipelineAssumption DEF IInv
<1>1. UNCHANGED <<permissions, worker, got, items>>
  BY DEF NextPage, PageError, Push, EndPage, CloseInputs, Reply, EndOfInputs,
         CloseItems, EndOfItems, vars, callerVars
<1>2. TypeOK'
  BY DEF TypeOK, JobInv, NextPage, PageError, Push, EndPage, CloseInputs, Reply,
         EndOfInputs, CloseItems, EndOfItems, vars, callerVars
<1>3. \A S : In(S)' = In(S)
  BY <1>1 DEF In
<1>4. PermissionInv' /\ ItemInv'
  BY <1>1, <1>3 DEF PermissionInv, ItemInv, Holding
<1>5. JobInv'
  <2>1. CASE \E n \in 0..MaxJobs : NextPage(n)
    BY <2>1 DEF JobInv, TypeOK, NextPage
  <2>2. CASE Push
    <3>1. job + left <= MaxJobs /\ job' = job + 1 /\ left' = left - 1 /\ left > 0
      BY <2>2 DEF Push, JobInv
    <3>2. dispatcher = "receiving" /\ dispatcher' = "acquiring" /\ caller' = caller
      BY <2>2 DEF Push
    <3>3. \A i \in Jobs : i > job <=> i > job + 1 \/ i = job + 1
      BY DEF Jobs, TypeOK
    <3>4. caller = "pushing"
      BY <2>2 DEF Push
    <3> QED BY <1>1, <3>1, <3>2, <3>3, <3>4 DEF JobInv, TypeOK
  <2>3. CASE PageError \/ EndPage \/ CloseInputs \/ Reply \/ EndOfInputs
             \/ CloseItems \/ EndOfItems \/ UNCHANGED vars
    BY <2>3 DEF JobInv, TypeOK, PageError, EndPage, CloseInputs, Reply,
                EndOfInputs, CloseItems, EndOfItems, vars, callerVars
  <2> QED BY <2>1, <2>2, <2>3
<1>6. NotDone' = NotDone
  BY <1>3 DEF NotDone
<1>7. CloseInv'
  BY <1>6 DEF CloseInv, TypeOK, NextPage, PageError, Push, EndPage, CloseInputs,
              Reply, EndOfInputs, CloseItems, EndOfItems, vars, callerVars
<1> QED BY <1>2, <1>4, <1>5, <1>7

(* A worker starts.                                                        *)
LEMMA AcquireIInv == ASSUME IInv, Acquire PROVE IInv'
<1> USE PipelineAssumption DEF IInv
<1>1. /\ job \in Jobs /\ permissions > 0 /\ permissions' = permissions - 1
      /\ dispatcher = "acquiring" /\ dispatcher' = "receiving"
      /\ UNCHANGED <<callerVars, job, got, collector, items>>
  BY DEF Acquire, JobInv, TypeOK, Jobs
<1>2. Move(job, "none", "getting")
  BY <1>1 DEF Acquire, JobInv, Move
<1>3. TypeOK'
  BY <1>1, <1>2 DEF TypeOK, Move, callerVars
<1>4. Cardinality(Holding') = Cardinality(Holding) + 1
  BY <1>1, <1>2, InMoveCardinality, InFinite DEF Holding
<1>5. PermissionInv'
  BY <1>1, <1>4, InFinite DEF PermissionInv, TypeOK, Holding
<1>6. JobInv'
  BY <1>1, <1>2 DEF JobInv, Move, TypeOK, Jobs, callerVars
<1>7. CloseInv'
  BY <1>1 DEF CloseInv, callerVars
<1>8. ItemInv'
  <2>1. In({"sending"})' = In({"sending"}) \ {job}
    BY <1>1, <1>2, InMove
  <2>2. job \in In({"none", "getting", "panicked"})
    BY <1>1, <1>2 DEF In, Move
  <2>3. In({"none", "getting", "panicked"})' = In({"none", "getting", "panicked"})
    BY <1>1, <1>2, <2>2, InMove
  <2>4. job \notin got
    BY <2>2 DEF ItemInv
  <2> QED BY <1>1, <2>1, <2>3, <2>4 DEF ItemInv
<1> QED BY <1>3, <1>5, <1>6, <1>7, <1>8

(* A started worker takes a step.                                          *)
LEMMA WorkerIInv == ASSUME IInv, NEW i \in Jobs, Worker(i) PROVE IInv'
<1> USE PipelineAssumption DEF IInv
<1>1. UNCHANGED <<callerVars, dispatcher, job, collector>>
  BY DEF Worker, GetSucceeds, GetFails, GetPanics, SendItem, Release, Finish
<1>2. PICK from \in {"getting", "sending", "releasing", "finishing"},
           to \in {"sending", "releasing", "finishing", "done", "panicked"} :
        Move(i, from, to) /\ from # to
  BY DEF Worker, GetSucceeds, GetFails, GetPanics, SendItem, Release, Finish
<1>3. TypeOK'
  BY <1>1, <1>2 DEF TypeOK, Worker, GetSucceeds, GetFails, GetPanics, SendItem,
                    Release, Finish, Move, callerVars
<1>4. PermissionInv'
  <2>1. CASE Release(i)
    <3>1. permissions' = permissions + 1 /\ Move(i, "releasing", "finishing")
      BY <2>1 DEF Release
    <3>2. Cardinality(Holding') = Cardinality(Holding) - 1
      BY <3>1, InMoveCardinality, InFinite DEF Holding
    <3> QED BY <3>1, <3>2, InFinite DEF PermissionInv, TypeOK, Holding
  <2>2. CASE GetSucceeds(i) \/ GetFails(i) \/ GetPanics(i) \/ SendItem(i) \/ Finish(i)
    <3>1. permissions' = permissions
      BY <2>2 DEF GetSucceeds, GetFails, GetPanics, SendItem, Finish
    <3>2. Cardinality(Holding') = Cardinality(Holding)
      BY <2>2, InMoveCardinality, InFinite
      DEF Holding, GetSucceeds, GetFails, GetPanics, SendItem, Finish
    <3> QED BY <3>1, <3>2 DEF PermissionInv
  <2> QED BY <2>1, <2>2 DEF Worker
<1>5. JobInv'
  BY <1>1, <1>2 DEF JobInv, Move, TypeOK, callerVars
<1>6. CloseInv'
  <2>1. i \in NotDone
    BY <1>2 DEF NotDone, In, Move
  <2>2. dispatcher # "done"
    BY <2>1 DEF CloseInv
  <2> QED BY <1>1, <2>2 DEF CloseInv, callerVars
<1>7. ItemInv'
  <2>1. In({"sending"})' = IF to = "sending" THEN In({"sending"}) \cup {i}
                                             ELSE In({"sending"}) \ {i}
    BY <1>2, InMove
  <2>2. In({"none", "getting", "panicked"})' =
          IF to = "panicked" THEN In({"none", "getting", "panicked"}) \cup {i}
                             ELSE In({"none", "getting", "panicked"}) \ {i}
    BY <1>2, InMove
  <2>3. worker[i] = from /\ (i \in In({"sending"}) <=> from = "sending")
        /\ (i \in In({"none", "getting", "panicked"}) <=> from = "getting")
    BY <1>2 DEF Move, In
  <2>4. CASE GetSucceeds(i)
    <3>1. from = "getting" /\ to = "sending"
      BY <2>4, <1>2 DEF GetSucceeds, Move, TypeOK
    <3> QED BY <2>1, <2>2, <2>3, <2>4, <3>1 DEF ItemInv, GetSucceeds
  <2>5. CASE GetFails(i) \/ GetPanics(i)
    <3>1. from = "getting" /\ to # "sending"
      BY <2>5, <1>2 DEF GetFails, GetPanics, Move, TypeOK
    <3> QED BY <2>1, <2>2, <2>3, <2>5, <3>1 DEF ItemInv, GetFails, GetPanics
  <2>6. CASE SendItem(i)
    <3>1. from = "sending" /\ to = "releasing"
      BY <2>6, <1>2 DEF SendItem, Move, TypeOK
    <3> QED BY <2>1, <2>2, <2>3, <2>6, <3>1 DEF ItemInv, SendItem
  <2>7. CASE Release(i) \/ Finish(i)
    <3>1. from \in {"releasing", "finishing"} /\ to \in {"finishing", "done"}
      BY <2>7, <1>2 DEF Release, Finish, Move, TypeOK
    <3> QED BY <2>1, <2>2, <2>3, <2>7, <3>1 DEF ItemInv, Release, Finish
  <2> QED BY <2>4, <2>5, <2>6, <2>7 DEF Worker
<1> QED BY <1>3, <1>4, <1>5, <1>6, <1>7

(* IInv is an invariant of the specification.                              *)
THEOREM Invariance == Spec => []IInv
<1>1. Init => IInv
  BY InitIInv
<1>2. IInv /\ [Next]_vars => IInv'
  BY CallerIInv, AcquireIInv, WorkerIInv DEF Next, Caller, Dispatcher
<1> QED BY <1>1, <1>2, PTL DEF Spec

(* The variables keep their types.                                         *)
THEOREM TypeCorrect == Spec => []TypeOK
<1>1. IInv => TypeOK
  BY DEF IInv
<1> QED BY <1>1, Invariance, PTL

(* Never more than MaxParallel GetFunc calls at once, also after an error  *)
(* reply and when workers panic (always_get_source.go:242-273).            *)
THEOREM ParallelismBounded == Spec => []BoundedParallel
<1>1. IInv => BoundedParallel
  <2> SUFFICES ASSUME IInv PROVE Cardinality(In({"getting"})) <= MaxParallel
    BY DEF BoundedParallel
  <2>1. In({"getting"}) \subseteq Holding
    BY DEF In, Holding
  <2>2. Cardinality(In({"getting"})) <= Cardinality(Holding)
    BY <2>1, InFinite, FS_Subset DEF Holding
  <2>3. Cardinality(Holding) \in Nat /\ Cardinality(In({"getting"})) \in Nat
    BY InFinite DEF Holding
  <2> QED BY <2>2, <2>3, PipelineAssumption DEF IInv, PermissionInv, TypeOK
<1> QED BY <1>1, Invariance, PTL

(* A worker giving its permission back finds room for it                   *)
(* (always_get_source.go:271).                                             *)
THEOREM PermissionsFit == Spec => []ReleaseNeverBlocks
<1>1. IInv => ReleaseNeverBlocks
  <2> SUFFICES ASSUME IInv, In({"releasing"}) # {} PROVE permissions < MaxParallel
    BY DEF ReleaseNeverBlocks
  <2>1. Holding # {}
    BY DEF Holding, In
  <2>2. Cardinality(Holding) \in Nat /\ Cardinality(Holding) # 0
    BY <2>1, InFinite, FS_EmptySet DEF Holding
  <2> QED BY <2>2, PipelineAssumption DEF IInv, PermissionInv, TypeOK
<1> QED BY <1>1, Invariance, PTL

(* No worker sends on itemsChan after its close                            *)
(* (always_get_source.go:277-280).                                         *)
THEOREM ClosedAfterLastSend == Spec => []NoSendAfterClose
<1>1. IInv => NoSendAfterClose
  BY DEF IInv, CloseInv, NoSendAfterClose, NotDone, In
<1> QED BY <1>1, Invariance, PTL

-----------------------------------------------------------------------------
(* The pipeline implements the contract: Init, then step by step.          *)
LEMMA InitContract == Init => Contract!Init
<1> SUFFICES ASSUME Init PROVE Contract!Init
  OBVIOUS
<1>1. \A S : "none" \notin S => In(S) = {}
  BY DEF Init, In
<1> QED BY <1>1 DEF Init, Contract!Init

(* The caller's steps: a page is a page, a reply a reply, and the rest is  *)
(* invisible.                                                              *)
LEMMA CallerContract ==
  ASSUME IInv,
         \/ \E n \in 0..MaxJobs : NextPage(n)
         \/ PageError \/ Push \/ EndPage \/ CloseInputs \/ Reply
         \/ EndOfInputs \/ CloseItems \/ EndOfItems
         \/ UNCHANGED vars
  PROVE  [Contract!Next]_Contract!vars
<1> USE PipelineAssumption DEF IInv
<1>1. UNCHANGED <<worker, got, items>>
  BY DEF NextPage, PageError, Push, EndPage, CloseInputs, Reply, EndOfInputs,
         CloseItems, EndOfItems, vars, callerVars
<1>2. \A S : In(S)' = In(S)
  BY <1>1 DEF In
<1>3. ASSUME NEW n \in 0..MaxJobs, NextPage(n) PROVE Contract!ListPage(n)
  <2>1. left = 0 /\ left' = n /\ job' = job /\ caller = "paging" /\ caller' = "pushing"
    BY <1>3 DEF NextPage, JobInv, TypeOK
  <2>2. job' + left' = job + left + n
    BY <2>1 DEF TypeOK
  <2> QED BY <1>1, <1>2, <2>1, <2>2 DEF Contract!ListPage
<1>4. CASE PageError
  BY <1>1, <1>2, <1>4 DEF PageError, Contract!Next, Contract!ReplyError
<1>5. CASE Push
  <2>1. job' + left' = job + left
    BY <1>5 DEF Push, TypeOK
  <2> QED BY <1>1, <1>2, <1>5, <2>1 DEF Push, Contract!vars
<1>6. CASE Reply
  <2>1. dispatcher = "done" /\ NotDone = {} /\ left = 0 /\ caller = "waiting"
        /\ caller' = "ok" /\ job' = job /\ left' = left
    BY <1>6 DEF Reply, CloseInv, JobInv, TypeOK
  <2>2. \A i \in Jobs : worker[i] \in {"none", "done", "panicked"}
    BY <2>1 DEF NotDone, In, TypeOK
  <2>3. \A i \in Jobs : i <= job <=> worker[i] # "none"
    BY <2>1 DEF JobInv, TypeOK, Jobs
  <2>4. got \subseteq Jobs /\ \A i \in got : worker[i] # "none"
    BY DEF TypeOK, ItemInv, In
  <2>5. got \cup (In({"releasing", "finishing", "done", "panicked"}) \ got)
          = 1..(job + left)
    <3>1. /\ job + left = job
          /\ \A i : i \in 1..job <=> i \in Jobs /\ i <= job
      BY <2>1 DEF TypeOK, Jobs
    <3>2. \A i \in 1..job : worker[i] \in {"done", "panicked"}
      BY <2>2, <2>3, <3>1
    <3>3. 1..job \subseteq In({"releasing", "finishing", "done", "panicked"})
      BY <3>1, <3>2 DEF In
    <3>4. got \subseteq 1..job
      BY <2>3, <2>4, <3>1
    <3>5. In({"releasing", "finishing", "done", "panicked"}) \subseteq 1..job
      BY <2>3, <3>1 DEF In
    <3> QED BY <3>1, <3>3, <3>4, <3>5
  <2>6. items = got
    BY <2>2 DEF ItemInv, In
  <2>7. Contract!ReplyItems
    BY <1>1, <1>2, <2>1, <2>5, <2>6 DEF Contract!ReplyItems
  <2> QED BY <2>7 DEF Contract!Next
<1>7. CASE EndPage \/ CloseInputs \/ EndOfInputs \/ CloseItems \/ EndOfItems
            \/ UNCHANGED vars
  <2>1. /\ UNCHANGED <<job, left>>
        /\ caller' = caller \/ (caller \notin {"ok", "error"} /\ caller' \notin {"ok", "error"})
    BY <1>7 DEF EndPage, CloseInputs, EndOfInputs, CloseItems, EndOfItems, vars,
                callerVars
  <2> QED BY <1>1, <1>2, <2>1 DEF Contract!vars
<1>8. CASE \E n \in 0..MaxJobs : NextPage(n)
  BY <1>3, <1>8 DEF Contract!Next
<1> QED BY <1>4, <1>5, <1>6, <1>7, <1>8

(* A worker starts: the contract's Start, within its bound.                *)
LEMMA AcquireContract == ASSUME IInv, Acquire PROVE Contract!Next
<1> USE PipelineAssumption DEF IInv
<1> DEFINE Ended == In({"releasing", "finishing", "done", "panicked"})
<1>1. /\ job \in Jobs /\ job > 0 /\ permissions > 0 /\ dispatcher = "acquiring"
      /\ UNCHANGED <<caller, pages, left, job, got, items>>
  BY DEF Acquire, JobInv, TypeOK, Jobs, callerVars
<1>2. Move(job, "none", "getting")
  BY <1>1 DEF Acquire, JobInv, Move
<1>3. caller # "ok"
  BY <1>1 DEF CloseInv
<1>4. job \in 1..(job + left)
  BY <1>1 DEF TypeOK
<1>5. job \notin In({"getting"}) /\ job \notin got /\ job \notin Ended
  <2>1. worker[job] = "none"
    BY <1>2 DEF Move
  <2>2. job \in In({"none", "getting", "panicked"})
    BY <1>1, <2>1 DEF In
  <2> QED BY <2>1, <2>2 DEF In, ItemInv
<1>6. Cardinality(In({"getting"})) < MaxParallel
  <2>1. In({"getting"}) \subseteq Holding
    BY DEF In, Holding
  <2>2. Cardinality(In({"getting"})) <= Cardinality(Holding)
    BY <2>1, InFinite, FS_Subset DEF Holding
  <2>3. Cardinality(Holding) \in Nat /\ Cardinality(In({"getting"})) \in Nat
    BY InFinite DEF Holding
  <2> QED BY <1>1, <2>2, <2>3 DEF PermissionInv, TypeOK
<1>7. In({"getting"})' = In({"getting"}) \cup {job}
  BY <1>1, <1>2, InMove
<1>8. Ended' = Ended
  BY <1>1, <1>2, <1>5, InMove
<1>9. job \notin (In({"getting"}) \cup got) \cup (Ended \ got)
  BY <1>5
<1>10. Contract!Start(job)
  <2> HIDE DEF Ended
  <2>1. job \notin Contract!Tried
    BY <1>9 DEF Contract!Tried, Ended
  <2>2. (IF caller \in {"ok", "error"} THEN caller ELSE "none") # "ok"
    BY <1>3
  <2>3. UNCHANGED <<job + left, got, Ended \ got,
                    IF caller \in {"ok", "error"} THEN caller ELSE "none",
                    IF caller = "ok" THEN items ELSE {}>>
    BY <1>1, <1>8
  <2>4. Contract!Cardinality(In({"getting"})) = Cardinality(In({"getting"}))
    BY DEF Contract!Cardinality, Cardinality
  <2> QED BY <1>6, <1>7, <2>1, <2>2, <2>3, <2>4 DEF Contract!Start, Ended
<1> QED BY <1>4, <1>10 DEF Contract!Next

(* A started worker's step: the end of its fetch, or invisible.            *)
LEMMA WorkerContract ==
  ASSUME IInv, NEW i \in Jobs, Worker(i) PROVE [Contract!Next]_Contract!vars
<1> USE PipelineAssumption DEF IInv
<1> DEFINE Ended == In({"releasing", "finishing", "done", "panicked"})
<1>1. UNCHANGED <<caller, pages, left, dispatcher, job, collector>>
  BY DEF Worker, GetSucceeds, GetFails, GetPanics, SendItem, Release, Finish, callerVars
<1>2. worker[i] \in {"getting", "sending", "releasing", "finishing"}
  BY DEF Worker, GetSucceeds, GetFails, GetPanics, SendItem, Release, Finish, Move
<1>3. caller # "ok"
  BY <1>2 DEF CloseInv, NotDone, In
<1>4. i \in 1..(job + left)
  <2>1. i <= job
    BY <1>2 DEF JobInv, TypeOK, Jobs
  <2> QED BY <2>1 DEF TypeOK, Jobs
<1>5. CASE GetSucceeds(i)
  <2>1. Move(i, "getting", "sending") /\ got' = got \cup {i}
    BY <1>5 DEF GetSucceeds
  <2>2. In({"getting"})' = In({"getting"}) \ {i} /\ Ended' = Ended \ {i}
    BY <2>1, InMove
  <2>3. i \in In({"getting"}) /\ i \notin Ended
    BY <2>1 DEF In, Move
  <2>4. Contract!Succeed(i)
    BY <1>1, <1>3, <2>1, <2>2, <2>3 DEF Contract!Succeed
  <2> QED BY <1>4, <2>4 DEF Contract!Next
<1>6. CASE GetFails(i) \/ GetPanics(i)
  <2>1. PICK to \in {"releasing", "panicked"} : Move(i, "getting", to)
    BY <1>6 DEF GetFails, GetPanics
  <2>2. In({"getting"})' = In({"getting"}) \ {i} /\ Ended' = Ended \cup {i}
    BY <2>1, InMove
  <2>3. i \in In({"getting"}) /\ i \notin got /\ got' = got
    BY <1>6, <2>1 DEF In, Move, ItemInv, GetFails, GetPanics
  <2>4. Contract!Fail(i)
    BY <1>1, <1>3, <2>2, <2>3 DEF Contract!Fail
  <2> QED BY <1>4, <2>4 DEF Contract!Next
<1>7. CASE SendItem(i)
  <2>1. Move(i, "sending", "releasing") /\ got' = got
    BY <1>7 DEF SendItem
  <2>2. In({"getting"})' = In({"getting"}) \ {i} /\ Ended' = Ended \cup {i}
    BY <2>1, InMove
  <2>3. i \notin In({"getting"}) /\ i \in got
    BY <2>1 DEF In, Move, ItemInv
  <2> QED BY <1>1, <1>3, <2>1, <2>2, <2>3 DEF Contract!vars
<1>8. CASE Release(i) \/ Finish(i)
  <2>1. PICK from \in {"releasing", "finishing"}, to \in {"finishing", "done"} :
          Move(i, from, to) /\ from # to
    BY <1>8 DEF Release, Finish
  <2>2. In({"getting"})' = In({"getting"}) \ {i} /\ Ended' = Ended \cup {i}
    BY <2>1, InMove
  <2>3. i \notin In({"getting"}) /\ i \in Ended /\ got' = got
    BY <1>8, <2>1 DEF In, Move, Release, Finish
  <2> QED BY <1>1, <1>3, <2>2, <2>3 DEF Contract!vars
<1> QED BY <1>5, <1>6, <1>7, <1>8 DEF Worker

(* listInternal implements what List promises (always_get_source.go:       *)
(* 230-322), whatever its pages, failures and panics.                      *)
THEOREM Implements == Spec => ImplementsContract
<1>1. Init => Contract!Init
  BY InitContract
<1>2. IInv /\ [Next]_vars => [Contract!Next]_Contract!vars
  BY CallerContract, AcquireContract, WorkerContract DEF Next, Caller, Dispatcher
<1> QED BY <1>1, <1>2, Invariance, PTL DEF Spec, Contract!Spec, ImplementsContract
=============================================================================
