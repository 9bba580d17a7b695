----------------------------- MODULE CallsProofs -----------------------------
(***************************************************************************)
(* What holds of queries over a rate limiter whatever they ask, for every  *)
(* number of callers and every bucket: they are callers in the sense of    *)
(* LimitBucket, whose theorems so hold of them, what waits is throttled,   *)
(* and what its ended context may cost an answer is told by the query.     *)
(***************************************************************************)
EXTENDS Calls, LimitBucketProofs, FiniteSetTheorems

(* The same steps, named by what they do to the bucket and its callers.    *)
LEMMA StepImplements == [CallsNext]_callsVars => [Next]_vars
<1> SUFFICES ASSUME [CallsNext]_callsVars PROVE [Next]_vars
  OBVIOUS
<1>1. CASE UNCHANGED callsVars
  BY <1>1 DEF callsVars
<1>2. CASE Watch \/ PassTime \/ Refilling \/ Stopping \/ Cancelling
  BY <1>2 DEF Watch, PassTime, Refilling, Stopping, Cancelling, Next
<1>3. ASSUME NEW c \in Callers, CallStep(c) PROVE [Next]_vars
  <2>1. CASE Begin(c) \/ Send(c)
    BY <2>1 DEF Begin, Send
  <2>2. CASE WaitInLine(c)
    BY <2>2 DEF WaitInLine, CallerStep, Next
  <2>3. CASE Outcome(c)
    BY <2>3 DEF Outcome, Receive, AskAgain, FailMildly, FailForGood, Over,
                CallerStep, Next
  <2>4. CASE Return(c)
    BY <2>4 DEF Return, CallerStep, Next
  <2>5. CASE EndContext(c)
    BY <2>5 DEF EndContext, Next
  <2> QED BY <1>3, <2>1, <2>2, <2>3, <2>4, <2>5 DEF CallStep
<1> QED BY <1>1, <1>2, <1>3 DEF CallsNext

(* Adapters use the limiter as LimitBucket's callers do: what is proved of *)
(* Spec holds of every bucket that throttles them.                         *)
THEOREM CallsImplement == CallsSpec => ImplementsBucket
<1>1. CallsInit => Init
  BY DEF CallsInit
<1> QED BY <1>1, StepImplements, PTL DEF CallsSpec, ImplementsBucket, Spec

-----------------------------------------------------------------------------
(* Which requests each query sends.                                        *)
LEMMA RequestsByName ==
      /\ Requests["AddressGet"] = AddressGet
      /\ Requests["VolumeList"] = VolumeList
      /\ Requests["SiteGet"] = SiteGet
      /\ Requests["LoadBalancerList"] = LoadBalancerList
      /\ Requests["DBInstanceList"] = DBInstanceList
      /\ Requests["AlarmList"] = AlarmList
      /\ Requests["HealthCheckGet"] = HealthCheckGet
      /\ Requests["HealthCheckList"] = HealthCheckList
      /\ Requests["InstanceProfileGet"] = InstanceProfileGet
      /\ Requests["InstanceProfileList"] = InstanceProfileList
      /\ Requests["PolicyGet"] = PolicyGet
      /\ Requests["PolicyList"] = PolicyList
      /\ Requests["UserGet"] = UserGet
      /\ Requests["UserList"] = UserList
      /\ Requests["RoleGet"] = RoleGet
      /\ Requests["RoleList"] = RoleList
      /\ Requests["FunctionGet"] = FunctionGet
      /\ Requests["FirewallGet"] = FirewallGet
      /\ Requests["TableGet"] = TableGet
      /\ Queries =
           {"AddressGet", "VolumeList", "SiteGet", "LoadBalancerList",
            "DBInstanceList", "AlarmList", "HealthCheckGet", "HealthCheckList",
            "InstanceProfileGet", "InstanceProfileList", "PolicyGet", "PolicyList",
            "UserGet", "UserList", "RoleGet", "RoleList",
            "FunctionGet", "FirewallGet", "TableGet"}
  BY DEF Requests, Queries

(* The requests of a query are a sequence of requests, one at least.       *)
RequestType ==
  [waits : BOOLEAN, then : SUBSET Int, failing : SUBSET Int, loses : BOOLEAN]

LEMMA HelperTypes ==
  /\ \A t \in SUBSET Int : Limited(t) \in RequestType /\ Direct(t) \in RequestType
  /\ \A r \in RequestType : AskedAgain(r) \in RequestType
  /\ \A r \in RequestType, t \in SUBSET Int :
       Noted(r, t) \in RequestType /\ Dropped(r, t) \in RequestType
<1>1. \A t \in SUBSET Int : Limited(t) \in RequestType /\ Direct(t) \in RequestType
  BY DEF Limited, Direct, Must, RequestType
<1>2. ASSUME NEW r \in RequestType, NEW t \in SUBSET Int
      PROVE  Noted(r, t) \in RequestType
  BY DEF Noted, RequestType
<1>3. ASSUME NEW r \in RequestType, NEW t \in SUBSET Int
      PROVE  Dropped(r, t) \in RequestType
  BY DEF Dropped, RequestType
<1>4. ASSUME NEW r \in RequestType PROVE AskedAgain(r) \in RequestType
  BY DEF AskedAgain, RequestType
<1> QED BY <1>1, <1>2, <1>3, <1>4

LEMMA RequestsType ==
  ASSUME NEW query \in Queries
  PROVE  Requests[query] \in Seq(RequestType) /\ Len(Requests[query]) > 0
<1> USE HelperTypes
<1> HIDE DEF RequestType
<1>1. /\ AddressGet \in Seq(RequestType) /\ Len(AddressGet) > 0
      /\ VolumeList \in Seq(RequestType) /\ Len(VolumeList) > 0
      /\ SiteGet \in Seq(RequestType) /\ Len(SiteGet) > 0
      /\ LoadBalancerList \in Seq(RequestType) /\ Len(LoadBalancerList) > 0
  BY DEF AddressGet, VolumeList, SiteGet, LoadBalancerList
<1>2. /\ DBInstanceList \in Seq(RequestType) /\ Len(DBInstanceList) > 0
      /\ AlarmList \in Seq(RequestType) /\ Len(AlarmList) > 0
      /\ HealthCheckGet \in Seq(RequestType) /\ Len(HealthCheckGet) > 0
      /\ HealthCheckList \in Seq(RequestType) /\ Len(HealthCheckList) > 0
  BY DEF DBInstanceList, AlarmList, HealthCheckGet, HealthCheckList
<1>3. /\ InstanceProfileGet \in Seq(RequestType) /\ Len(InstanceProfileGet) > 0
      /\ InstanceProfileList \in Seq(RequestType) /\ Len(InstanceProfileList) > 0
      /\ PolicyGet \in Seq(RequestType) /\ Len(PolicyGet) > 0
      /\ PolicyList \in Seq(RequestType) /\ Len(PolicyList) > 0
  BY DEF InstanceProfileGet, InstanceProfileList, PolicyGet, PolicyList
<1>4. /\ UserGet \in Seq(RequestType) /\ Len(UserGet) > 0
      /\ UserList \in Seq(RequestType) /\ Len(UserList) > 0
      /\ RoleGet \in Seq(RequestType) /\ Len(RoleGet) > 0
      /\ RoleList \in Seq(RequestType) /\ Len(RoleList) > 0
  BY DEF UserGet, UserList, RoleGet, RoleList
<1>5. /\ FunctionGet \in Seq(RequestType) /\ Len(FunctionGet) > 0
      /\ FirewallGet \in Seq(RequestType) /\ Len(FirewallGet) > 0
      /\ TableGet \in Seq(RequestType) /\ Len(TableGet) > 0
  BY DEF FunctionGet, FirewallGet, TableGet
<1> QED BY <1>1, <1>2, <1>3, <1>4, <1>5, RequestsByName

-----------------------------------------------------------------------------
CallType ==
  [query : Queries \cup {"none"}, at : Nat, out : BOOLEAN, more : 0..MoreMax,
   lacks : BOOLEAN, noted : BOOLEAN, answer : {"none", "items", "error"}]

LEMMA CallRecord ==
  ASSUME NEW query \in Queries \cup {"none"}, NEW at \in Nat, NEW out \in BOOLEAN,
         NEW more \in 0..MoreMax, NEW lacks \in BOOLEAN, NEW noted \in BOOLEAN,
         NEW answer \in {"none", "items", "error"}
  PROVE  [query |-> query, at |-> at, out |-> out, more |-> more, lacks |-> lacks,
          noted |-> noted, answer |-> answer] \in CallType
BY DEF CallType

(* What a failure, a further page and a dropped request change in a call.  *)
LEMMA UpdatedByError ==
  ASSUME NEW r \in CallType, NEW new,
         new = [r EXCEPT !.at = 0, !.out = FALSE, !.answer = "error"]
  PROVE  /\ new \in CallType /\ new.at = 0 /\ ~new.out
         /\ new.answer = "error" /\ new.lacks = r.lacks
         /\ new.query = r.query /\ new.noted = r.noted
<1>1. new = [query |-> r.query, at |-> 0, out |-> FALSE, more |-> r.more,
             lacks |-> r.lacks, noted |-> r.noted, answer |-> "error"]
  BY DEF CallType
<1>2. /\ r.query \in Queries \cup {"none"} /\ r.more \in 0..MoreMax
      /\ r.lacks \in BOOLEAN /\ r.noted \in BOOLEAN
  BY DEF CallType
<1>3. new \in CallType
  BY ONLY <1>1, <1>2, CallRecord
<1> QED BY <1>1, <1>3

LEMMA UpdatedByMore ==
  ASSUME NEW r \in CallType, NEW new, new = [r EXCEPT !.more = @ + 1],
         r.more + 1 \in 0..MoreMax
  PROVE  /\ new \in CallType /\ new.query = r.query /\ new.at = r.at
         /\ new.out = r.out /\ new.answer = r.answer /\ new.lacks = r.lacks
         /\ new.noted = r.noted
BY DEF CallType

LEMMA UpdatedByLoss ==
  \A c \in Callers : \A r \in CallType :
    /\ WithoutIt(c, r) \in CallType
    /\ WithoutIt(c, r).query = r.query /\ WithoutIt(c, r).at = r.at
    /\ WithoutIt(c, r).out = r.out /\ WithoutIt(c, r).answer = r.answer
    /\ WithoutIt(c, r).lacks = TRUE =>
         r.lacks = TRUE \/ (Request(c).loses /\ Ended(c))
    /\ WithoutIt(c, r).noted = TRUE =>
         r.noted = TRUE \/ (~Request(c).loses /\ Ended(c))
<1> TAKE c \in Callers
<1> TAKE r \in CallType
<1> DEFINE new == WithoutIt(c, r)
<1> DEFINE lacks == r.lacks \/ (Request(c).loses /\ Ended(c))
           noted == r.noted \/ (~Request(c).loses /\ Ended(c))
<1>1. lacks \in BOOLEAN /\ noted \in BOOLEAN
  OBVIOUS
<1>2. new = [r EXCEPT !.lacks = lacks, !.noted = noted]
  BY DEF WithoutIt
<1>3. r.lacks \in BOOLEAN /\ r.noted \in BOOLEAN
  BY DEF CallType
<1>4. /\ lacks = TRUE => r.lacks = TRUE \/ (Request(c).loses /\ Ended(c))
      /\ noted = TRUE => r.noted = TRUE \/ (~Request(c).loses /\ Ended(c))
  BY <1>3
<1> HIDE DEF lacks, noted, new
<1>5. new \in CallType /\ new.query = r.query /\ new.at = r.at
  BY <1>1, <1>2 DEF CallType
<1>6. new.out = r.out /\ new.answer = r.answer /\ new.lacks = lacks /\ new.noted = noted
  BY <1>1, <1>2 DEF CallType
<1> QED BY <1>4, <1>5, <1>6 DEF new

(* The invariant of the types, with what it takes from the bucket.         *)
CallsInv == IInv /\ QueueInv /\ CallsTypeOK

(* Some facts about a caller that has a query under way.                   *)
LEMMA UnderFacts ==
  ASSUME CallsTypeOK, NEW c \in Callers, Under(c)
  PROVE  /\ call[c].query \in Queries
         /\ Requests[call[c].query] \in Seq(RequestType)
         /\ call[c].at \in 1..Len(Requests[call[c].query])
         /\ Request(c) \in RequestType
         /\ call[c].answer = "none"
         /\ ~Request(c).waits => caller[c] = "idle"
<1>1. InOrder(c)
  BY DEF CallsTypeOK
<1>2. /\ call[c].query \in Queries
      /\ call[c].at \in 1..Len(Requests[call[c].query])
      /\ call[c].answer = "none"
      /\ ~Request(c).waits => caller[c] = "idle"
  BY <1>1 DEF InOrder
<1>3. Requests[call[c].query] \in Seq(RequestType)
  BY <1>2, RequestsType
<1>4. Request(c) \in RequestType
  BY <1>2, <1>3 DEF Request
<1> QED BY <1>2, <1>3, <1>4

(* When a request is over its caller is idle, and the others are as they   *)
(* were.                                                                   *)
LEMMA OverFacts ==
  ASSUME CallsTypeOK, NEW c \in Callers, Under(c), Over(c)
  PROVE  /\ caller' = [caller EXCEPT ![c] = "idle"]
         /\ UNCHANGED <<bucketVars, reqCtx, window>>
<1>1. CASE Request(c).waits
  BY <1>1 DEF Over, CallReturns
<1>2. CASE ~Request(c).waits
  <2>1. caller[c] = "idle"
    BY <1>2, UnderFacts
  <2>2. UNCHANGED vars
    BY <1>2 DEF Over
  <2> QED BY <2>1, <2>2 DEF vars, callerVars, CallsTypeOK, TypeOK
<1> QED BY <1>1, <1>2

(* Where a query goes on to is a request of it, or the answer.             *)
LEMMA GoOnFacts ==
  ASSUME CallsTypeOK, NEW c \in Callers, Under(c), NEW d \in Int, NEW new,
         new = GoOn(c, d)
  PROVE  /\ new \in CallType
         /\ new.query = call[c].query /\ ~new.out
         /\ new.more = call[c].more /\ new.lacks = call[c].lacks
         /\ new.noted = call[c].noted
         /\ new.at > 0 => /\ new.at \in 1..Len(Requests[new.query])
                          /\ new.answer = "none"
         /\ call[c].at + d \in 1..Len(Requests[call[c].query]) =>
              new.at = call[c].at + d /\ new.answer = "none"
<1> DEFINE next == call[c].at + d
<1>1. /\ call[c] \in CallType
      /\ Requests[call[c].query] \in Seq(RequestType)
      /\ call[c].answer = "none"
      /\ DOMAIN Requests[call[c].query] = 1..Len(Requests[call[c].query])
  BY UnderFacts DEF CallsTypeOK, CallType
<1>2. CASE next \in DOMAIN Requests[call[c].query]
  <2>1. new = [call[c] EXCEPT !.at = next, !.out = FALSE]
    BY <1>2 DEF GoOn
  <2>2. next \in Nat
    BY <1>1, <1>2
  <2> QED BY <1>1, <1>2, <2>1, <2>2 DEF CallType
<1>3. CASE next \notin DOMAIN Requests[call[c].query]
  <2>1. new = [call[c] EXCEPT !.at = 0, !.out = FALSE, !.answer = "items"]
    BY <1>3 DEF GoOn
  <2>2. /\ call[c].query \in Queries \cup {"none"} /\ call[c].more \in 0..MoreMax
        /\ call[c].lacks \in BOOLEAN /\ call[c].noted \in BOOLEAN
    BY <1>1 DEF CallType
  <2>3. new = [query |-> call[c].query, at |-> 0, out |-> FALSE,
               more |-> call[c].more, lacks |-> call[c].lacks,
               noted |-> call[c].noted, answer |-> "items"]
    BY <1>1, <2>1 DEF CallType
  <2>4. new \in CallType
    BY <2>2, <2>3 DEF CallType
  <2>5. call[c].at + d \notin 1..Len(Requests[call[c].query])
    BY <1>1, <1>3
  <2> QED BY <2>3, <2>4, <2>5
<1> QED BY <1>2, <1>3

(* The same when it comes back for more.                                   *)
LEMMA ContinueFacts ==
  ASSUME CallsTypeOK, NEW c \in Callers, Under(c),
         NEW distances \in SUBSET Int, NEW d \in Decide(c, distances)
  PROVE  /\ Continue(c, d) \in CallType
         /\ Continue(c, d).query = call[c].query /\ ~Continue(c, d).out
         /\ Continue(c, d).lacks = call[c].lacks
         /\ Continue(c, d).noted = call[c].noted
         /\ Continue(c, d).at > 0 =>
              /\ Continue(c, d).at \in 1..Len(Requests[call[c].query])
              /\ Continue(c, d).answer = "none"
         /\ call[c].at + d \in 1..Len(Requests[call[c].query]) =>
              /\ Continue(c, d).at = call[c].at + d
              /\ Continue(c, d).answer = "none"
<1>1. d \in Int /\ (d > 0 \/ call[c].more < MoreMax)
  BY DEF Decide
<1>2. /\ GoOn(c, d) \in CallType /\ GoOn(c, d).query = call[c].query
      /\ ~GoOn(c, d).out /\ GoOn(c, d).more = call[c].more
      /\ GoOn(c, d).lacks = call[c].lacks /\ GoOn(c, d).noted = call[c].noted
      /\ GoOn(c, d).at > 0 =>
           /\ GoOn(c, d).at \in 1..Len(Requests[call[c].query])
           /\ GoOn(c, d).answer = "none"
      /\ call[c].at + d \in 1..Len(Requests[call[c].query]) =>
           GoOn(c, d).at = call[c].at + d /\ GoOn(c, d).answer = "none"
  BY <1>1, GoOnFacts
<1>3. CASE d > 0
  BY <1>2, <1>3 DEF Continue
<1>4. CASE ~(d > 0)
  <2>1. Continue(c, d) = [GoOn(c, d) EXCEPT !.more = @ + 1]
    BY <1>4 DEF Continue
  <2>2. call[c].more \in 0..MoreMax /\ MoreMax \in Nat
    BY CallsAssumption DEF CallsTypeOK
  <2>3. GoOn(c, d).more + 1 \in 0..MoreMax
    BY <1>1, <1>2, <1>4, <2>2
  <2> QED BY <1>2, <2>1, <2>3, UpdatedByMore
<1> QED BY <1>3, <1>4

(* A caller that goes on in a query or is done with one is in order again, *)
(* and the others are as they were.                                        *)
LEMMA MovedOn ==
  ASSUME CallsTypeOK, TypeOK', NEW c \in Callers, Under(c), Over(c),
         NEW new \in CallType, call' = [call EXCEPT ![c] = new],
         ~new.out,
         new.at > 0 => /\ new.query \in Queries
                       /\ new.at \in 1..Len(Requests[new.query])
                       /\ new.answer = "none",
         sent' = sent
  PROVE  CallsTypeOK'
<1>1. /\ caller' = [caller EXCEPT ![c] = "idle"]
      /\ caller \in [Callers -> {"idle", "waiting", "calling"}]
      /\ call \in [Callers -> CallType]
  BY OverFacts DEF CallsTypeOK, TypeOK, CallType
<1>2. call' \in [Callers -> CallType]
  BY <1>1
<1>3. ASSUME NEW d \in Callers PROVE InOrder(d)'
  <2>1. CASE d = c
    <3>1. call'[d] = new /\ caller'[d] = "idle"
      BY <1>1, <2>1
    <3> QED BY <3>1 DEF InOrder, Under
  <2>2. CASE d # c
    <3>1. call'[d] = call[d] /\ caller'[d] = caller[d] /\ InOrder(d)
      BY <1>1, <2>2 DEF CallsTypeOK
    <3> QED BY <3>1 DEF InOrder, Under, Request
  <2> QED BY <2>1, <2>2
<1> QED BY <1>2, <1>3 DEF CallsTypeOK, CallType

(* The bucket's own steps leave callers in order: it hands a token only to *)
(* one that waits in its queue.                                            *)
LEMMA BucketKeepsOrder ==
  ASSUME CallsTypeOK, QueueInv, TypeOK', call' = call,
         sent' \in [paid : Nat, unpaid : 0..UnpaidMax],
         caller' = caller \/ HandOff
  PROVE  CallsTypeOK'
<1>1. ASSUME NEW d \in Callers PROVE InOrder(d)'
  <2>1. InOrder(d)
    BY DEF CallsTypeOK
  <2>2. caller'[d] = caller[d] \/ (caller[d] = "waiting" /\ caller'[d] = "calling")
    <3>1. CASE HandOff
      <4>1. /\ recvq \in Seq(Callers) /\ recvq # <<>>
            /\ caller' = [caller EXCEPT ![recvq[1]] = "calling"]
            /\ caller \in [Callers -> {"idle", "waiting", "calling"}]
        BY <3>1 DEF HandOff, CallsTypeOK, TypeOK
      <4>2. 1 \in 1..Len(recvq) /\ recvq[1] \in Callers
        BY <4>1
      <4>3. caller[recvq[1]] = "waiting"
        BY <4>2 DEF QueueInv
      <4> QED BY <4>1, <4>2, <4>3
    <3> QED BY <3>1
  <2> QED BY <2>1, <2>2 DEF InOrder, Under, Request
<1> QED BY <1>1 DEF CallsTypeOK

(* A request that is counted, or not.                                      *)
LEMMA CountedFacts ==
  ASSUME CallsTypeOK, NEW waits \in BOOLEAN
  PROVE  /\ Counted(waits) \in [paid : Nat, unpaid : 0..UnpaidMax]
         /\ window.open =>
              Counted(waits).paid = IF waits THEN sent.paid + 1 ELSE sent.paid
<1>1. sent \in [paid : Nat, unpaid : 0..UnpaidMax] /\ UnpaidMax \in Nat
  BY CallsAssumption DEF CallsTypeOK
<1>2. CASE ~window.open
  BY <1>1, <1>2 DEF Counted
<1>3. CASE window.open /\ waits
  <2>1. Counted(waits) = [sent EXCEPT !.paid = @ + 1]
    BY <1>3 DEF Counted
  <2>2. sent.paid + 1 \in Nat
    BY <1>1
  <2>3. Counted(waits) = [paid |-> sent.paid + 1, unpaid |-> sent.unpaid]
    BY <1>1, <2>1
  <2>4. Counted(waits) \in [paid : Nat, unpaid : 0..UnpaidMax]
    BY <1>1, <2>2, <2>3
  <2>5. Counted(waits).paid = sent.paid + 1
    BY <2>3
  <2> QED BY <1>3, <2>4, <2>5
<1>4. CASE window.open /\ ~waits
  <2> DEFINE more == IF sent.unpaid < UnpaidMax THEN sent.unpaid + 1 ELSE sent.unpaid
  <2>1. Counted(waits) = [sent EXCEPT !.unpaid = more]
    BY <1>4 DEF Counted
  <2>2. more \in 0..UnpaidMax
    BY <1>1
  <2> HIDE DEF more
  <2>3. Counted(waits) = [paid |-> sent.paid, unpaid |-> more]
    BY <1>1, <2>1
  <2> QED BY <1>1, <1>4, <2>2, <2>3
<1> QED BY <1>2, <1>3, <1>4

(* Every step of queries, bucket and time keeps the types.                 *)
LEMMA NextCallsType ==
  ASSUME IInv, QueueInv, CallsTypeOK, [CallsNext]_callsVars
  PROVE  CallsTypeOK'
<1>1. TypeOK'
  BY StepImplements, NextIInv DEF IInv
<1>2. /\ sent \in [paid : Nat, unpaid : 0..UnpaidMax]
      /\ NothingSent \in [paid : Nat, unpaid : 0..UnpaidMax]
      /\ call \in [Callers -> CallType]
      /\ MoreMax \in Nat /\ UnpaidMax \in Nat
  BY CallsAssumption DEF CallsTypeOK, CallType, NothingSent
<1>3. CASE UNCHANGED callsVars
  BY <1>1, <1>2, <1>3, BucketKeepsOrder DEF callsVars, vars, callerVars
<1>4. CASE Watch
  BY <1>1, <1>2, <1>4, BucketKeepsOrder DEF Watch, OpenWindow, callerVars
<1>5. CASE PassTime
  BY <1>1, <1>2, <1>5, BucketKeepsOrder DEF PassTime, Tick, callerVars
<1>6. CASE Refilling
  BY <1>1, <1>2, <1>6, BucketKeepsOrder
  DEF Refilling, Refiller, BeginRefill, SendToken, Buffer, EndRefill, callerVars
<1>7. CASE Stopping \/ Cancelling
  BY <1>1, <1>2, <1>7, BucketKeepsOrder
  DEF Stopping, Cancelling, Stop, CancelBucket, callerVars
<1>8. ASSUME NEW c \in Callers, Begin(c) PROVE CallsTypeOK'
  <2>1. PICK query \in Asked[c] : call' = [call EXCEPT ![c].query = query, ![c].at = 1]
    BY <1>8 DEF Begin
  <2>2. query \in Queries /\ call[c] = NoCall /\ UNCHANGED <<vars, sent>>
    BY <1>8, CallsAssumption DEF Begin
  <2>3. 1 \in 1..Len(Requests[query])
    BY <2>2, RequestsType
  <2>4. call'[c] = [query |-> query, at |-> 1, out |-> FALSE, more |-> 0,
                    lacks |-> FALSE, noted |-> FALSE, answer |-> "none"]
    BY <1>2, <2>1, <2>2 DEF NoCall
  <2>5. call'[c] \in CallType
    <3>1. query \in Queries \cup {"none"} /\ 1 \in Nat /\ 0 \in 0..MoreMax
      BY <1>2, <2>2
    <3>2. FALSE \in BOOLEAN /\ "none" \in {"none", "items", "error"}
      OBVIOUS
    <3> QED BY ONLY <2>4, <3>1, <3>2, CallRecord
  <2>6. call' \in [Callers -> CallType]
    BY <1>2, <2>1, <2>4, <2>5
  <2>7. caller[c] = "idle"
    BY <2>2 DEF CallsTypeOK, InOrder, Under, NoCall
  <2>8. ASSUME NEW d \in Callers PROVE InOrder(d)'
    <3>1. caller'[d] = caller[d] /\ InOrder(d)
      BY <2>2 DEF vars, callerVars, CallsTypeOK
    <3>2. CASE d = c
      BY <2>2, <2>3, <2>4, <2>7, <3>1, <3>2 DEF InOrder, Under, NoCall
    <3>3. CASE d # c
      <4>1. call'[d] = call[d]
        BY <1>2, <2>1, <3>3
      <4> QED BY <3>1, <4>1 DEF InOrder, Under, Request
    <3> QED BY <3>2, <3>3
  <2> QED BY <1>1, <1>2, <2>2, <2>6, <2>8 DEF CallsTypeOK, CallType
<1>9. ASSUME NEW c \in Callers, WaitInLine(c) PROVE CallsTypeOK'
  <2>1. /\ Under(c) /\ Request(c).waits /\ UNCHANGED <<call, sent>>
        /\ \A d \in Callers \ {c} : caller'[d] = caller[d]
    BY <1>9 DEF WaitInLine, TakeToken, Block, GiveUpAtOnce, GiveUp, CallsTypeOK, TypeOK
  <2>2. ASSUME NEW d \in Callers PROVE InOrder(d)'
    <3>1. InOrder(d)
      BY DEF CallsTypeOK
    <3> QED BY <2>1, <3>1 DEF InOrder, Under, Request
  <2> QED BY <1>1, <2>1, <2>2 DEF CallsTypeOK
<1>10. ASSUME NEW c \in Callers, Send(c) PROVE CallsTypeOK'
  <2>1. /\ Under(c) /\ call' = [call EXCEPT ![c].out = TRUE]
        /\ UNCHANGED vars /\ sent' = Counted(Request(c).waits)
    BY <1>10 DEF Send, Ready
  <2>2. sent' \in [paid : Nat, unpaid : 0..UnpaidMax]
    BY <2>1, UnderFacts, CountedFacts DEF RequestType
  <2>3. call' \in [Callers -> CallType]
    BY ZenonT(60), <1>2, <2>1 DEF CallType
  <2>4. ASSUME NEW d \in Callers PROVE InOrder(d)'
    <3>1. InOrder(d) /\ caller' = caller
      BY <2>1 DEF CallsTypeOK, vars, callerVars
    <3>2. /\ call'[d].query = call[d].query /\ call'[d].at = call[d].at
          /\ call'[d].answer = call[d].answer
          /\ d # c => call'[d].out = call[d].out
      BY <1>2, <2>1 DEF CallType
    <3> QED BY <2>1, <3>1, <3>2 DEF InOrder, Under, Request
  <2> QED BY <1>1, <2>2, <2>3, <2>4 DEF CallsTypeOK, CallType
<1>11. ASSUME NEW c \in Callers, Outcome(c) PROVE CallsTypeOK'
  <2>1. Under(c)
    BY <1>11 DEF Outcome, Receive, AskAgain, FailMildly, FailForGood, Fails, Ready,
                 CallsTypeOK, InOrder
  <2>2. Request(c) \in RequestType /\ call[c].query \in Queries /\ call[c] \in CallType
    BY <1>2, <2>1, UnderFacts
  <2>3. ASSUME NEW distances \in SUBSET Int, NEW d \in Decide(c, distances)
        PROVE  /\ Continue(c, d) \in CallType
               /\ Continue(c, d).query = call[c].query /\ ~Continue(c, d).out
               /\ Continue(c, d).at > 0 =>
                    /\ Continue(c, d).at \in 1..Len(Requests[call[c].query])
                    /\ Continue(c, d).answer = "none"
    BY <2>1, ContinueFacts
  <2>4. CASE Receive(c)
    <3>1. PICK d \in Decide(c, Request(c).then) : call' = [call EXCEPT ![c] = Continue(c, d)]
      BY <2>4 DEF Receive
    <3>2. Over(c) /\ sent' = sent
      BY <2>4 DEF Receive
    <3>3. Request(c).then \in SUBSET Int
      BY <2>2 DEF RequestType
    <3> QED BY <1>1, <2>1, <2>2, <2>3, <3>1, <3>2, <3>3, MovedOn
  <2>5. CASE AskAgain(c)
    <3>1. call' = [call EXCEPT ![c] = GoOn(c, 0)] /\ Over(c) /\ sent' = sent
      BY <2>5 DEF AskAgain
    <3> DEFINE new == GoOn(c, 0)
    <3>2. /\ new \in CallType /\ new.query = call[c].query /\ ~new.out
          /\ new.at > 0 => /\ new.at \in 1..Len(Requests[new.query])
                           /\ new.answer = "none"
      BY <2>1, GoOnFacts
    <3> HIDE DEF new
    <3>3. call' = [call EXCEPT ![c] = new]
      BY <3>1 DEF new
    <3> QED BY <1>1, <2>1, <2>2, <3>1, <3>2, <3>3, MovedOn
  <2>6. CASE FailMildly(c)
    <3>1. PICK d \in Decide(c, Request(c).failing) :
            call' = [call EXCEPT ![c] = WithoutIt(c, Continue(c, d))]
      BY <2>6 DEF FailMildly
    <3>2. Over(c) /\ sent' = sent /\ Request(c).failing \in SUBSET Int
      BY <2>2, <2>6 DEF FailMildly, RequestType
    <3> DEFINE old == Continue(c, d)
               new == WithoutIt(c, old)
    <3>3. /\ old \in CallType /\ old.query = call[c].query /\ ~old.out
          /\ old.at > 0 => /\ old.at \in 1..Len(Requests[call[c].query])
                           /\ old.answer = "none"
      BY <2>3, <3>2
    <3> HIDE DEF old
    <3>5. /\ new \in CallType /\ new.query = old.query /\ new.at = old.at
          /\ new.out = old.out /\ new.answer = old.answer
      BY <3>3, UpdatedByLoss
    <3>6. call' = [call EXCEPT ![c] = new]
      BY <3>1 DEF old
    <3> HIDE DEF new
    <3> QED BY <1>1, <2>1, <2>2, <3>2, <3>3, <3>5, <3>6, MovedOn
  <2>7. CASE FailForGood(c)
    <3> DEFINE new == [call[c] EXCEPT !.at = 0, !.out = FALSE, !.answer = "error"]
    <3>1. Over(c) /\ sent' = sent
      BY <2>7 DEF FailForGood
    <3>2. call' = [call EXCEPT ![c] = new]
      BY <1>2, <2>7 DEF FailForGood
    <3>3. new \in CallType /\ new.at = 0 /\ ~new.out
      BY <2>2, UpdatedByError
    <3> HIDE DEF new
    <3>4. ~(new.at > 0)
      BY <3>3
    <3> QED BY <1>1, <2>1, <3>1, <3>2, <3>3, <3>4, MovedOn
  <2> QED BY <1>11, <2>4, <2>5, <2>6, <2>7 DEF Outcome
<1>12. ASSUME NEW c \in Callers, Return(c) PROVE CallsTypeOK'
  <2>1. call[c].answer # "none" /\ call' = [call EXCEPT ![c] = NoCall] /\ sent' = sent
    BY <1>12 DEF Return
  <2>2. caller' = caller
    BY <1>12 DEF Return, NewRequest, vars, callerVars
  <2>3. NoCall \in CallType
    BY <1>2 DEF NoCall, CallType
  <2>4. call' \in [Callers -> CallType]
    BY <1>2, <2>1, <2>3
  <2>5. ASSUME NEW d \in Callers PROVE InOrder(d)'
    <3>1. InOrder(d)
      BY DEF CallsTypeOK
    <3>2. CASE d = c
      <4>1. caller[d] = "idle"
        BY <2>1, <3>1, <3>2 DEF InOrder
      <4>2. call'[d] = NoCall
        BY <1>2, <2>1, <3>2
      <4> QED BY <2>2, <4>1, <4>2 DEF InOrder, Under, NoCall
    <3>3. CASE d # c
      <4>1. call'[d] = call[d]
        BY <1>2, <2>1, <3>3
      <4> QED BY <2>2, <3>1, <4>1 DEF InOrder, Under, Request
    <3> QED BY <3>2, <3>3
  <2> QED BY <1>1, <1>2, <2>1, <2>4, <2>5 DEF CallsTypeOK, CallType
<1>13. ASSUME NEW c \in Callers, EndContext(c) PROVE CallsTypeOK'
  BY <1>1, <1>2, <1>13, BucketKeepsOrder DEF EndContext, CancelRequest
<1> QED BY <1>3, <1>4, <1>5, <1>6, <1>7, <1>8, <1>9, <1>10, <1>11, <1>12, <1>13
        DEF CallsNext, CallStep
(* Types of what is answered and of what AWS got, and the order of a       *)
(* caller's steps: calls wait only for requests that wait.                 *)
THEOREM CallsTypes == CallsSpec => []CallsTypeOK
<1>1. CallsInit => CallsTypeOK
  <2> SUFFICES ASSUME CallsInit PROVE CallsTypeOK
    OBVIOUS
  <2>1. TypeOK
    BY InitIInv DEF CallsInit, IInv
  <2>2. NoCall \in CallType
    BY CallsAssumption DEF NoCall, CallType
  <2>3. call \in [Callers -> CallType]
    BY <2>2 DEF CallsInit
  <2>4. sent \in [paid : Nat, unpaid : 0..UnpaidMax]
    BY CallsAssumption DEF CallsInit, NothingSent
  <2>5. ASSUME NEW c \in Callers PROVE InOrder(c)
    BY DEF CallsInit, Init, InOrder, Under, NoCall
  <2> QED BY <2>1, <2>3, <2>4, <2>5 DEF CallsTypeOK, CallType
<1>2. IInv /\ QueueInv /\ CallsTypeOK /\ [CallsNext]_callsVars => CallsTypeOK'
  BY NextCallsType
<1>3. CallsSpec => Spec
  BY CallsImplement DEF ImplementsBucket
<1> QED BY <1>1, <1>2, <1>3, Invariance, QueuedOnce, PTL DEF CallsSpec

-----------------------------------------------------------------------------
(* Callers that have the token of a request they have not sent.            *)
Holding ==
  {c \in Callers : caller[c] = "calling" /\ call[c].out = FALSE /\ reqCtx[c] = "live"}

(* Every request that waited was granted its token in the window, or its   *)
(* caller held one when the window was opened.                             *)
PaidInv ==
  window.open =>
    sent.paid + Cardinality(Holding) <= window.granted + Cardinality(Callers)

(* How many hold a token, from one state to the next.                      *)
LEMMA HoldingFinite ==
  /\ IsFiniteSet(Holding) /\ Cardinality(Holding) \in Nat
  /\ Cardinality(Callers) \in Nat
  /\ Cardinality(Holding) <= Cardinality(Callers)
<1>1. Holding \in SUBSET Callers
  BY DEF Holding
<1> QED BY <1>1, CallsAssumption, FS_Subset, FS_CardinalityType

LEMMA HoldingFiniteNext ==
  IsFiniteSet(Holding') /\ Cardinality(Holding') \in Nat
<1>1. Holding' \in SUBSET Callers
  BY DEF Holding
<1> QED BY <1>1, CallsAssumption, FS_Subset, FS_CardinalityType

LEMMA HoldFewer ==
  ASSUME Holding' \subseteq Holding
  PROVE  Cardinality(Holding') <= Cardinality(Holding)
BY HoldingFinite, FS_Subset

LEMMA HoldOneMore ==
  ASSUME NEW c, Holding' \subseteq Holding \cup {c}
  PROVE  Cardinality(Holding') <= Cardinality(Holding) + 1
<1>1. /\ IsFiniteSet(Holding \cup {c})
      /\ Cardinality(Holding \cup {c}) \in
           {Cardinality(Holding), Cardinality(Holding) + 1}
  BY HoldingFinite, FS_AddElement
<1>2. Cardinality(Holding') <= Cardinality(Holding \cup {c})
  BY <1>1, FS_Subset
<1> QED BY <1>1, <1>2, HoldingFinite, HoldingFiniteNext

LEMMA HoldOneFewer ==
  ASSUME NEW c \in Holding, Holding' \subseteq Holding \ {c}
  PROVE  Cardinality(Holding') + 1 <= Cardinality(Holding)
<1>1. /\ IsFiniteSet(Holding \ {c})
      /\ Cardinality(Holding \ {c}) = Cardinality(Holding) - 1
  BY HoldingFinite, FS_RemoveElement
<1>2. Cardinality(Holding') <= Cardinality(Holding \ {c})
  BY <1>1, FS_Subset
<1> QED BY <1>1, <1>2, HoldingFinite, HoldingFiniteNext

(* A step that gives nobody a token and sends nothing that waited.         *)
LEMMA PaidKept ==
  ASSUME PaidInv, CallsTypeOK, Holding' \subseteq Holding,
         window'.open => /\ window.open
                         /\ window'.granted = window.granted
                         /\ sent'.paid = sent.paid
  PROVE  PaidInv'
<1>1. sent.paid \in Nat /\ window.granted \in Nat
  BY DEF CallsTypeOK, TypeOK
<1> QED BY <1>1, HoldFewer, HoldingFinite, HoldingFiniteNext DEF PaidInv

(* A step that grants one caller a token.                                  *)
LEMMA PaidGranted ==
  ASSUME PaidInv, CallsTypeOK, NEW c, Holding' \subseteq Holding \cup {c},
         window'.open => /\ window.open
                         /\ window'.granted = window.granted + 1
                         /\ sent'.paid = sent.paid
  PROVE  PaidInv'
<1>1. sent.paid \in Nat /\ window.granted \in Nat
  BY DEF CallsTypeOK, TypeOK
<1> QED BY <1>1, HoldOneMore, HoldingFinite, HoldingFiniteNext DEF PaidInv

(* The bucket's steps that grant tokens.                                   *)
LEMMA GrantFacts ==
  ASSUME CallsTypeOK, Grant(1)
  PROVE  window'.open => window.open /\ window'.granted = window.granted + 1
<1>1. window \in [open : BOOLEAN, granted : Nat, ticks : 0..WindowTicks]
  BY DEF CallsTypeOK, TypeOK
<1> QED BY <1>1 DEF Grant
(* No step of queries, bucket or time sends more that waited than were     *)
(* granted.                                                                *)
LEMMA NextPaidInv ==
  ASSUME PaidInv, CallsTypeOK, [CallsNext]_callsVars
  PROVE  PaidInv'
<1>1. /\ caller \in [Callers -> {"idle", "waiting", "calling"}]
      /\ reqCtx \in [Callers -> {"live", "done"}]
      /\ window \in [open : BOOLEAN, granted : Nat, ticks : 0..WindowTicks]
      /\ recvq \in Seq(Callers)
      /\ call \in [Callers -> CallType]
      /\ sent \in [paid : Nat, unpaid : 0..UnpaidMax]
  BY DEF CallsTypeOK, TypeOK, CallType
<1>2. CASE UNCHANGED callsVars
  <2>1. /\ caller' = caller /\ reqCtx' = reqCtx /\ call' = call
        /\ window' = window /\ sent' = sent
    BY <1>2 DEF callsVars, vars, callerVars
  <2> QED BY <2>1, PaidKept DEF Holding
<1>3. CASE Watch
  <2>1. sent'.paid = 0 /\ window'.granted = 0
    BY <1>3 DEF Watch, OpenWindow, NothingSent, ClosedWindow
  <2>2. Holding' = Holding
    BY <1>3 DEF Watch, OpenWindow, callerVars, Holding
  <2> QED BY <2>1, <2>2, HoldingFinite DEF PaidInv
<1>4. CASE PassTime
  <2>1. Holding' = Holding
    BY <1>4 DEF PassTime, Tick, callerVars, Holding
  <2>2. window'.open => /\ window.open
                        /\ window'.granted = window.granted
                        /\ sent' = sent
    BY <1>1, <1>4 DEF PassTime, Tick, ClosedWindow
  <2> QED BY <2>1, <2>2, PaidKept
<1>5. CASE Refilling
  <2>1. UNCHANGED <<call, sent>>
    BY <1>5 DEF Refilling
  <2>2. CASE SendToken /\ HandOff
    <3>1. /\ caller' = [caller EXCEPT ![recvq[1]] = "calling"]
          /\ reqCtx' = reqCtx /\ Grant(1)
      BY <1>1, <2>2 DEF SendToken, HandOff
    <3>2. Holding' \subseteq Holding \cup {recvq[1]}
      BY <1>1, <2>1, <3>1 DEF Holding
    <3> QED BY <2>1, <3>1, <3>2, GrantFacts, PaidGranted
  <2>3. CASE BeginRefill \/ EndRefill \/ (SendToken /\ Buffer)
    <3>1. caller' = caller /\ reqCtx' = reqCtx /\ window' = window
      BY <2>3 DEF BeginRefill, EndRefill, SendToken, Buffer, callerVars
    <3>2. Holding' = Holding
      BY <2>1, <3>1 DEF Holding
    <3> QED BY <2>1, <3>1, <3>2, PaidKept
  <2> QED BY <1>5, <2>2, <2>3 DEF Refilling, Refiller, SendToken
<1>6. CASE Stopping \/ Cancelling
  <2>1. /\ caller' = caller /\ reqCtx' = reqCtx /\ call' = call
        /\ window' = window /\ sent' = sent
    BY <1>6 DEF Stopping, Cancelling, Stop, CancelBucket, callerVars
  <2>2. Holding' = Holding
    BY <2>1 DEF Holding
  <2> QED BY <2>1, <2>2, PaidKept
<1>7. ASSUME NEW c \in Callers, Begin(c) \/ EndContext(c) \/ Return(c) PROVE PaidInv'
  <2>1. caller' = caller /\ window' = window /\ sent' = sent
    BY <1>7 DEF Begin, EndContext, CancelRequest, Return, NewRequest, vars, callerVars
  <2>2. /\ \A d \in Callers \ {c} : call'[d] = call[d] /\ reqCtx'[d] = reqCtx[d]
        /\ EndContext(c) => call' = call /\ reqCtx'[c] = "done"
    BY <1>1, <1>7
    DEF Begin, EndContext, CancelRequest, Return, NewRequest, vars, callerVars
  <2>3. Begin(c) \/ Return(c) => caller[c] = "idle"
    <3>1. InOrder(c)
      BY DEF CallsTypeOK
    <3> QED BY <3>1 DEF InOrder, Under, Begin, Return, NoCall
  <2>4. Holding' \subseteq Holding
    BY <1>7, <2>1, <2>2, <2>3 DEF Holding
  <2> QED BY <2>1, <2>4, PaidKept
<1>8. ASSUME NEW c \in Callers, WaitInLine(c) PROVE PaidInv'
  <2>1. call' = call /\ sent' = sent /\ reqCtx' = reqCtx
    BY <1>8 DEF WaitInLine, TakeToken, Block, GiveUpAtOnce, GiveUp
  <2>2. CASE TakeToken(c)
    <3>1. caller' = [caller EXCEPT ![c] = "calling"] /\ Grant(1)
      BY <2>2 DEF TakeToken
    <3>2. Holding' \subseteq Holding \cup {c}
      BY <1>1, <2>1, <3>1 DEF Holding
    <3> QED BY <2>1, <3>1, <3>2, GrantFacts, PaidGranted
  <2>3. CASE Block(c) \/ GiveUpAtOnce(c) \/ GiveUp(c)
    <3>1. /\ window' = window
          /\ \/ caller' = [caller EXCEPT ![c] = "waiting"]
             \/ caller' = [caller EXCEPT ![c] = "calling"] /\ reqCtx[c] = "done"
      BY <2>3 DEF Block, GiveUpAtOnce, GiveUp
    <3>2. Holding' \subseteq Holding
      BY <1>1, <2>1, <3>1 DEF Holding
    <3> QED BY <2>1, <3>1, <3>2, PaidKept
  <2> QED BY <1>8, <2>2, <2>3 DEF WaitInLine
<1>9. ASSUME NEW c \in Callers, Send(c) PROVE PaidInv'
  <2>1. /\ Under(c) /\ call[c].out = FALSE /\ reqCtx[c] = "live"
        /\ call' = [call EXCEPT ![c].out = TRUE]
        /\ caller' = caller /\ reqCtx' = reqCtx /\ window' = window
        /\ caller[c] = IF Request(c).waits THEN "calling" ELSE "idle"
        /\ sent' = Counted(Request(c).waits)
    BY <1>1, <1>9 DEF Send, Ready, Ended, vars, callerVars, CallType
  <2>2. Request(c).waits \in BOOLEAN
    BY <2>1, UnderFacts DEF RequestType
  <2>3. Holding' \subseteq Holding \ {c}
    BY <1>1, <2>1 DEF Holding, CallType
  <2>4. CASE Request(c).waits
    <3>1. c \in Holding
      BY <2>1, <2>4 DEF Holding
    <3>2. window.open => sent'.paid = sent.paid + 1
      BY <2>1, <2>2, <2>4, CountedFacts
    <3>3. Cardinality(Holding') + 1 <= Cardinality(Holding)
      BY <2>3, <3>1, HoldOneFewer
    <3> QED BY <1>1, <2>1, <3>2, <3>3, HoldingFinite, HoldingFiniteNext DEF PaidInv
  <2>5. CASE ~Request(c).waits
    <3>1. window.open => sent'.paid = sent.paid
      BY <2>1, <2>2, <2>5, CountedFacts
    <3> QED BY <2>1, <2>3, <3>1, PaidKept
  <2> QED BY <2>4, <2>5
<1>10. ASSUME NEW c \in Callers, Outcome(c) PROVE PaidInv'
  <2>1. Under(c)
    BY <1>10 DEF Outcome, Receive, AskAgain, FailMildly, FailForGood, Fails, Ready,
                 CallsTypeOK, InOrder
  <2>2. Over(c) /\ sent' = sent
    BY <1>10 DEF Outcome, Receive, AskAgain, FailMildly, FailForGood
  <2>3. \A d \in Callers \ {c} : call'[d] = call[d]
    BY <1>1, <1>10 DEF Outcome, Receive, AskAgain, FailMildly, FailForGood
  <2>4. caller' = [caller EXCEPT ![c] = "idle"] /\ reqCtx' = reqCtx /\ window' = window
    BY <2>1, <2>2, OverFacts
  <2>5. Holding' \subseteq Holding
    BY <1>1, <2>3, <2>4 DEF Holding
  <2> QED BY <2>2, <2>4, <2>5, PaidKept
<1> QED BY <1>2, <1>3, <1>4, <1>5, <1>6, <1>7, <1>8, <1>9, <1>10
        DEF CallsNext, CallStep

(* However queries share a bucket, and whenever their contexts end, AWS    *)
(* gets no more requests that waited than a full bucket, the rate per      *)
(* tick, and one of each caller (limit_bucket.go:60-75).                   *)
THEOREM PaidThrottled == CallsSpec => []PaidBound
<1>1. CallsInit => PaidInv
  BY DEF CallsInit, Init, PaidInv, ClosedWindow
<1>2. PaidInv /\ CallsTypeOK /\ [CallsNext]_callsVars => PaidInv'
  BY NextPaidInv
<1>3. PaidInv /\ CallsTypeOK /\ WindowBound => PaidBound
  <2> SUFFICES ASSUME PaidInv, CallsTypeOK, WindowBound, window.open
               PROVE  sent.paid <= Allowance(window.ticks) + Cardinality(Callers)
    BY DEF PaidBound
  <2>1. /\ sent.paid \in Nat /\ window.granted \in Nat /\ window.ticks \in Nat
        /\ WindowTicks \in Nat
    BY BucketAssumption DEF CallsTypeOK, TypeOK
  <2>2. Allowance(window.ticks) \in Nat
    BY <2>1, AllowanceStep
  <2>3. window.granted <= Allowance(window.ticks)
    BY DEF WindowBound
  <2>4. sent.paid + Cardinality(Holding) <= window.granted + Cardinality(Callers)
    BY DEF PaidInv
  <2> QED BY <2>1, <2>2, <2>3, <2>4, HoldingFinite
<1>4. CallsSpec => Spec
  BY CallsImplement DEF ImplementsBucket
<1> QED BY <1>1, <1>2, <1>3, <1>4, CallsTypes, Throttled, PTL DEF CallsSpec
-----------------------------------------------------------------------------
Roles == {"RoleGet", "RoleList"}

LEMMA HelperLosses ==
  /\ \A t \in SUBSET Int : /\ Limited(t).loses = FALSE /\ Direct(t).loses = FALSE
                           /\ Limited(t).failing = {}
  /\ \A r \in RequestType, t \in SUBSET Int :
       Noted(r, t).loses = r.loses /\ Dropped(r, t).failing = t
<1>1. ASSUME NEW t \in SUBSET Int
      PROVE  /\ Limited(t).loses = FALSE /\ Direct(t).loses = FALSE
             /\ Limited(t).failing = {}
  BY DEF Limited, Direct, Must
<1>2. ASSUME NEW r \in RequestType, NEW t \in SUBSET Int
      PROVE  Noted(r, t).loses = r.loses /\ Dropped(r, t).failing = t
  BY DEF Noted, Dropped, RequestType
<1> QED BY <1>1, <1>2

LEMMA HelperNotes ==
  /\ \A t \in SUBSET Int :
       Limited(t).failing = {} /\ Direct(t).failing = {}
  /\ \A r \in RequestType, t \in SUBSET Int : Dropped(r, t).loses = TRUE
  /\ \A r \in RequestType : AskedAgain(r).failing = {0}
BY DEF Limited, Direct, Must, Dropped, AskedAgain, RequestType

(* Of the others only a role drops something, an embedded policy, and what *)
(* it goes on to can be another, a page of names or one of attached ones.  *)
LEMMA OnlyRolesDrop ==
  ASSUME NEW query \in Queries \ Dropping, NEW at \in 1..Len(Requests[query]),
         Requests[query][at].loses = TRUE
  PROVE  query \in Roles /\ at = 3
<1> USE HelperTypes, HelperLosses
<1> HIDE DEF RequestType
<1>1. /\ \A i \in 1..Len(AddressGet) : AddressGet[i].loses = FALSE
      /\ \A i \in 1..Len(VolumeList) : VolumeList[i].loses = FALSE
      /\ \A i \in 1..Len(SiteGet) : SiteGet[i].loses = FALSE
      /\ \A i \in 1..Len(AlarmList) : AlarmList[i].loses = FALSE
  BY DEF AddressGet, VolumeList, SiteGet, AlarmList
<1>2. /\ \A i \in 1..Len(DBInstanceList) : DBInstanceList[i].loses = FALSE
      /\ \A i \in 1..Len(HealthCheckGet) : HealthCheckGet[i].loses = FALSE
      /\ \A i \in 1..Len(HealthCheckList) : HealthCheckList[i].loses = FALSE
  BY DEF DBInstanceList, HealthCheckGet, HealthCheckList
<1>3. /\ \A i \in 1..Len(InstanceProfileGet) : InstanceProfileGet[i].loses = FALSE
      /\ \A i \in 1..Len(InstanceProfileList) : InstanceProfileList[i].loses = FALSE
  BY DEF InstanceProfileGet, InstanceProfileList
<1>4. /\ \A i \in 1..Len(PolicyGet) : PolicyGet[i].loses = FALSE
      /\ \A i \in 1..Len(PolicyList) : PolicyList[i].loses = FALSE
  BY DEF PolicyGet, PolicyList
<1>5. \A i \in 1..Len(RoleGet) : RoleGet[i].loses = FALSE \/ i = 3
  BY DEF RoleGet
<1>6. \A i \in 1..Len(RoleList) : RoleList[i].loses = FALSE \/ i = 3
  BY DEF RoleList
<1>7. query \in {"AddressGet", "VolumeList", "SiteGet", "DBInstanceList", "AlarmList",
                "HealthCheckGet", "HealthCheckList", "InstanceProfileGet",
                "InstanceProfileList", "PolicyGet", "PolicyList", "RoleGet", "RoleList"}
  BY RequestsByName DEF Dropping
<1>8. CASE query \in Roles
  BY <1>5, <1>6, <1>8, RequestsByName DEF Roles
<1>9. CASE query \in {"AddressGet", "VolumeList", "SiteGet", "AlarmList"}
  BY <1>1, <1>9, RequestsByName
<1>10. CASE query \in {"DBInstanceList", "HealthCheckGet", "HealthCheckList"}
  BY <1>2, <1>10, RequestsByName
<1>11. CASE query \in {"InstanceProfileGet", "InstanceProfileList"}
  BY <1>3, <1>11, RequestsByName
<1>12. CASE query \in {"PolicyGet", "PolicyList"}
  BY <1>4, <1>12, RequestsByName
<1> QED BY <1>7, <1>8, <1>9, <1>10, <1>11, <1>12 DEF Roles

LEMMA RolesGoOn ==
  ASSUME NEW query \in Roles
  PROVE  /\ query \in Queries /\ Len(Requests[query]) = 5
         /\ Requests[query][2].failing = {}
         /\ Requests[query][3].failing = {-1, 0, 1}
         /\ Requests[query][4].failing = {}
<1> USE HelperTypes, HelperLosses
<1> HIDE DEF RequestType
<1>1. /\ Len(RoleGet) = 5 /\ RoleGet[2].failing = {}
      /\ RoleGet[3].failing = {-1, 0, 1} /\ RoleGet[4].failing = {}
  BY DEF RoleGet
<1>2. /\ Len(RoleList) = 5 /\ RoleList[2].failing = {}
      /\ RoleList[3].failing = {-1, 0, 1} /\ RoleList[4].failing = {}
  BY DEF RoleList
<1> QED BY <1>1, <1>2, RequestsByName DEF Roles
(* An answer that lacks something its ended context cost it is not given   *)
(* yet and never will be: the role it is about still has to ask for pages  *)
(* it needs, which end it with an error.                                   *)
Lost(c) ==
  /\ call[c].lacks = TRUE
  /\ call[c].answer # "error"
  /\ call[c].query \notin Dropping

Doomed(c) ==
  /\ Ended(c)
  /\ call[c].query \in Roles
  /\ call[c].at \in {2, 3, 4}
  /\ call[c].out = FALSE
  /\ call[c].answer = "none"

LostInv == \A c \in Callers : Lost(c) => Doomed(c)

(* A caller left alone, but for the end of its context.                    *)
LEMMA LeftAlone ==
  ASSUME LostInv, NEW d \in Callers, call'[d] = call[d],
         reqCtx'[d] = reqCtx[d] \/ reqCtx'[d] = "done"
  PROVE  (Lost(d) => Doomed(d))'
BY DEF LostInv, Lost, Doomed, Ended

(* Who fails mildly and has lost something is a role at its third request. *)
LEMMA FailedMildly ==
  ASSUME LostInv, CallsTypeOK, NEW c \in Callers, Under(c), FailMildly(c),
         call[c].query \notin Dropping, call'[c].lacks = TRUE
  PROVE  Ended(c) /\ call[c].query \in Roles /\ call[c].at = 3
<1>1. PICK d \in Decide(c, Request(c).failing) :
        call' = [call EXCEPT ![c] = WithoutIt(c, Continue(c, d))]
  BY DEF FailMildly
<1>2. /\ call[c].query \in Queries /\ call[c].at \in 1..Len(Requests[call[c].query])
      /\ Request(c) \in RequestType /\ call[c].answer = "none"
      /\ call \in [Callers -> CallType]
  BY UnderFacts DEF CallsTypeOK, CallType
<1>3. Request(c).failing \in SUBSET Int /\ Request(c).loses \in BOOLEAN
  BY <1>2 DEF RequestType
<1>4. Continue(c, d) \in CallType /\ Continue(c, d).lacks = call[c].lacks
  BY <1>1, <1>3, ContinueFacts
<1> DEFINE lost == Request(c).loses /\ Ended(c)
           new == WithoutIt(c, Continue(c, d))
<1>6. call'[c] = new
  BY <1>1, <1>2
<1>7. new.lacks = TRUE => call[c].lacks = TRUE \/ lost
  BY <1>4, UpdatedByLoss
<1>9. call[c].lacks = TRUE \/ lost
  BY <1>6, <1>7
<1>10. CASE call[c].lacks = TRUE
  <2>1. Doomed(c)
    BY <1>2, <1>10 DEF LostInv, Lost
  <2>2. Request(c).failing # {}
    BY <1>1 DEF Decide
  <2> QED BY <2>1, <2>2, RolesGoOn DEF Doomed, Request
<1>11. CASE lost
  <2>1. Ended(c) /\ Request(c).loses = TRUE
    BY <1>3, <1>11 DEF lost
  <2> QED BY <1>2, <2>1, OnlyRolesDrop DEF Request
<1> QED BY <1>9, <1>10, <1>11
LEMMA NextLostInv ==
  ASSUME LostInv, CallsTypeOK, [CallsNext]_callsVars
  PROVE  LostInv'
<1>1. /\ call \in [Callers -> CallType]
      /\ reqCtx \in [Callers -> {"live", "done"}]
  BY DEF CallsTypeOK, TypeOK, CallType
<1>2. CASE UNCHANGED <<call, reqCtx>>
  BY <1>2, LeftAlone DEF LostInv
<1>3. CASE UNCHANGED callsVars
  BY <1>2, <1>3 DEF callsVars, vars, callerVars
<1>4. CASE Watch \/ PassTime \/ Refilling \/ Stopping \/ Cancelling
  <2>1. CASE Watch \/ PassTime
    BY <1>2, <2>1 DEF Watch, OpenWindow, PassTime, Tick, callerVars
  <2>2. CASE Refilling
    BY <1>2, <2>2
    DEF Refilling, Refiller, BeginRefill, SendToken, EndRefill, callerVars
  <2>3. CASE Stopping \/ Cancelling
    BY <1>2, <2>3
    DEF Stopping, Cancelling, Stop, CancelBucket, callerVars
  <2> QED BY <1>4, <2>1, <2>2, <2>3
<1>5. ASSUME NEW c \in Callers, CallStep(c) PROVE LostInv'
  <2>1. ASSUME NEW d \in Callers \ {c}
        PROVE  call'[d] = call[d] /\ reqCtx'[d] = reqCtx[d]
    <3>1. CASE Begin(c) \/ Send(c)
      BY <1>1, <3>1 DEF Begin, Send, vars, callerVars
    <3>2. CASE WaitInLine(c)
      BY <1>1, <3>2 DEF WaitInLine, TakeToken, Block, GiveUpAtOnce, GiveUp
    <3>3. CASE Outcome(c)
      BY <1>1, <3>3 DEF Outcome, Receive, AskAgain, FailMildly, FailForGood, Over,
                        CallReturns, vars, callerVars
    <3>4. CASE Return(c)
      BY <1>1, <3>4 DEF Return, NewRequest, vars, callerVars
    <3>5. CASE EndContext(c)
      BY <1>1, <3>5 DEF EndContext, CancelRequest
    <3> QED BY <1>5, <3>1, <3>2, <3>3, <3>4, <3>5 DEF CallStep
  <2>2. (Lost(c) => Doomed(c))'
    <3>1. CASE Begin(c) \/ Return(c)
      <4>1. CASE Begin(c)
        <5>1. PICK query \in Asked[c] :
                call' = [call EXCEPT ![c].query = query, ![c].at = 1]
          BY <4>1 DEF Begin
        <5>2. call'[c].lacks = call[c].lacks /\ call[c] = NoCall
          BY <1>1, <4>1, <5>1 DEF Begin, CallType
        <5> QED BY <5>2 DEF Lost, NoCall
      <4>2. CASE Return(c)
        <5>1. call'[c] = NoCall
          BY <1>1, <4>2 DEF Return
        <5> QED BY <5>1 DEF Lost, NoCall
      <4> QED BY <3>1, <4>1, <4>2
    <3>2. CASE WaitInLine(c) \/ EndContext(c)
      BY <1>1, <3>2, LeftAlone
      DEF WaitInLine, TakeToken, Block, GiveUpAtOnce, GiveUp, EndContext, CancelRequest
    <3>3. CASE Send(c)
      <4>1. ~Ended(c) /\ call' = [call EXCEPT ![c].out = TRUE]
        BY <3>3 DEF Send
      <4>2. ~Lost(c)
        BY <4>1 DEF LostInv, Doomed
      <4>3. /\ call'[c].lacks = call[c].lacks /\ call'[c].answer = call[c].answer
            /\ call'[c].query = call[c].query
        BY <1>1, <4>1 DEF CallType
      <4> QED BY <4>2, <4>3 DEF Lost
    <3>4. CASE Outcome(c)
      <4>1. Under(c)
        BY <3>4 DEF Outcome, Receive, AskAgain, FailMildly, FailForGood, Fails, Ready,
                    CallsTypeOK, InOrder
      <4>2. /\ call[c].query \in Queries /\ call[c].answer = "none"
            /\ Request(c) \in RequestType /\ call[c] \in CallType
            /\ call[c].at \in 1..Len(Requests[call[c].query])
        BY <1>1, <4>1, UnderFacts
      <4>3. Over(c) /\ reqCtx' = reqCtx
        BY <3>4, <4>1, OverFacts
        DEF Outcome, Receive, AskAgain, FailMildly, FailForGood
      <4>4. CASE Receive(c)
        <5>1. PICK d \in Decide(c, Request(c).then) :
                call' = [call EXCEPT ![c] = Continue(c, d)]
          BY <4>4 DEF Receive
        <5>2. Request(c).then \in SUBSET Int /\ call[c].out = TRUE
          BY <4>2, <4>4 DEF Receive, RequestType, CallType
        <5>3. call'[c].lacks = call[c].lacks /\ call'[c].query = call[c].query
          BY <1>1, <4>1, <5>1, <5>2, ContinueFacts
        <5>4. ~Doomed(c)
          BY <5>2 DEF Doomed
        <5> QED BY <4>2, <5>3, <5>4 DEF LostInv, Lost
      <4>5. CASE AskAgain(c)
        <5>1. call' = [call EXCEPT ![c] = GoOn(c, 0)] /\ Request(c).failing = {0}
          BY <4>5 DEF AskAgain
        <5>2. call'[c].lacks = call[c].lacks /\ call'[c].query = call[c].query
          BY <1>1, <4>1, <5>1, GoOnFacts
        <5>3. ~Doomed(c)
          BY <5>1, RolesGoOn DEF Doomed, Request
        <5> QED BY <4>2, <5>2, <5>3 DEF LostInv, Lost
      <4>6. CASE FailForGood(c)
        <5>1. call'[c].answer = "error"
          BY <1>1, <4>6 DEF FailForGood, CallType
        <5> QED BY <5>1 DEF Lost
      <4>7. CASE FailMildly(c)
        <5> SUFFICES ASSUME Lost(c)' PROVE Doomed(c)'
          OBVIOUS
        <5>1. PICK d \in Decide(c, Request(c).failing) :
                call' = [call EXCEPT ![c] = WithoutIt(c, Continue(c, d))]
          BY <4>7 DEF FailMildly
        <5>2. Request(c).failing \in SUBSET Int
          BY <4>2 DEF RequestType
        <5>3. /\ Continue(c, d) \in CallType
              /\ Continue(c, d).query = call[c].query /\ ~Continue(c, d).out
              /\ call[c].at + d \in 1..Len(Requests[call[c].query]) =>
                   /\ Continue(c, d).at = call[c].at + d
                   /\ Continue(c, d).answer = "none"
          BY <4>1, <5>1, <5>2, ContinueFacts
        <5>4. /\ call'[c].query = Continue(c, d).query /\ call'[c].at = Continue(c, d).at
              /\ call'[c].out = Continue(c, d).out /\ call'[c].answer = Continue(c, d).answer
              /\ call'[c] \in CallType
          <6>1. call'[c] = WithoutIt(c, Continue(c, d))
            BY <1>1, <5>1
          <6> QED BY <5>3, <6>1, UpdatedByLoss
        <5>5. call'[c].lacks = TRUE /\ call[c].query \notin Dropping
          BY <5>3, <5>4 DEF Lost
        <5>6. Ended(c) /\ call[c].query \in Roles /\ call[c].at = 3
          BY <4>1, <4>7, <5>5, FailedMildly
        <5>7. Request(c).failing = {-1, 0, 1} /\ Len(Requests[call[c].query]) = 5
          BY <5>6, RolesGoOn DEF Request
        <5>8. d \in {-1, 0, 1}
          BY <5>1, <5>7 DEF Decide
        <5>9. call'[c].at \in {2, 3, 4} /\ call'[c].answer = "none"
          BY <5>3, <5>4, <5>6, <5>7, <5>8
        <5>10. call'[c].out = FALSE
          BY <5>3, <5>4 DEF CallType
        <5> QED BY <4>3, <5>3, <5>4, <5>6, <5>9, <5>10 DEF Doomed, Ended
      <4> QED BY <3>4, <4>4, <4>5, <4>6, <4>7 DEF Outcome
    <3> QED BY <1>5, <3>1, <3>2, <3>3, <3>4 DEF CallStep
  <2>3. ASSUME NEW d \in Callers PROVE (Lost(d) => Doomed(d))'
    BY <2>1, <2>2, LeftAlone
  <2> QED BY <2>3 DEF LostInv
<1> QED BY <1>3, <1>4, <1>5 DEF CallsNext

-----------------------------------------------------------------------------
(* A request of any other query than those of Noting that may fail without *)
(* an end to the query is dropped, or asked again.                         *)
LEMMA OnlyTheseNote ==
  ASSUME NEW query \in Queries \ Noting, NEW at \in 1..Len(Requests[query]),
         Requests[query][at].loses = FALSE
  PROVE  Requests[query][at].failing \in {{}, {0}}
<1> USE HelperTypes, HelperNotes
<1> HIDE DEF RequestType
<1> DEFINE Silent(r) == r.loses = TRUE \/ r.failing \in {{}, {0}}
<1>1. /\ \A i \in 1..Len(AddressGet) : Silent(AddressGet[i])
      /\ \A i \in 1..Len(VolumeList) : Silent(VolumeList[i])
  BY DEF AddressGet, VolumeList
<1>8. /\ \A i \in 1..Len(SiteGet) : Silent(SiteGet[i])
      /\ \A i \in 1..Len(AlarmList) : Silent(AlarmList[i])
  BY DEF SiteGet, AlarmList
<1>2. /\ \A i \in 1..Len(LoadBalancerList) : Silent(LoadBalancerList[i])
      /\ \A i \in 1..Len(HealthCheckList) : Silent(HealthCheckList[i])
  BY DEF LoadBalancerList, HealthCheckList
<1>3. /\ \A i \in 1..Len(FunctionGet) : Silent(FunctionGet[i])
      /\ \A i \in 1..Len(FirewallGet) : Silent(FirewallGet[i])
  BY DEF FunctionGet, FirewallGet
<1>4. query \in {"AddressGet", "VolumeList", "SiteGet", "AlarmList",
                "LoadBalancerList", "HealthCheckList", "FunctionGet", "FirewallGet"}
  BY RequestsByName DEF Noting
<1>5. CASE query \in {"AddressGet", "VolumeList", "SiteGet", "AlarmList"}
  BY <1>1, <1>5, <1>8, RequestsByName
<1>6. CASE query \in {"LoadBalancerList", "HealthCheckList"}
  BY <1>2, <1>6, RequestsByName
<1>7. CASE query \in {"FunctionGet", "FirewallGet"}
  BY <1>3, <1>7, RequestsByName
<1> QED BY <1>4, <1>5, <1>6, <1>7

(* What a query notes it noted at a request that may fail so.              *)
NotedInv ==
  \A c \in Callers : call[c].noted = TRUE => call[c].query \in Noting

LEMMA NextNotedInv ==
  ASSUME NotedInv, CallsTypeOK, [CallsNext]_callsVars
  PROVE  NotedInv'
<1>1. call \in [Callers -> CallType]
  BY DEF CallsTypeOK, CallType
<1>2. CASE UNCHANGED call
  BY <1>2 DEF NotedInv
<1>3. CASE UNCHANGED callsVars
  BY <1>2, <1>3 DEF callsVars
<1>4. CASE Watch \/ PassTime \/ Refilling \/ Stopping \/ Cancelling
  BY <1>2, <1>4 DEF Watch, PassTime, Refilling, Stopping, Cancelling
<1>5. ASSUME NEW c \in Callers, CallStep(c) PROVE NotedInv'
  <2>1. CASE WaitInLine(c) \/ EndContext(c)
    BY <1>2, <2>1 DEF WaitInLine, EndContext
  <2>2. ASSUME \A d \in Callers \ {c} : call'[d] = call[d],
               call'[c].noted = TRUE => call'[c].query \in Noting
        PROVE  NotedInv'
    BY <2>2 DEF NotedInv
  <2>3. ASSUME \A d \in Callers \ {c} : call'[d] = call[d],
               call'[c].noted = call[c].noted, call'[c].query = call[c].query
        PROVE  NotedInv'
    BY <2>3 DEF NotedInv
  <2>4. CASE Begin(c) \/ Return(c)
    <3>1. \A d \in Callers \ {c} : call'[d] = call[d]
      BY <1>1, <2>4 DEF Begin, Return
    <3>2. call'[c].noted = FALSE
      <4>1. CASE Begin(c)
        BY <1>1, <4>1 DEF Begin, NoCall, CallType
      <4>2. CASE Return(c)
        BY <1>1, <4>2 DEF Return, NoCall
      <4> QED BY <2>4, <4>1, <4>2
    <3> QED BY <2>2, <3>1, <3>2
  <2>5. CASE Send(c)
    <3>1. call' = [call EXCEPT ![c].out = TRUE]
      BY <2>5 DEF Send
    <3>2. /\ \A d \in Callers \ {c} : call'[d] = call[d]
          /\ call'[c].noted = call[c].noted /\ call'[c].query = call[c].query
      BY <1>1, <3>1 DEF CallType
    <3> QED BY <2>3, <3>2
  <2>6. CASE Outcome(c)
    <3>1. Under(c)
      BY <2>6 DEF Outcome, Receive, AskAgain, FailMildly, FailForGood, Fails, Ready,
                  CallsTypeOK, InOrder
    <3>2. /\ call[c].query \in Queries /\ Request(c) \in RequestType
          /\ call[c] \in CallType
          /\ call[c].at \in 1..Len(Requests[call[c].query])
      BY <1>1, <3>1, UnderFacts
    <3>3. \A d \in Callers \ {c} : call'[d] = call[d]
      BY <1>1, <2>6 DEF Outcome, Receive, AskAgain, FailMildly, FailForGood
    <3>4. CASE Receive(c)
      <4>1. PICK d \in Decide(c, Request(c).then) :
              call' = [call EXCEPT ![c] = Continue(c, d)]
        BY <3>4 DEF Receive
      <4>2. Request(c).then \in SUBSET Int
        BY <3>2 DEF RequestType
      <4>3. call'[c].noted = call[c].noted /\ call'[c].query = call[c].query
        BY <1>1, <3>1, <4>1, <4>2, ContinueFacts
      <4> QED BY <2>3, <3>3, <4>3
    <3>5. CASE AskAgain(c)
      <4>1. call' = [call EXCEPT ![c] = GoOn(c, 0)]
        BY <3>5 DEF AskAgain
      <4>2. call'[c].noted = call[c].noted /\ call'[c].query = call[c].query
        BY <1>1, <3>1, <4>1, GoOnFacts
      <4> QED BY <2>3, <3>3, <4>2
    <3>6. CASE FailForGood(c)
      <4>1. call'[c] = [call[c] EXCEPT !.at = 0, !.out = FALSE, !.answer = "error"]
        BY <1>1, <3>6 DEF FailForGood
      <4>2. call'[c].noted = call[c].noted /\ call'[c].query = call[c].query
        BY <3>2, <4>1, UpdatedByError
      <4> QED BY <2>3, <3>3, <4>2
    <3>7. CASE FailMildly(c)
      <4>1. PICK d \in Decide(c, Request(c).failing) :
              call' = [call EXCEPT ![c] = WithoutIt(c, Continue(c, d))]
        BY <3>7 DEF FailMildly
      <4>2. Request(c).failing \in SUBSET Int /\ Request(c).loses \in BOOLEAN
        BY <3>2 DEF RequestType
      <4>3. /\ Continue(c, d) \in CallType /\ Continue(c, d).query = call[c].query
            /\ Continue(c, d).noted = call[c].noted
        BY <3>1, <4>1, <4>2, ContinueFacts
      <4>4. call'[c] = WithoutIt(c, Continue(c, d))
        BY <1>1, <4>1
      <4>5. /\ call'[c].query = Continue(c, d).query
            /\ call'[c].noted = TRUE =>
                 Continue(c, d).noted = TRUE \/ (~Request(c).loses /\ Ended(c))
        BY SMTT(30), <4>3, <4>4, UpdatedByLoss
      <4>6. ~Request(c).loses => call[c].query \in Noting
        <5> SUFFICES ASSUME ~Request(c).loses PROVE call[c].query \in Noting
          OBVIOUS
        <5>1. Request(c).failing # {0} /\ Request(c).failing # {}
          BY <3>7, <4>1 DEF FailMildly, Decide
        <5> QED BY <3>2, <4>2, <5>1, OnlyTheseNote DEF Request
      <4>10. call'[c].noted = TRUE => call'[c].query \in Noting
        BY <4>3, <4>5, <4>6 DEF NotedInv
      <4> QED BY <2>2, <3>3, <4>10
    <3> QED BY <2>6, <3>4, <3>5, <3>6, <3>7 DEF Outcome
  <2> QED BY <1>5, <2>1, <2>4, <2>5, <2>6 DEF CallStep
<1> QED BY <1>3, <1>4, <1>5 DEF CallsNext

(* Whatever is asked and whenever contexts end, what the end of one        *)
(* caller's context costs an answer that is cached for all of them         *)
(* (describe_source.go:202) is told by its query: something dropped for    *)
(* the queries of Dropping, a note in place of tags for those of Noting,   *)
(* and a role (iam/role.go:96-175) has every policy it embeds.             *)
THEOREM ShortWhereListed == CallsSpec => []ShortOnlyWhereListed
<1>1. CallsInit => LostInv /\ NotedInv
  BY DEF CallsInit, LostInv, Lost, NotedInv, NoCall
<1>2. LostInv /\ CallsTypeOK /\ [CallsNext]_callsVars => LostInv'
  BY NextLostInv
<1>3. NotedInv /\ CallsTypeOK /\ [CallsNext]_callsVars => NotedInv'
  BY NextNotedInv
<1>4. LostInv /\ NotedInv /\ CallsTypeOK => ShortOnlyWhereListed
  <2> SUFFICES ASSUME LostInv, NotedInv, CallsTypeOK, NEW c \in Callers,
                      call[c].answer = "items"
               PROVE  /\ call[c].lacks => call[c].query \in Dropping
                      /\ call[c].noted => call[c].query \in Noting
    BY DEF ShortOnlyWhereListed
  <2>1. ~Doomed(c)
    BY DEF Doomed
  <2>2. call[c].lacks \in BOOLEAN /\ call[c].noted \in BOOLEAN
    BY DEF CallsTypeOK
  <2>3. call[c].lacks = TRUE => call[c].query \in Dropping
    BY <2>1 DEF LostInv, Lost
  <2>4. call[c].noted = TRUE => call[c].query \in Noting
    BY DEF NotedInv
  <2> QED BY <2>2, <2>3, <2>4
<1> QED BY <1>1, <1>2, <1>3, <1>4, CallsTypes, PTL DEF CallsSpec
=============================================================================
