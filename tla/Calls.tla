-------------------------------- MODULE Calls --------------------------------
(***************************************************************************)
(* Queries being answered by adapters that share a rate limiter: each      *)
(* caller sends the requests of AdapterRequests one after the other, those *)
(* that wait take a token of the bucket of LimitBucket first, AWS answers  *)
(* or fails, and the context of a query may end at any moment.             *)
(*                                                                         *)
(* The bucket, Wait and time are LimitBucket's own actions; what is added  *)
(* is when a caller takes them and what comes of its requests.             *)
(***************************************************************************)
EXTENDS LimitBucket, AdapterRequests, FiniteSets

CONSTANTS
  Asked,       \* the queries each caller is asked
  MoreMax,     \* bound: further pages and items AWS has for a query
  UnpaidMax    \* bound: requests without a token that are counted

ASSUME CallsAssumption ==
  /\ IsFiniteSet(Callers)
  /\ Asked \in [Callers -> SUBSET Queries]
  /\ MoreMax \in Nat
  /\ ~Observed   \* cmd/root.go sets no bucketFull
  /\ UnpaidMax \in Nat

VARIABLES
  call,   \* the query each caller is answering
  sent    \* history: requests AWS got in the window, with and without a token

callsVars == <<vars, call, sent>>

(* "at" is the request of the query, 0 when there is none; "out" whether   *)
(* it is on its way; "more" how many pages and items came after the first  *)
(* one of a list; "lacks" whether something was dropped, and "noted"       *)
(* whether tags were replaced by a note of the error, because the query's  *)
(* context had ended; "answer" what the source is told.                    *)
NoCall ==
  [query |-> "none", at |-> 0, out |-> FALSE, more |-> 0, lacks |-> FALSE,
   noted |-> FALSE, answer |-> "none"]

NothingSent == [paid |-> 0, unpaid |-> 0]

CallsInit ==
  /\ Init
  /\ call = [c \in Callers |-> NoCall]
  /\ sent = NothingSent

Under(c) == call[c].at > 0
Request(c) == Requests[call[c].query][call[c].at]

(* The context of the query the caller answers has ended.                  *)
Ended(c) == reqCtx[c] = "done"

-----------------------------------------------------------------------------
(* A query reaches the adapter.                                            *)
Begin(c) ==
  /\ call[c] = NoCall
  /\ \E query \in Asked[c] : call' = [call EXCEPT ![c].query = query, ![c].at = 1]
  /\ UNCHANGED <<vars, sent>>

(* limit.Wait, in the way of the requests that wait.                       *)
WaitInLine(c) ==
  /\ Under(c) /\ ~call[c].out
  /\ Request(c).waits
  /\ TakeToken(c) \/ Block(c) \/ GiveUpAtOnce(c) \/ GiveUp(c)
  /\ UNCHANGED <<call, sent>>

(* The request can be sent: Wait is behind the caller, or not on its way.  *)
Ready(c) ==
  /\ Under(c) /\ ~call[c].out
  /\ caller[c] = IF Request(c).waits THEN "calling" ELSE "idle"

Counted(waits) ==
  CASE ~window.open -> sent
    [] waits        -> [sent EXCEPT !.paid = @ + 1]
    [] OTHER        -> [sent EXCEPT !.unpaid = IF @ < UnpaidMax THEN @ + 1 ELSE @]

(* The SDK sends nothing for a context that has ended.                     *)
Send(c) ==
  /\ Ready(c) /\ ~Ended(c)
  /\ call' = [call EXCEPT ![c].out = TRUE]
  /\ sent' = Counted(Request(c).waits)
  /\ UNCHANGED vars

(* mutant: what follows a request has a context of its own                 *)
OverRenewed(c) ==
  IF Request(c).waits
    THEN /\ caller' = [caller EXCEPT ![c] = "idle"]
         /\ reqCtx' = [reqCtx EXCEPT ![c] = "live"]
         /\ UNCHANGED <<bucketVars, window>>
    ELSE UNCHANGED vars

(* Whatever comes of a request, a caller that waited for it calls no more. *)
Over(c) == IF Request(c).waits THEN CallReturns(c) ELSE UNCHANGED vars

(* mutant: one request too many                                            *)
GoOnTooFar(c, distance) ==
  LET next == call[c].at + distance IN
  IF next <= Len(Requests[call[c].query]) + 1
    THEN [call[c] EXCEPT !.at = next, !.out = FALSE]
    ELSE [call[c] EXCEPT !.at = 0, !.out = FALSE, !.answer = "items"]

(* On to the request at that distance, or to the answer.                   *)
GoOn(c, distance) ==
  LET next == call[c].at + distance IN
  IF next \in DOMAIN Requests[call[c].query]
    THEN [call[c] EXCEPT !.at = next, !.out = FALSE]
    ELSE [call[c] EXCEPT !.at = 0, !.out = FALSE, !.answer = "items"]

(* The same, when a page and what is in it decide: coming back to a        *)
(* request, there was more.                                                *)
Continue(c, distance) ==
  IF distance > 0 THEN GoOn(c, distance)
                  ELSE [GoOn(c, distance) EXCEPT !.more = @ + 1]

Decide(c, distances) ==
  {distance \in distances : distance > 0 \/ call[c].more < MoreMax}

Receive(c) ==
  /\ call[c].out
  /\ \E distance \in Decide(c, Request(c).then) :
       call' = [call EXCEPT ![c] = Continue(c, distance)]
  /\ Over(c)
  /\ UNCHANGED sent

(* AWS fails, or the SDK because the context has ended.                    *)
Fails(c) == call[c].out \/ (Ready(c) /\ Ended(c))

(* "continue" (lambda/function.go:60): the paginator stands where it was.  *)
AskAgain(c) ==
  /\ Fails(c)
  /\ Request(c).failing = {0}
  /\ call' = [call EXCEPT ![c] = GoOn(c, 0)]
  /\ Over(c)
  /\ UNCHANGED sent

(* What a query has to do without because its context had ended.           *)
WithoutIt(c, record) ==
  [record EXCEPT !.lacks = @ \/ (Request(c).loses /\ Ended(c)),
                 !.noted = @ \/ (~Request(c).loses /\ Ended(c))]

FailMildly(c) ==
  /\ Fails(c)
  /\ Request(c).failing # {0}
  /\ \E distance \in Decide(c, Request(c).failing) :
       call' = [call EXCEPT ![c] = WithoutIt(c, Continue(c, distance))]
  /\ Over(c)
  /\ UNCHANGED sent

FailForGood(c) ==
  /\ Fails(c)
  /\ Request(c).failing = {}
  /\ call' = [call EXCEPT ![c].at = 0, ![c].out = FALSE, ![c].answer = "error"]
  /\ Over(c)
  /\ UNCHANGED sent

(* The source takes the answer; the caller's next query has a context of   *)
(* its own.                                                                *)
Return(c) ==
  /\ call[c].answer # "none"
  /\ call' = [call EXCEPT ![c] = NoCall]
  /\ IF Ended(c) THEN NewRequest(c) ELSE UNCHANGED vars
  /\ UNCHANGED sent

(* The caller of the source gives up, or its time is over.                 *)
EndContext(c) ==
  /\ Under(c)
  /\ CancelRequest(c)
  /\ UNCHANGED <<call, sent>>

-----------------------------------------------------------------------------
(* A window that opens or closes starts the count anew.                    *)
Watch ==
  /\ OpenWindow
  /\ sent' = NothingSent
  /\ UNCHANGED call

PassTime ==
  /\ Tick
  /\ sent' = IF window'.open THEN sent ELSE NothingSent
  /\ UNCHANGED call

Refilling == Refiller /\ UNCHANGED <<call, sent>>
Stopping == Stop /\ UNCHANGED <<call, sent>>
Cancelling == CancelBucket /\ UNCHANGED <<call, sent>>

Outcome(c) == Receive(c) \/ AskAgain(c) \/ FailMildly(c) \/ FailForGood(c)

CallStep(c) ==
  \/ Begin(c)
  \/ WaitInLine(c)
  \/ Send(c)
  \/ Outcome(c)
  \/ Return(c)
  \/ EndContext(c)

CallsNext ==
  \/ Watch \/ PassTime
  \/ Refilling \/ Stopping \/ Cancelling
  \/ \E c \in Callers : CallStep(c)

CallsSpec == CallsInit /\ [][CallsNext]_callsVars

(* Time passes, goroutines that can run do, and a request on its way is    *)
(* answered or fails.                                                      *)
CallsFairness ==
  /\ WF_callsVars(PassTime) /\ WF_callsVars(Refilling)
  /\ \A c \in Callers :
       /\ WF_callsVars(WaitInLine(c))
       /\ WF_callsVars(Send(c))
       /\ WF_callsVars(Outcome(c))

FairCallsSpec == CallsSpec /\ CallsFairness

-----------------------------------------------------------------------------
(* A caller is in the bucket, or through it, only for a request that waits, *)
(* and has a request on its way only while it answers a query.             *)
InOrder(c) ==
  /\ Under(c) => /\ call[c].query \in Queries
                 /\ call[c].at \in 1..Len(Requests[call[c].query])
                 /\ call[c].answer = "none"
  /\ call[c].out \/ caller[c] # "idle" => Under(c)
  /\ caller[c] # "idle" => Request(c).waits

(* Types of the bucket's variables, of what each caller answers and of     *)
(* what AWS got.                                                           *)
CallsTypeOK ==
  /\ TypeOK
  /\ call \in [Callers -> [query : Queries \cup {"none"}, at : Nat,
                           out : BOOLEAN, more : 0..MoreMax, lacks : BOOLEAN,
                           noted : BOOLEAN, answer : {"none", "items", "error"}]]
  /\ sent \in [paid : Nat, unpaid : 0..UnpaidMax]
  /\ \A c \in Callers : InOrder(c)

(* AWS gets no more requests that waited, in any stretch of time, than the *)
(* bucket allows and one of each caller that had its token before: the     *)
(* limiter of limit_bucket.go throttles the requests of a query that wait, *)
(* whatever becomes of their contexts and however often pages are asked    *)
(* for.                                                                    *)
PaidBound ==
  window.open => sent.paid <= Allowance(window.ticks) + Cardinality(Callers)

(* "Create an EC2 rate limit which limits the source to 50% of the overall *)
(* rate limit" (cmd/root.go:552): the same of all requests. The pages of a *)
(* paginator are not counted by any bucket (describe_source.go:378).       *)
AllBound ==
  window.open =>
    sent.paid + sent.unpaid <= Allowance(window.ticks) + Cardinality(Callers)

(* Every query is answered, also after its context ended, as long as the   *)
(* refill goroutine runs; only a Lambda function asks for a page it cannot *)
(* get again and again, even once its context ended                        *)
(* (lambda/function.go:56-61).                                             *)
EveryQueryEnds ==
  \A c \in Callers :
    Under(c) ~> \/ ~Under(c)
                \/ bucketCtx = "cancelled" /\ ~Ended(c)
                \/ call[c].query = "FunctionGet"

(* Queries that end in requests they drop when they fail (iam/user.go:35,  *)
(* elb/elb.go:44, networkfirewall/firewall.go:50, dynamodb/table.go:71,    *)
(* lambda/function.go:88), and those that end in tags (iam/role.go:281,    *)
(* policy.go:259, user.go:158, instance_profile.go, rds/db_instance.go:89, *)
(* get_list_source.go:166).                                                *)
Dropping ==
  {"UserGet", "UserList", "LoadBalancerList", "FirewallGet", "TableGet", "FunctionGet"}

Noting ==
  {"DBInstanceList", "HealthCheckGet", "InstanceProfileGet", "InstanceProfileList",
   "PolicyGet", "PolicyList", "UserGet", "UserList", "RoleGet", "RoleList", "TableGet"}

(* An answer without error is cached for every caller, whoever's context   *)
(* ended. What the end of a context can cost it is told by its query:      *)
(* something that is left out without a word for the first of those only,  *)
(* tags that give way to a note of the error for the second only. A role   *)
(* drops the policies it cannot read, but when that is for its context it  *)
(* fails at what it asks next and is not answered.                         *)
ShortOnlyWhereListed ==
  \A c \in Callers :
    call[c].answer = "items" => /\ call[c].lacks => call[c].query \in Dropping
                                /\ call[c].noted => call[c].query \in Noting

(* Whatever queries ask, the bucket sees callers that keep to LimitBucket. *)
ImplementsBucket == Spec
=============================================================================
