--------------------------- MODULE AdapterRequests ---------------------------
(***************************************************************************)
(* The requests adapters send to AWS to answer one query, in their order.  *)
(*                                                                         *)
(* What comes after a request is given by its distance in the sequence: 1  *)
(* is the next one, 0 the same again (another page, or the next item's),   *)
(* -1 the one before; past the end the answer is complete. AWS decides     *)
(* among them: how many pages a list has and how many things a page.       *)
(*                                                                         *)
(* One adapter stands for those that ask in the same way. Where items are  *)
(* enriched by goroutines of a pool (IAM roles and policies) they are      *)
(* enriched one after the other here, and the pool is several callers.     *)
(***************************************************************************)
EXTENDS Integers, Sequences

(* A request the answer needs: when it fails the query fails.              *)
Must(waits, then) ==
  [waits |-> waits, then |-> then, failing |-> {}, loses |-> FALSE]

(* limit.Wait comes first, or there is no limiter on the way.              *)
Limited(then) == Must(TRUE, then)
Direct(then) == Must(FALSE, then)

(* When it fails, HandleTagsError puts that into the tags.                 *)
Noted(request, then) == [request EXCEPT !.failing = then]

(* When it fails, nothing is said: the answer lacks what it asked for.     *)
Dropped(request, then) == [request EXCEPT !.failing = then, !.loses = TRUE]

(* When it fails it is sent again.                                         *)
AskedAgain(request) == [request EXCEPT !.failing = {0}]

-----------------------------------------------------------------------------
(* Describe-only sources: GET and unpaginated lists go through DescribeFunc, *)
(* whose first line waits in the adapters that are given a limiter; the     *)
(* pages of a paginator do not. networkmanager/site.go is given one and     *)
(* never waits.                                                             *)
AddressGet == <<Limited({1})>>
VolumeList == <<Direct({0, 1})>>
SiteGet == <<Direct({1})>>

(* Tags of the items of a page: of all at once, of each. The error of      *)
(* those of an alarm is noted and then ends the query all the same.        *)
LoadBalancerList == <<Direct({0, 1, 2}), Dropped(Direct({-1, 1}), {-1, 1})>>
DBInstanceList == <<Direct({0, 1, 2}), Noted(Direct({-1, 0, 1}), {-1, 0, 1})>>
AlarmList == <<Direct({0, 1, 2}), Direct({-1, 0, 1})>>

-----------------------------------------------------------------------------
(* Get-and-list sources. A Get notes the error of ListTagsFunc, a List     *)
(* ends with it; those of IAM report none.                                 *)
HealthCheckGet == <<Direct({1}), Direct({1}), Noted(Direct({1}), {1})>>
HealthCheckList == <<Direct({1, 3}), Direct({0, 1}), Direct({0, 1})>>

InstanceProfileGet ==
  <<Limited({1}), Noted(Limited({1, 2}), {2}), Noted(Direct({0, 1}), {1})>>

InstanceProfileList ==
  <<Limited({1, 3}),
    Noted(Limited({0, 1, 2}), {0, 2}), Noted(Direct({-1, 0, 1}), {-1, 1})>>

PolicyGet == <<Limited({1}), Limited({0, 1}), Noted(Direct({0, 1}), {1})>>

PolicyList ==
  <<Limited({0, 1, 3}), Limited({0, 1}), Noted(Direct({0, 1}), {0, 1})>>

(* mutant: a page of groups that fails is asked for again                  *)
UserGetAgain ==
  <<Limited({1}), AskedAgain(Limited({0, 1})), Noted(Direct({0, 1}), {1})>>

(* enrichUser returns the error of the groups, and nobody looks at it.     *)
UserGet ==
  <<Limited({1}), Dropped(Limited({0, 1}), {1}), Noted(Direct({0, 1}), {1})>>

UserList ==
  <<Limited({0, 1, 3}), Dropped(Limited({0, 1}), {0, 1}),
    Noted(Direct({0, 1}), {0, 1})>>

(* mutant: the attached policies may be missing too                        *)
RoleGetLenient ==
  <<Limited({1}),
    Limited({0, 1, 2}), Dropped(Limited({-1, 0, 1}), {-1, 0, 1}),
    Dropped(Limited({0, 1}), {1}),
    Noted(Direct({0, 1}), {1})>>

(* A policy embedded in a role is dropped when it fails, a page of their   *)
(* names is not, nor a page of the attached ones, which always comes after. *)
RoleGet ==
  <<Limited({1}),
    Limited({0, 1, 2}), Dropped(Limited({-1, 0, 1}), {-1, 0, 1}),
    Limited({0, 1}),
    Noted(Direct({0, 1}), {1})>>

RoleList ==
  <<Limited({0, 1, 5}),
    Limited({0, 1, 2}), Dropped(Limited({-1, 0, 1}), {-1, 0, 1}),
    Limited({-3, -2, 0, 1}),
    Noted(Direct({0, 1}), {0, 1})>>

-----------------------------------------------------------------------------
(* Always-get sources: what GetFunc asks. The two lists of a function go   *)
(* on with a page that failed; the policy of a function, the logging and   *)
(* the policy of a firewall (asked for by two goroutines at once), the     *)
(* streams of a table are left out.                                        *)
FunctionGet ==
  <<Direct({1}), AskedAgain(Direct({0, 1})), AskedAgain(Direct({0, 1})),
    Dropped(Direct({1}), {1})>>

FirewallGet == <<Direct({1}), Dropped(Direct({1}), {1}), Dropped(Direct({1}), {1})>>

TableGet == <<Direct({1}), Noted(Direct({0, 1}), {1}), Dropped(Direct({1}), {1})>>

-----------------------------------------------------------------------------
Requests ==
  [AddressGet          |-> AddressGet,
   VolumeList          |-> VolumeList,
   SiteGet             |-> SiteGet,
   LoadBalancerList    |-> LoadBalancerList,
   DBInstanceList      |-> DBInstanceList,
   AlarmList           |-> AlarmList,
   HealthCheckGet      |-> HealthCheckGet,
   HealthCheckList     |-> HealthCheckList,
   InstanceProfileGet  |-> InstanceProfileGet,
   InstanceProfileList |-> InstanceProfileList,
   PolicyGet           |-> PolicyGet,
   PolicyList          |-> PolicyList,
   UserGet             |-> UserGet,
   UserList            |-> UserList,
   RoleGet             |-> RoleGet,
   RoleList            |-> RoleList,
   FunctionGet         |-> FunctionGet,
   FirewallGet         |-> FirewallGet,
   TableGet            |-> TableGet]

Queries == DOMAIN Requests
=============================================================================
