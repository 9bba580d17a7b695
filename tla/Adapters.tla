------------------------------ MODULE Adapters ------------------------------
(***************************************************************************)
(* How an adapter of sources/<service>/ is described: the source it makes  *)
(* (type, generic source, scopes, what names a resource) and the queries   *)
(* its items link to.                                                      *)
(*                                                                         *)
(* A name of a resource is the sequence of its parts, each given by what   *)
(* it is and not by its value: <<"cluster", "name">> is what names an ECS  *)
(* service, its cluster's name and its own. <<"arn">> is an ARN.           *)
(*                                                                         *)
(* The shape of an ARN is AWS's. The shapes here are those of the ARNs in  *)
(* the tests of the repository; a type none of them shows has none.        *)
(***************************************************************************)
EXTENDS Sequences

\* The names GET takes, the unique attribute of the items, the resource parts of
\* the type's ARNs, split where the code may split them, and the links. "search"
\* are the names a search of the adapter's own takes if it has one ("custom"),
\* "arnFirst" is AlwaysSearchARNs, "arnScope" what ARNs name of where a resource is
\* (the scope of its "own", the "account" alone or "none"), and "items" the type its
\* items have.
Adapter(type, kind, scopes, get, arns, links) ==
  [type |-> type, items |-> type, kind |-> kind, scopes |-> scopes, get |-> {get},
   unique |-> get, arns |-> arns, links |-> links,
   custom |-> FALSE, search |-> {}, arnFirst |-> FALSE, arnScope |-> "own"]

\* The three generic sources. A scope is "region" for the account and region of
\* the source, "account" for the account alone, "aws" for SupportGlobalResources.
Describe(type, get, arns, links) ==
  Adapter(type, "describe", {"region"}, get, arns, links)

GetList(type, get, arns, links) ==
  Adapter(type, "getlist", {"region"}, get, arns, links)

AlwaysGet(type, get, arns, links) ==
  Adapter(type, "alwaysget", {"region"}, get, arns, links)

\* A source of resources that have no region.
Global(adapter) == [adapter EXCEPT !.scopes = {"account"}]

\* A search of its own: InputMapperSearch, SearchFunc or SearchInputMapper.
Searching(adapter, names) == [adapter EXCEPT !.custom = TRUE, !.search = names]

\* The same with AlwaysSearchARNs.
SearchingArns(adapter, names) == [Searching(adapter, names) EXCEPT !.arnFirst = TRUE]

\* Items whose unique attribute is not the name GET is meant for.
KnownAs(adapter, name) == [adapter EXCEPT !.unique = name]

\* A GET that takes these names and no other.
Taking(adapter, names) == [adapter EXCEPT !.get = names]

\* ARNs that name the account alone, of resources in the scope of a region.
WithoutRegion(adapter) == [adapter EXCEPT !.arnScope = "account"]

\* Items of another type than the source says it has.
Yielding(adapter, type) == [adapter EXCEPT !.items = type]

\* Resources of AWS itself as well: SupportGlobalResources.
GlobalToo(adapter) == [adapter EXCEPT !.scopes = {"account", "aws"}]

\* A link: the query, the scope it asks, and whether a change travels in (from
\* the linked item), out (to it), both ways or not at all.
Link(to, method, by, at, blast) ==
  [to |-> to, method |-> method, by |-> by, at |-> at, blast |-> blast]

\* Links of one blast propagation. A target is a type followed by the parts of
\* the name asked for: GETs in the scope of the item itself ...
Gets(targets, blast) ==
  {Link(Head(t), "GET", Tail(t), "own", blast) : t \in targets}

\* ... in the scope the item says the target is in, as account and region ...
GetsThere(targets, blast) ==
  {Link(Head(t), "GET", Tail(t), "target", blast) : t \in targets}

\* ... in the scope that is the account alone ...
GetsInAccount(targets, blast) ==
  {Link(Head(t), "GET", Tail(t), "account", blast) : t \in targets}

\* ... searches by an ARN, in the scope of the ARN ...
ByArn(types, blast) ==
  {Link(type, "SEARCH", <<"arn">>, "target", blast) : type \in types}

\* ... GETs by what is left of an ARN without its type, in the scope of the ARN ...
ByResourceID(types, blast) ==
  {Link(type, "GET", <<"resourceID">>, "target", blast) : type \in types}

\* ... other searches in the item's own scope ...
Searches(targets, blast) ==
  {Link(Head(t), "SEARCH", Tail(t), "own", blast) : t \in targets}

\* ... and addresses and names of the network, in the scope "global".
Net(types, blast) ==
  {Link(type, IF type \in {"ip", "http"} THEN "GET" ELSE "SEARCH", <<"value">>, "global", blast)
     : type \in types}

\* The same scope for what is not of the network.
GetsGlobally(targets, blast) ==
  {Link(Head(t), "GET", Tail(t), "global", blast) : t \in targets}
=============================================================================
