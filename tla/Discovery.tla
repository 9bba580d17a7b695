------------------------------ MODULE Discovery ------------------------------
(***************************************************************************)
(* Following links from item to item, as the discovery engine does with    *)
(* the sources that cmd/root.go starts: an item names other items by       *)
(* queries, the engine gives each query to the source that has its type    *)
(* and scope, and the source answers it or does not.                       *)
(*                                                                         *)
(* The catalogue of adapters says what each item links to and what each    *)
(* source takes; here the two meet. A resource is there whenever it is     *)
(* asked for, so a query goes unanswered only because the code cannot      *)
(* answer it: no source has the type in that scope, the ARN is not in the  *)
(* scope of the request, or what the source makes of the query is not what *)
(* names the resource.                                                     *)
(***************************************************************************)
EXTENDS ComputeAdapters, ContainerAdapters, DeliveryAdapters, DataAdapters, NetworkAdapters,
        Integers, FiniteSets

CONSTANTS Account, \* the account of the credentials
          Regions  \* the regions the program is configured with

ASSUME ScopesAssumption == /\ Account \notin {"aws", "global", ""}
                           /\ Regions # {} /\ "" \notin Regions /\ IsFiniteSet(Regions)

VARIABLES phase, \* what comes next
          item,  \* the item the walk is at: its type and scope
          via,   \* how it was asked for: by whom, and the link
          query  \* the query that was last asked

vars == <<phase, item, via, query>>
-----------------------------------------------------------------------------
\* A scope is what precedes and what follows its dot.
FormatScope(account, region) ==
  IF region = "" THEN <<account>> ELSE <<account, region>>

Adapters == ComputeAdapters \cup ContainerAdapters \cup DeliveryAdapters
              \cup DataAdapters \cup NetworkAdapters

\* A source per region for each adapter that is not global; those of resources
\* without a region all have the same scopes.
ScopesIn(adapter, region) ==
  (IF "region" \in adapter.scopes THEN {FormatScope(Account, region)} ELSE {})
  \cup (IF "account" \in adapter.scopes THEN {FormatScope(Account, "")} ELSE {})
  \cup (IF "aws" \in adapter.scopes THEN {FormatScope("aws", "")} ELSE {})

Source(adapter, region) ==
  [adapter |-> adapter, region |-> region, scopes |-> ScopesIn(adapter, region)]

\* mutant: globalDone is not set, so that every region adds them
SourcesOfEveryRegion == {Source(a, r) : a \in Adapters, r \in Regions}

\* For the region that comes first the global sources as well.
Sources ==
  {Source(a, r) : a \in Adapters \ GlobalAdapters, r \in Regions}
  \cup {Source(a, CHOOSE r \in Regions : TRUE) : a \in GlobalAdapters}

SourcesFor(type, scope) == {s \in Sources : s.adapter.type = type /\ scope \in s.scopes}

\* mutant: an item has the type the source says it has
ItemOfSource(source, scope) == [type |-> source.adapter.type, scope |-> scope]

Item(source, scope) == [type |-> source.adapter.items, scope |-> scope]
-----------------------------------------------------------------------------
\* An ARN is given by the scope it names and its resource.
Arn(source, scope, resource) ==
  [scope |-> CASE source.adapter.arnScope = "own" -> scope
               [] source.adapter.arnScope = "account" -> FormatScope(Account, "")
               [] source.adapter.arnScope = "none" -> FormatScope("", ""),
   resource |-> resource]

\* The resource of an ARN whose shape is not known.
UnknownShape == <<"unknown">>

NoArn == [scope |-> <<>>, resource |-> <<>>]

\* mutant: what follows the last separator
LastPart(arn) == <<arn.resource[Len(arn.resource)]>>

\* What follows the first separator; all of it if there is none.
ResourceID(arn) == IF Len(arn.resource) = 1 THEN arn.resource ELSE Tail(arn.resource)

Query(type, method, scope, name, arn) ==
  [type |-> type, method |-> method, scope |-> scope, name |-> name, arn |-> arn]

NoQuery == Query("", "", <<>>, <<>>, NoArn)

Via(by, link) == [by |-> by, link |-> link]

NoLink == Link("", "", <<>>, "", "")
-----------------------------------------------------------------------------
\* What the sources make of a query in one of their scopes.
Get(source, name) == name \in source.adapter.get

\* mutant: the scope of an ARN is not looked at
ArnInAnyScope(source, q) == TRUE

\* A GetListSource takes the ARNs of all of its scopes, the others that of the
\* request alone.
ArnInScope(source, q) ==
  IF source.adapter.kind = "getlist" THEN q.arn.scope \in source.scopes
                                     ELSE q.arn.scope = q.scope

SearchARN(source, q) ==
  /\ q.name = <<"arn">>
  /\ ArnInScope(source, q)
  /\ Get(source, ResourceID(q.arn))

\* AWS itself has an ARN only where it says.
Search(source, q) ==
  IF source.adapter.custom /\ ~(source.adapter.arnFirst /\ q.name = <<"arn">>)
  THEN q.name \in source.adapter.search /\ (q.name = <<"arn">> => q.arn.scope = q.scope)
  ELSE SearchARN(source, q)

Answers(source, q) ==
  \/ q.method = "GET" /\ Get(source, q.name)
  \/ q.method = "SEARCH" /\ Search(source, q)
-----------------------------------------------------------------------------
Init == /\ phase = "start"
        /\ item = [type |-> "", scope |-> <<>>]
        /\ via = Via("", NoLink)
        /\ query = NoQuery

\* The walk starts at any item that is listed or asked for.
Discover ==
  /\ phase = "start"
  /\ \E s \in Sources : \E scope \in s.scopes : item' = Item(s, scope)
  /\ phase' = "item"
  /\ UNCHANGED <<via, query>>

AdapterOf(i) == CHOOSE a \in Adapters : a.items = i.type

\* The ARNs of the resources of a type, wherever they are.
Arns(type) ==
  UNION {{Arn(s, scope, r) : scope \in s.scopes,
                             r \in IF s.adapter.arns = {} THEN {UnknownShape} ELSE s.adapter.arns} :
           s \in {t \in Sources : t.adapter.items = type}}

\* The query of a link of an item of this scope, where the target's scope and the
\* shape of its ARN are what they happen to be.
Queries(link, scope) ==
  IF link.at = "target"
  THEN {Query(link.to, link.method, arn.scope,
              IF link.by = <<"resourceID">> THEN ResourceID(arn) ELSE link.by, arn) :
          arn \in Arns(link.to)}
  ELSE {Query(link.to, link.method,
              CASE link.at = "own" -> scope
                [] link.at = "account" -> FormatScope(Account, "")
                [] link.at = "global" -> <<"global">>,
              link.by, [NoArn EXCEPT !.scope = FormatScope("", "")])}

Follow ==
  /\ phase = "item"
  /\ \E link \in AdapterOf(item).links :
       /\ query' \in Queries(link, item.scope)
       /\ via' = Via(item.type, link)
  /\ phase' = "asked"
  /\ UNCHANGED item

\* The engine asks again for an item it has, by the unique attribute ...
AskAgain ==
  /\ phase = "item"
  /\ query' = Query(item.type, "GET", item.scope, AdapterOf(item).unique, NoArn)
  /\ via' = Via("again", NoLink)
  /\ phase' = "asked"
  /\ UNCHANGED item

\* ... and a user searches for an ARN of its type, in the scope it is in.
AskByArn ==
  /\ phase = "item"
  /\ \E arn \in Arns(item.type) :
       /\ arn.resource # UnknownShape
       /\ query' = Query(item.type, "SEARCH", item.scope, <<"arn">>, arn)
  /\ via' = Via("arn", NoLink)
  /\ phase' = "asked"
  /\ UNCHANGED item

Answer ==
  /\ phase = "asked"
  /\ \E s \in SourcesFor(query.type, query.scope) :
       /\ Answers(s, query)
       /\ item' = Item(s, query.scope)
  /\ phase' = "item"
  /\ UNCHANGED <<via, query>>

NoAnswer ==
  /\ phase = "asked"
  /\ ~\E s \in SourcesFor(query.type, query.scope) : Answers(s, query)
  /\ phase' = "unanswered"
  /\ UNCHANGED <<item, via, query>>

Next == Discover \/ Follow \/ AskAgain \/ AskByArn \/ Answer \/ NoAnswer

Spec == Init /\ [][Next]_vars
-----------------------------------------------------------------------------
Types == {a.items : a \in Adapters}
Scopes == UNION {s.scopes : s \in Sources}

\* Every item has the type of an adapter's items, in a scope some source has, and a
\* query is asked on its behalf.
TypeOK ==
  /\ phase \in {"start", "item", "asked", "unanswered"}
  /\ phase # "start" => item.type \in Types /\ item.scope \in Scopes
  /\ phase \in {"asked", "unanswered"} => query # NoQuery /\ via.by # ""
  /\ via.by \in Types \cup {"", "again", "arn"}
  /\ via.by \in Types <=> via.link # NoLink

\* The code answered the last query, or could not, and its target is of a type
\* that the program has.
Settled == phase \in {"item", "unanswered"} /\ query.type \in Types
Followed == Settled /\ via.by \in Types /\ query.arn.resource # UnknownShape

\* ARNs no resource is found by: what follows the first separator is not the name
\* that GET wants, the search is the adapter's own and takes something else, or
\* (IAM users, S3, SNS, SQS) the ARN has no region, no scope or no type.
LostArns ==
  {<<"iam-role", <<"role", "path", "name">>>>,
   <<"iam-user", <<"User", "name">>>>,
   <<"autoscaling-auto-scaling-group",
     <<"autoScalingGroup", "uuid", "autoScalingGroupName", "name">>>>,
   <<"cloudwatch-alarm", <<"alarm", "name">>>>,
   <<"dynamodb-backup", <<"table", "tableName", "backup", "id">>>>,
   <<"ecs-container-instance", <<"container-instance", "cluster", "id">>>>,
   <<"ecs-service", <<"service", "cluster", "name">>>>,
   <<"ecs-task", <<"task", "cluster", "id">>>>,
   <<"eks-addon", <<"addon", "cluster", "name", "uuid">>>>,
   <<"elbv2-listener", <<"listener", "app", "name", "id", "listenerId">>>>,
   <<"elbv2-load-balancer", <<"loadbalancer", "app", "name", "id">>>>,
   <<"elbv2-rule", <<"listener-rule", "app", "name", "id", "listenerId", "ruleId">>>>,
   <<"s3-bucket", <<"name">>>>,
   <<"sns-endpoint", <<"endpoint", "platform", "application", "uuid">>>>,
   <<"sns-platform-application", <<"app", "platform", "name">>>>,
   <<"sns-subscription", <<"topic", "id">>>>,
   <<"sns-topic", <<"name">>>>,
   <<"sqs-queue", <<"name">>>>}

\* Links whose query is not one the target's source takes: an id for a name, a
\* name for an id, another scope than the target's (the users of IAM have a region,
\* what has them and what they are in does not).
DeadSearches ==
  {<<"ecs-cluster", "ecs-container-instance", <<"cluster">>>>,
   <<"lambda-function", "s3-bucket", <<"arn">>>>,
   <<"networkmanager-global-network", "networkmanager-site", <<"globalNetworkId">>>>}

DeadGets ==
  {<<"ec2-instance", "iam-instance-profile", <<"id">>>>,
   <<"ec2-route-table", "ec2-internet-gateway", <<"gatewayId">>>>,
   <<"autoscaling-auto-scaling-group", "ec2-placement-group", <<"name">>>>,
   <<"ecs-task", "ec2-network-interface", <<"attachmentId">>>>,
   <<"elbv2-load-balancer", "ec2-address", <<"allocationId">>>>,
   <<"cloudwatch-alarm", "ecs-service", <<"name">>>>,
   <<"cloudfront-distribution", "cloudfront-realtime-log-config", <<"arn">>>>,
   <<"sns-subscription", "iam-role", <<"path", "name">>>>,
   <<"iam-policy", "iam-user", <<"name">>>>,
   <<"iam-user", "iam-group", <<"name">>>>,
   <<"network-firewall-firewall", "s3-bucket", <<"name">>>>,
   <<"network-firewall-firewall", "iam-policy", <<"document">>>>,
   <<"directconnect-direct-connect-gateway-association", "directconnect-virtual-gateway",
     <<"id">>>>}
  \cup {<<type, "directconnect-location", <<"code">>>> :
          type \in {"directconnect-lag", "directconnect-connection",
                    "directconnect-hosted-connection", "directconnect-interconnect"}}
  \cup {<<type, "directconnect-direct-connect-gateway", <<"id">>>> :
          type \in {"directconnect-virtual-interface",
                    "directconnect-direct-connect-gateway-association",
                    "directconnect-direct-connect-gateway-attachment"}}

\* A policy of AWS links to who has it in the scope of AWS, which has no users.
FromAws == via.by = "iam-policy" /\ query.scope = FormatScope("aws", "")

\* A link to a type the program has is answered, so that the walk gets on, unless
\* it is one of the links above: the query an item mapper builds and what the
\* source of the target does with it agree everywhere else, across 107 adapters.
LinkAnswered ==
  Followed => (phase = "unanswered" <=>
                 \/ /\ query.method = "SEARCH" /\ query.name = <<"arn">>
                    /\ <<query.type, query.arn.resource>> \in LostArns
                 \/ <<via.by, query.type, query.name>> \in
                      (IF query.method = "GET" THEN DeadGets ELSE DeadSearches)
                 \/ FromAws)

\* Types whose items are not found by their unique attribute: it has less than
\* GET takes apart, or GET is not there.
NotFoundAgain ==
  {"dynamodb-backup", "ecs-container-instance", "ecs-service", "elb-instance-health",
   "lambda-layer", "lambda-layer-version", "route53-resource-record-set",
   "directconnect-location", "directconnect-customer-metadata",
   "directconnect-direct-connect-gateway-association", "directconnect-virtual-gateway",
   "networkmanager-site"}

\* A GET by the unique attribute of an item, in its scope, finds it (or another of
\* its type) again, for every type but those.
FoundAgain ==
  Settled /\ via.by = "again" => (phase = "unanswered" <=> query.type \in NotFoundAgain)

\* The ARN is of the scope of the request, as far as it says: those of IAM users do
\* not name the region, and those of S3 nothing.
OfScope(q) == q.arn.scope \in {q.scope, FormatScope(Head(q.scope), ""), FormatScope("", "")}

\* A search for an ARN in the scope of its resource finds it for every shape of ARN in
\* the tests but those above.
FoundByArn ==
  Settled /\ via.by = "arn" /\ OfScope(query) =>
    (phase = "unanswered" <=> <<query.type, query.arn.resource>> \in LostArns)

\* A search for an ARN of another scope answers nothing and never a resource of the
\* same name in the scope of the request; iam-policy, which has two scopes, does.
OtherScopeRefused ==
  Settled /\ via.by = "arn" /\ query.arn.scope # query.scope =>
    phase = "unanswered" \/ query.type = "iam-policy"

\* Types that each region adds a source for although their scope is the account's.
AskedInEveryRegion ==
  {"iam-group", "iam-instance-profile", "iam-policy", "iam-role",
   "networkmanager-global-network", "networkmanager-sites", "networkmanager-vpc-attachment"}

\* However many regions there are, a query goes to one source, so that AWS is asked
\* once and an item comes once; but for those types it goes to a source per region.
AskedOnce ==
  LET asked == SourcesFor(query.type, query.scope)
  IN phase = "asked" /\ asked # {} =>
       Cardinality(asked) =
         IF query.type \in AskedInEveryRegion THEN Cardinality(Regions) ELSE 1

Mirror(blast) == CASE blast = "in" -> "out" [] blast = "out" -> "in" [] OTHER -> blast

\* Types whose links to each other differ about what a change affects.
Disagreeing ==
  {{"efs-file-system", "efs-mount-target"}, {"s3-bucket", "lambda-function"},
   {"route53-health-check", "cloudwatch-alarm"}, {"cloudwatch-alarm"}, {"dynamodb-table"}}

\* Where two types link to each other, the adapters of both say the same of how a
\* change travels: what is "in" for one is "out" for the other.
BlastMirrored ==
  LET back == {link \in AdapterOf(item).links : link.to = via.by}
  IN phase = "item" /\ via.by \in Types /\ back # {}
       /\ {via.by, item.type} \notin Disagreeing
     => \E link \in back : link.blast = Mirror(via.link.blast)

\* Types whose sources are documented to be searched by ARN (+overmind:search).
SearchedByArn ==
  {"autoscaling-auto-scaling-group", "iam-role", "iam-user", "s3-bucket", "sns-topic",
   "sqs-queue", "sns-subscription", "sns-platform-application"}

\* "Search SNS topic by ARN" (topic.go:74), and so for the others.
DocumentedSearch ==
  via.by = "arn" /\ query.type \in SearchedByArn /\ OfScope(query) =>
    phase # "unanswered"
=============================================================================
