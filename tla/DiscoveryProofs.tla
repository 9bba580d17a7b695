-------------------------- MODULE DiscoveryProofs --------------------------
(***************************************************************************)
(* Proofs about Discovery: for any account and any finite set of regions,  *)
(* what the runs check of the links for two of them.                       *)
(*                                                                         *)
(* The adapters are not parameters: the catalogue is what the code says,   *)
(* adapter by adapter. So the argument has two halves. The first reads the *)
(* catalogue, with one step for each adapter: that its type is its own,    *)
(* what its sources take and which ARNs they lose (Sound), that each of    *)
(* its links is taken where it asks or is listed (Fits), and that the      *)
(* links which lead back say the same of a change (Agree). The second half *)
(* is about sources, scopes and queries of any adapters of which that is   *)
(* true, and ends with an inductive invariant of the walk.                 *)
(***************************************************************************)
EXTENDS Discovery, FiniteSetTheorems, TLAPS

\* What follows the first separator of the resource of an ARN.
After(r) == ResourceID([resource |-> r])

\* The types that adapters link to and no source has ...
Foreign ==
  {"acm-certificate", "acm-pca-certificate-authority",
   "acm-pca-certificate-authority-certificate", "autoscaling-launch-configuration",
   "autoscaling-policy", "backup-backup-vault", "backup-recovery-point",
   "cloudfront-cloud-front-origin-access-identity", "cloudfront-field-level-encryption",
   "cognito-idp-user-pool", "directconnect-loa", "dns", "ec2-carrier-gateway",
   "ec2-coip-pool", "ec2-elastic-gpu", "ec2-host", "ec2-local-gateway",
   "ec2-spot-instance-request", "ec2-transit-gateway", "ec2-vpc-endpoint",
   "ecs-security-group", "ecs-task-set", "elastic-inference-accelerator",
   "events-event-bus", "events-rule", "firehose-delivery-stream", "http",
   "iam-server-certificate", "ip", "kinesis-stream", "kms-key",
   "license-manager-license-configuration", "logs-log-group", "logs-log-stream",
   "networkmanager-core-network", "outposts-outpost", "rdap-ip-network",
   "rds-db-instance-automated-backup", "secretsmanager-secret", "servicediscovery-service",
   "signer-signing-job", "signer-signing-profile", "ssm-incidents-response-plan",
   "ssm-ops-item", "ssm-parameter", "vpc-lattice-target-group", "waf-web-acl",
   "wafv2-web-acl"}

\* ... and what is no type of a source for another reason.
NotTypes == {"networkmanager-site", "", "again", "arn"}

\* The types of what belongs to the account and not to a region, and of those what
\* AWS itself has as well.
OfAccount ==
  AskedInEveryRegion
  \cup {"cloudfront-distribution", "cloudfront-function", "cloudfront-key-group",
        "cloudfront-origin-access-control", "cloudfront-origin-request-policy",
        "cloudfront-response-headers-policy", "cloudfront-realtime-log-config",
        "cloudfront-streaming-distribution", "s3-bucket"}

OfAws == {"cloudfront-cache-policy", "cloudfront-continuous-deployment-policy", "iam-policy"}

\* A link is listed as dead.
Dead(type, l) ==
  \/ l.method = "GET" /\ <<type, l.to, l.by>> \in DeadGets
  \/ l.method = "SEARCH" /\ <<type, l.to, l.by>> \in DeadSearches

\* A source of the adapter takes the name a link asks for, when it is not an ARN to
\* search for ...
Takes(b, l) ==
  \/ l.method = "GET" /\ l.by \in b.get
  \/ l.method = "SEARCH" /\ b.custom /\ l.by \in b.search

\* ... and finds the resource of an ARN in its scope.
ArnFound(a, r) ==
  IF a.custom /\ ~a.arnFirst
  THEN <<"arn">> \in a.search
  ELSE After(r) \in a.get

\* An ARN leaves a region out only where all resources of the type are in one.
ArnPlaced(a) ==
  /\ a.arnScope \in {"own", "account", "none"}
  /\ a.arnScope = "account" => a.scopes = {"region"}

\* What the walk needs of an adapter by itself: where its resources are, whether its
\* items are found again, and which of its ARNs are lost.
Sound(a, type) ==
  /\ a.type = type
  /\ a.items = IF type = "networkmanager-sites" THEN "networkmanager-site" ELSE type
  /\ a.scopes = IF type \in OfAws THEN {"account", "aws"}
                ELSE IF type \in OfAccount THEN {"account"} ELSE {"region"}
  /\ ArnPlaced(a)
  /\ type \in OfAws => a.arns = {} \/ type = "iam-policy"
  /\ type # a.items => a.arns = {}
  /\ type = a.items => (a.unique \in a.get <=> type \notin NotFoundAgain)
  /\ \A r \in a.arns :
       /\ r # UnknownShape
       /\ ArnFound(a, r) /\ a.arnScope = "own" <=> <<a.items, r>> \notin LostArns

\* What it needs of a link and the adapter it leads to, by where the link asks: in
\* the scope of the item, wherever it has resources but the policies of AWS; ...
Own(a, l, b) ==
  /\ l.method = "SEARCH" => l.by # <<"arn">>
  /\ \A k \in a.scopes :
       k \in b.scopes /\ Takes(b, l)
         <=> ~Dead(a.items, l) /\ ~(a.items = "iam-policy" /\ k = "aws")

\* ... in the scope of the target, for each shape of its ARNs; ...
There(a, l, b) ==
  /\ a.items # "iam-policy"
  /\ \/ l.method = "SEARCH" /\ l.by = <<"arn">> /\ ~Dead(a.items, l)
     \/ /\ l.by # <<"arn">> /\ l.by # <<"resourceID">>
        /\ \A r \in b.arns : b.arnScope = "own" /\ (Takes(b, l) <=> ~Dead(a.items, l))
     \/ /\ l.method = "GET" /\ l.by = <<"arn">>
        /\ \A r \in b.arns : b.arnScope = "own" /\ (l.by \in b.get <=> ~Dead(a.items, l))
     \/ /\ l.method = "GET" /\ l.by = <<"resourceID">>
        /\ \A r \in b.arns :
             /\ b.arnScope = "own"
             /\ After(r) \in b.get <=> <<a.items, l.to, After(r)>> \notin DeadGets

\* ... or in the account.
InAccount(a, l, b) ==
  \/ l.method = "SEARCH" /\ l.by = <<"arn">> /\ Dead(a.items, l) /\ b.kind # "getlist"
  \/ /\ l.by # <<"arn">>
     /\ "account" \in b.scopes /\ Takes(b, l) <=> ~Dead(a.items, l)

Matches(a, l, b) ==
  /\ l.to = b.type
  /\ \/ l.at = "own" /\ Own(a, l, b)
     \/ l.at = "target" /\ There(a, l, b)
     \/ l.at = "account" /\ InAccount(a, l, b)
     \/ l.at = "global" /\ Dead(a.items, l)

\* Every link of the adapter leads to one of the targets, where it is taken or is
\* listed, or to a type that no source has.
Fits(a, targets) ==
  \A l \in a.links :
    /\ l.method \in {"GET", "SEARCH"} /\ l.at \in {"own", "target", "account", "global"}
    /\ \/ l.to \in Foreign
       \/ l.to = "networkmanager-site" /\ l.at = "own" /\ Dead(a.items, l)
       \/ \E b \in targets : Matches(a, l, b)

\* Where a target links back, one of its links says of a change what this one does.
Agree(a, targets) ==
  \A b \in targets : \A l \in a.links : \A k \in b.links :
    l.to = b.type /\ k.to = a.items =>
      \/ {a.items, b.items} \in Disagreeing
      \/ \E back \in b.links : back.to = a.items /\ back.blast = Mirror(l.blast)

\* The types of the adapters, by family, and of those whose sources are global.
ComputeNames ==
  {"ec2-address", "ec2-capacity-reservation", "ec2-capacity-reservation-fleet",
   "ec2-egress-only-internet-gateway", "ec2-iam-instance-profile-association", "ec2-image",
   "ec2-instance", "ec2-instance-event-window", "ec2-instance-status",
   "ec2-internet-gateway", "ec2-key-pair", "ec2-launch-template",
   "ec2-launch-template-version", "ec2-nat-gateway", "ec2-network-acl",
   "ec2-network-interface", "ec2-network-interface-permission", "ec2-placement-group",
   "ec2-reserved-instance", "ec2-route-table", "ec2-security-group", "ec2-snapshot",
   "ec2-subnet", "ec2-volume", "ec2-volume-status", "ec2-vpc", "ec2-vpc-peering-connection",
   "autoscaling-auto-scaling-group", "efs-access-point", "efs-backup-policy",
   "efs-file-system", "efs-mount-target", "efs-replication-configuration"}

ContainerNames ==
  {"ecs-capacity-provider", "ecs-cluster", "ecs-container-instance", "ecs-service", "ecs-task",
   "ecs-task-definition", "eks-addon", "eks-cluster", "eks-fargate-profile",
   "eks-nodegroup", "lambda-function", "lambda-layer", "lambda-layer-version"}

DeliveryNames ==
  {"elb-load-balancer", "elb-instance-health", "elbv2-load-balancer", "elbv2-listener",
   "elbv2-rule", "elbv2-target-group", "elbv2-target-health", "route53-health-check",
   "route53-hosted-zone", "route53-resource-record-set", "cloudfront-cache-policy",
   "cloudfront-continuous-deployment-policy", "cloudfront-distribution",
   "cloudfront-function", "cloudfront-key-group", "cloudfront-origin-access-control",
   "cloudfront-origin-request-policy", "cloudfront-response-headers-policy",
   "cloudfront-realtime-log-config", "cloudfront-streaming-distribution", "s3-bucket"}

DataNames ==
  {"rds-db-cluster", "rds-db-cluster-parameter-group", "rds-db-instance",
   "rds-db-parameter-group", "rds-db-subnet-group", "rds-option-group", "dynamodb-backup",
   "dynamodb-table", "sns-data-protection-policy", "sns-endpoint",
   "sns-platform-application", "sns-subscription", "sns-topic", "sqs-queue",
   "cloudwatch-alarm"}

NetworkNames ==
  {"directconnect-connection", "directconnect-customer-metadata",
   "directconnect-direct-connect-gateway-association-proposal",
   "directconnect-direct-connect-gateway-association",
   "directconnect-direct-connect-gateway-attachment",
   "directconnect-direct-connect-gateway", "directconnect-hosted-connection",
   "directconnect-interconnect", "directconnect-lag", "directconnect-location",
   "directconnect-router-configuration", "directconnect-virtual-gateway",
   "directconnect-virtual-interface", "network-firewall-firewall",
   "network-firewall-firewall-policy", "network-firewall-rule-group",
   "network-firewall-tls-inspection-configuration", "networkmanager-global-network",
   "networkmanager-sites", "networkmanager-vpc-attachment", "iam-group",
   "iam-instance-profile", "iam-policy", "iam-role", "iam-user"}

GlobalNames ==
  {"cloudfront-cache-policy", "cloudfront-continuous-deployment-policy",
   "cloudfront-distribution", "cloudfront-function", "cloudfront-key-group",
   "cloudfront-origin-access-control", "cloudfront-origin-request-policy",
   "cloudfront-response-headers-policy", "cloudfront-realtime-log-config",
   "cloudfront-streaming-distribution", "s3-bucket"}
-----------------------------------------------------------------------------
\* The type of a target and the parts of the name it is asked for by.
LEMMA Parts ==
  /\ \A x : Head(<<x>>) = x /\ Tail(<<x>>) = <<>>
  /\ \A x, y : Head(<<x, y>>) = x /\ Tail(<<x, y>>) = <<y>>
  /\ \A x, y, z : Head(<<x, y, z>>) = x /\ Tail(<<x, y, z>>) = <<y, z>>
OBVIOUS

\* What follows the first separator, for as many parts as an ARN has.
LEMMA AfterIs ==
  /\ \A x : After(<<x>>) = <<x>>
  /\ \A x, y : After(<<x, y>>) = <<y>>
  /\ \A x, y, z : After(<<x, y, z>>) = <<y, z>>
  /\ \A w, x, y, z : After(<<w, x, y, z>>) = <<x, y, z>>
  /\ \A v, w, x, y, z : After(<<v, w, x, y, z>>) = <<w, x, y, z>>
  /\ \A u, v, w, x, y, z : After(<<u, v, w, x, y, z>>) = <<v, w, x, y, z>>
<1> USE DEF After, ResourceID
<1>1. ASSUME NEW x PROVE After(<<x>>) = <<x>> OBVIOUS
<1>2. ASSUME NEW x, NEW y PROVE After(<<x, y>>) = <<y>> OBVIOUS
<1>3. ASSUME NEW x, NEW y, NEW z PROVE After(<<x, y, z>>) = <<y, z>> OBVIOUS
<1>4. ASSUME NEW w, NEW x, NEW y, NEW z
      PROVE  After(<<w, x, y, z>>) = <<x, y, z>>
  OBVIOUS
<1>5. ASSUME NEW v, NEW w, NEW x, NEW y, NEW z
      PROVE  After(<<v, w, x, y, z>>) = <<w, x, y, z>>
  OBVIOUS
<1>6. ASSUME NEW u, NEW v, NEW w, NEW x, NEW y, NEW z
      PROVE  After(<<u, v, w, x, y, z>>) = <<v, w, x, y, z>>
  OBVIOUS
<1> HIDE DEF After
<1> QED BY <1>1, <1>2, <1>3, <1>4, <1>5, <1>6

\* An adapter is a record of these fields.
Fields ==
  {"type", "items", "kind", "scopes", "get", "unique", "arns", "links", "custom", "search",
   "arnFirst", "arnScope"}

IsAdapter(a) == a = [f \in Fields |-> a[f]]

\* What the constructors make is a record of these fields, of this type and with
\* these links.
LEMMA Made ==
  /\ \A type, get, arns, links :
       /\ IsAdapter(Describe(type, get, arns, links))
       /\ Describe(type, get, arns, links).type = type
       /\ Describe(type, get, arns, links).items = type
       /\ Describe(type, get, arns, links).links = links
  /\ \A type, get, arns, links :
       /\ IsAdapter(GetList(type, get, arns, links))
       /\ GetList(type, get, arns, links).type = type
       /\ GetList(type, get, arns, links).items = type
       /\ GetList(type, get, arns, links).links = links
  /\ \A type, get, arns, links :
       /\ IsAdapter(AlwaysGet(type, get, arns, links))
       /\ AlwaysGet(type, get, arns, links).type = type
       /\ AlwaysGet(type, get, arns, links).items = type
       /\ AlwaysGet(type, get, arns, links).links = links
<1>1. ASSUME NEW type, NEW get, NEW arns, NEW links
      PROVE  /\ IsAdapter(Describe(type, get, arns, links))
             /\ Describe(type, get, arns, links).type = type
             /\ Describe(type, get, arns, links).items = type
             /\ Describe(type, get, arns, links).links = links
  BY DEF Adapter, Describe, IsAdapter, Fields
<1>2. ASSUME NEW type, NEW get, NEW arns, NEW links
      PROVE  /\ IsAdapter(GetList(type, get, arns, links))
             /\ GetList(type, get, arns, links).type = type
             /\ GetList(type, get, arns, links).items = type
             /\ GetList(type, get, arns, links).links = links
  BY DEF Adapter, GetList, IsAdapter, Fields
<1>3. ASSUME NEW type, NEW get, NEW arns, NEW links
      PROVE  /\ IsAdapter(AlwaysGet(type, get, arns, links))
             /\ AlwaysGet(type, get, arns, links).type = type
             /\ AlwaysGet(type, get, arns, links).items = type
             /\ AlwaysGet(type, get, arns, links).links = links
  BY DEF Adapter, AlwaysGet, IsAdapter, Fields
<1> QED BY <1>1, <1>2, <1>3

\* What else is said of an adapter leaves its type, its links and, but for Yielding,
\* the type of its items.
LEMMA Kept ==
  /\ \A a : IsAdapter(a) =>
       /\ IsAdapter(Global(a)) /\ Global(a).type = a.type
       /\ Global(a).items = a.items /\ Global(a).links = a.links
  /\ \A a : IsAdapter(a) =>
       /\ IsAdapter(GlobalToo(a)) /\ GlobalToo(a).type = a.type
       /\ GlobalToo(a).items = a.items /\ GlobalToo(a).links = a.links
  /\ \A a, x : IsAdapter(a) =>
       /\ IsAdapter(Searching(a, x)) /\ Searching(a, x).type = a.type
       /\ Searching(a, x).items = a.items /\ Searching(a, x).links = a.links
  /\ \A a, x : IsAdapter(a) =>
       /\ IsAdapter(SearchingArns(a, x)) /\ SearchingArns(a, x).type = a.type
       /\ SearchingArns(a, x).items = a.items /\ SearchingArns(a, x).links = a.links
  /\ \A a, x : IsAdapter(a) =>
       /\ IsAdapter(KnownAs(a, x)) /\ KnownAs(a, x).type = a.type
       /\ KnownAs(a, x).items = a.items /\ KnownAs(a, x).links = a.links
  /\ \A a, x : IsAdapter(a) =>
       /\ IsAdapter(Taking(a, x)) /\ Taking(a, x).type = a.type
       /\ Taking(a, x).items = a.items /\ Taking(a, x).links = a.links
  /\ \A a, x : IsAdapter(a) =>
       /\ IsAdapter(Yielding(a, x)) /\ Yielding(a, x).type = a.type
       /\ Yielding(a, x).items = x /\ Yielding(a, x).links = a.links
  /\ \A a : IsAdapter(a) =>
       /\ IsAdapter(WithoutRegion(a)) /\ WithoutRegion(a).type = a.type
       /\ WithoutRegion(a).items = a.items /\ WithoutRegion(a).links = a.links
<1>1. \A a : IsAdapter(a) =>
        /\ IsAdapter(Global(a)) /\ Global(a).type = a.type
        /\ Global(a).items = a.items /\ Global(a).links = a.links
  BY DEF Global, IsAdapter, Fields
<1>2. \A a : IsAdapter(a) =>
        /\ IsAdapter(GlobalToo(a)) /\ GlobalToo(a).type = a.type
        /\ GlobalToo(a).items = a.items /\ GlobalToo(a).links = a.links
  BY DEF GlobalToo, IsAdapter, Fields
<1>3. \A a, x : IsAdapter(a) =>
        /\ IsAdapter(Searching(a, x)) /\ Searching(a, x).type = a.type
        /\ Searching(a, x).items = a.items /\ Searching(a, x).links = a.links
  BY ZenonT(60) DEF Searching, IsAdapter, Fields
<1>4. \A a, x : IsAdapter(a) =>
        /\ IsAdapter(SearchingArns(a, x)) /\ SearchingArns(a, x).type = a.type
        /\ SearchingArns(a, x).items = a.items /\ SearchingArns(a, x).links = a.links
  BY ZenonT(60) DEF Searching, SearchingArns, IsAdapter, Fields
<1>5. \A a, x : IsAdapter(a) =>
        /\ IsAdapter(KnownAs(a, x)) /\ KnownAs(a, x).type = a.type
        /\ KnownAs(a, x).items = a.items /\ KnownAs(a, x).links = a.links
  BY DEF KnownAs, IsAdapter, Fields
<1>6. \A a, x : IsAdapter(a) =>
        /\ IsAdapter(Taking(a, x)) /\ Taking(a, x).type = a.type
        /\ Taking(a, x).items = a.items /\ Taking(a, x).links = a.links
  BY DEF Taking, IsAdapter, Fields
<1>7. \A a, x : IsAdapter(a) =>
        /\ IsAdapter(Yielding(a, x)) /\ Yielding(a, x).type = a.type
        /\ Yielding(a, x).items = x /\ Yielding(a, x).links = a.links
  BY DEF Yielding, IsAdapter, Fields
<1>8. \A a : IsAdapter(a) =>
        /\ IsAdapter(WithoutRegion(a)) /\ WithoutRegion(a).type = a.type
        /\ WithoutRegion(a).items = a.items /\ WithoutRegion(a).links = a.links
  BY DEF WithoutRegion, IsAdapter, Fields
<1> QED BY <1>1, <1>2, <1>3, <1>4, <1>5, <1>6, <1>7, <1>8

\* The bucket's adapter is made in a way of its own.
LEMMA MadeBucket ==
  Bucket.type = "s3-bucket" /\ Bucket.items = "s3-bucket" /\ Bucket.links = BucketLinks
BY DEF Bucket, Global, Adapter

\* The pairs of types whose links are listed as differing, in either order.
LEMMA Differ ==
  /\ {"efs-file-system", "efs-mount-target"} \in Disagreeing
  /\ {"efs-mount-target", "efs-file-system"} \in Disagreeing
  /\ {"s3-bucket", "lambda-function"} \in Disagreeing
  /\ {"lambda-function", "s3-bucket"} \in Disagreeing
  /\ {"route53-health-check", "cloudwatch-alarm"} \in Disagreeing
  /\ {"cloudwatch-alarm", "route53-health-check"} \in Disagreeing
  /\ {"cloudwatch-alarm", "cloudwatch-alarm"} \in Disagreeing
  /\ {"dynamodb-table", "dynamodb-table"} \in Disagreeing
BY DEF Disagreeing
-----------------------------------------------------------------------------
\* The adapters of sources/ec2, sources/autoscaling and sources/efs:
\* what the walk needs of each by itself, and that its type is its own.
LEMMA ComputeSound ==
  /\ \A a \in ComputeAdapters : a.type \in ComputeNames /\ Sound(a, a.type)
  /\ \A a, b \in ComputeAdapters : a.type = b.type => a = b
<1> USE AfterIs
    DEF Sound, ArnFound, ArnPlaced, NotFoundAgain, LostArns, UnknownShape, OfAccount, OfAws,
        AskedInEveryRegion, Adapter, Describe, GetList, AlwaysGet, Global, Searching,
        SearchingArns, KnownAs, Taking, Yielding, GlobalToo
<1>1. Sound(Address, "ec2-address") BY DEF Address
<1>2. Sound(CapacityReservation, "ec2-capacity-reservation") BY DEF CapacityReservation, Ec2
<1>3. Sound(CapacityReservationFleet, "ec2-capacity-reservation-fleet")
  BY DEF CapacityReservationFleet, Ec2
<1>4. Sound(EgressOnlyInternetGateway, "ec2-egress-only-internet-gateway")
  BY DEF EgressOnlyInternetGateway, Ec2
<1>5. Sound(IamInstanceProfileAssociation, "ec2-iam-instance-profile-association")
  BY DEF IamInstanceProfileAssociation, Ec2
<1>6. Sound(Image, "ec2-image") BY DEF Image, Ec2
<1>7. Sound(Instance, "ec2-instance") BY DEF Instance, Ec2
<1>8. Sound(InstanceEventWindow, "ec2-instance-event-window")
  BY DEF InstanceEventWindow, Ec2
<1>9. Sound(InstanceStatus, "ec2-instance-status") BY DEF InstanceStatus, Ec2
<1>10. Sound(InternetGateway, "ec2-internet-gateway") BY DEF InternetGateway, Ec2
<1>11. Sound(KeyPair, "ec2-key-pair") BY DEF KeyPair
<1>12. Sound(LaunchTemplate, "ec2-launch-template") BY DEF LaunchTemplate, Ec2
<1>13. Sound(LaunchTemplateVersion, "ec2-launch-template-version")
  BY DEF LaunchTemplateVersion
<1>14. Sound(NatGateway, "ec2-nat-gateway") BY DEF NatGateway, Ec2
<1>15. Sound(NetworkAcl, "ec2-network-acl") BY DEF NetworkAcl, Ec2
<1>16. Sound(NetworkInterface, "ec2-network-interface") BY DEF NetworkInterface, Ec2
<1>17. Sound(NetworkInterfacePermission, "ec2-network-interface-permission")
  BY DEF NetworkInterfacePermission, Ec2
<1>18. Sound(PlacementGroup, "ec2-placement-group") BY DEF PlacementGroup, Ec2
<1>19. Sound(ReservedInstance, "ec2-reserved-instance") BY DEF ReservedInstance, Ec2
<1>20. Sound(RouteTable, "ec2-route-table") BY DEF RouteTable, Ec2
<1>21. Sound(SecurityGroup, "ec2-security-group") BY DEF SecurityGroup, Ec2
<1>22. Sound(Snapshot, "ec2-snapshot") BY DEF Snapshot, Ec2
<1>23. Sound(Subnet, "ec2-subnet") BY DEF Subnet, Ec2
<1>24. Sound(Volume, "ec2-volume") BY DEF Volume, Ec2
<1>25. Sound(VolumeStatus, "ec2-volume-status") BY DEF VolumeStatus, Ec2
<1>26. Sound(Vpc, "ec2-vpc") BY DEF Vpc, Ec2
<1>27. Sound(VpcPeeringConnection, "ec2-vpc-peering-connection")
  BY DEF VpcPeeringConnection, Ec2
<1>28. Sound(AutoScalingGroup, "autoscaling-auto-scaling-group") BY DEF AutoScalingGroup
<1>29. Sound(AccessPoint, "efs-access-point") BY DEF AccessPoint
<1>30. Sound(BackupPolicy, "efs-backup-policy") BY DEF BackupPolicy
<1>31. Sound(FileSystem, "efs-file-system") BY DEF FileSystem
<1>32. Sound(MountTarget, "efs-mount-target") BY DEF MountTarget
<1>33. Sound(ReplicationConfiguration, "efs-replication-configuration")
  BY DEF ReplicationConfiguration
<1> HIDE AfterIs
    DEF ArnFound, ArnPlaced, NotFoundAgain, LostArns, UnknownShape, OfAccount, OfAws,
        AskedInEveryRegion, Adapter, Describe, GetList, AlwaysGet, Global, Searching,
        SearchingArns, KnownAs, Taking, Yielding, GlobalToo
<1>34. \A a \in ComputeAdapters : Sound(a, a.type)
  BY <1>1, <1>2, <1>3, <1>4, <1>5, <1>6, <1>7, <1>8, <1>9, <1>10, <1>11, <1>12, <1>13,
     <1>14, <1>15, <1>16, <1>17, <1>18, <1>19, <1>20, <1>21, <1>22, <1>23, <1>24, <1>25,
     <1>26, <1>27, <1>28, <1>29, <1>30, <1>31, <1>32, <1>33 DEF ComputeAdapters
<1>35. \A a \in ComputeAdapters : a.type \in ComputeNames
  BY SMTT(30), <1>1, <1>2, <1>3, <1>4, <1>5, <1>6, <1>7, <1>8, <1>9, <1>10, <1>11, <1>12,
     <1>13, <1>14, <1>15, <1>16, <1>17, <1>18, <1>19, <1>20, <1>21, <1>22, <1>23, <1>24,
     <1>25, <1>26, <1>27, <1>28, <1>29, <1>30, <1>31, <1>32, <1>33
  DEF ComputeAdapters, ComputeNames
<1>36. \A a, b \in ComputeAdapters : a.type = b.type => a = b
  BY <1>1, <1>2, <1>3, <1>4, <1>5, <1>6, <1>7, <1>8, <1>9, <1>10, <1>11, <1>12, <1>13,
     <1>14, <1>15, <1>16, <1>17, <1>18, <1>19, <1>20, <1>21, <1>22, <1>23, <1>24, <1>25,
     <1>26, <1>27, <1>28, <1>29, <1>30, <1>31, <1>32, <1>33 DEF ComputeAdapters
<1> HIDE DEF Sound
<1> QED BY <1>34, <1>35, <1>36

\* The adapters of sources/ecs, sources/eks and sources/lambda:
\* what the walk needs of each by itself, and that its type is its own.
LEMMA ContainerSound ==
  /\ \A a \in ContainerAdapters : a.type \in ContainerNames /\ Sound(a, a.type)
  /\ \A a, b \in ContainerAdapters : a.type = b.type => a = b
<1> USE AfterIs
    DEF Sound, ArnFound, ArnPlaced, NotFoundAgain, LostArns, UnknownShape, OfAccount, OfAws,
        AskedInEveryRegion, Adapter, Describe, GetList, AlwaysGet, Global, Searching,
        SearchingArns, KnownAs, Taking, Yielding, GlobalToo
<1>1. Sound(CapacityProvider, "ecs-capacity-provider") BY DEF CapacityProvider
<1>2. Sound(EcsCluster, "ecs-cluster") BY DEF EcsCluster
<1>3. Sound(ContainerInstance, "ecs-container-instance") BY DEF ContainerInstance
<1>4. Sound(EcsService, "ecs-service") BY DEF EcsService
<1>5. Sound(EcsTask, "ecs-task") BY DEF EcsTask
<1>6. Sound(TaskDefinition, "ecs-task-definition") BY DEF TaskDefinition
<1>7. Sound(Addon, "eks-addon") BY DEF Addon
<1>8. Sound(EksCluster, "eks-cluster") BY DEF EksCluster
<1>9. Sound(FargateProfile, "eks-fargate-profile") BY DEF FargateProfile
<1>10. Sound(Nodegroup, "eks-nodegroup") BY DEF Nodegroup
<1>11. Sound(LambdaFunction, "lambda-function") BY DEF LambdaFunction
<1>12. Sound(Layer, "lambda-layer") BY DEF Layer
<1>13. Sound(LayerVersion, "lambda-layer-version") BY DEF LayerVersion
<1> HIDE AfterIs
    DEF ArnFound, ArnPlaced, NotFoundAgain, LostArns, UnknownShape, OfAccount, OfAws,
        AskedInEveryRegion, Adapter, Describe, GetList, AlwaysGet, Global, Searching,
        SearchingArns, KnownAs, Taking, Yielding, GlobalToo
<1>14. \A a \in ContainerAdapters : Sound(a, a.type)
  BY <1>1, <1>2, <1>3, <1>4, <1>5, <1>6, <1>7, <1>8, <1>9, <1>10, <1>11, <1>12, <1>13 DEF
     ContainerAdapters
<1>15. \A a \in ContainerAdapters : a.type \in ContainerNames
  BY <1>1, <1>2, <1>3, <1>4, <1>5, <1>6, <1>7, <1>8, <1>9, <1>10, <1>11, <1>12, <1>13 DEF
     ContainerAdapters, ContainerNames
<1>16. \A a, b \in ContainerAdapters : a.type = b.type => a = b
  BY <1>1, <1>2, <1>3, <1>4, <1>5, <1>6, <1>7, <1>8, <1>9, <1>10, <1>11, <1>12, <1>13 DEF
     ContainerAdapters
<1> HIDE DEF Sound
<1> QED BY <1>14, <1>15, <1>16

\* The adapters of sources/elb, elbv2, cloudfront, route53 and s3:
\* what the walk needs of each by itself, and that its type is its own.
LEMMA DeliverySound ==
  /\ \A a \in DeliveryAdapters : a.type \in DeliveryNames /\ Sound(a, a.type)
  /\ \A a, b \in DeliveryAdapters : a.type = b.type => a = b
  /\ \A a \in GlobalAdapters : a.type \in GlobalNames
  /\ \A type \in GlobalNames : \E a \in GlobalAdapters : a.type = type
<1> USE AfterIs
    DEF Sound, ArnFound, ArnPlaced, NotFoundAgain, LostArns, UnknownShape, OfAccount, OfAws,
        AskedInEveryRegion, Adapter, Describe, GetList, AlwaysGet, Global, Searching,
        SearchingArns, KnownAs, Taking, Yielding, GlobalToo
<1>1. Sound(ElbLoadBalancer, "elb-load-balancer") BY DEF ElbLoadBalancer
<1>2. Sound(InstanceHealth, "elb-instance-health") BY DEF InstanceHealth
<1>3. Sound(LoadBalancer, "elbv2-load-balancer") BY DEF LoadBalancer
<1>4. Sound(Listener, "elbv2-listener") BY DEF Listener
<1>5. Sound(Rule, "elbv2-rule") BY DEF Rule
<1>6. Sound(TargetGroup, "elbv2-target-group") BY DEF TargetGroup
<1>7. Sound(TargetHealth, "elbv2-target-health") BY DEF TargetHealth
<1>8. Sound(HealthCheck, "route53-health-check") BY DEF HealthCheck
<1>9. Sound(HostedZone, "route53-hosted-zone") BY DEF HostedZone
<1>10. Sound(ResourceRecordSet, "route53-resource-record-set") BY DEF ResourceRecordSet
<1>11. Sound(CachePolicy, "cloudfront-cache-policy") BY DEF CachePolicy
<1>12. Sound(ContinuousDeploymentPolicy, "cloudfront-continuous-deployment-policy")
  BY DEF ContinuousDeploymentPolicy
<1>13. Sound(Distribution, "cloudfront-distribution") BY DEF Distribution
<1>14. Sound(CloudFrontFunction, "cloudfront-function") BY DEF CloudFrontFunction
<1>15. Sound(KeyGroup, "cloudfront-key-group") BY DEF KeyGroup
<1>16. Sound(OriginAccessControl, "cloudfront-origin-access-control")
  BY DEF OriginAccessControl
<1>17. Sound(OriginRequestPolicy, "cloudfront-origin-request-policy")
  BY DEF OriginRequestPolicy
<1>18. Sound(ResponseHeadersPolicy, "cloudfront-response-headers-policy")
  BY DEF ResponseHeadersPolicy
<1>19. Sound(RealtimeLogConfigs, "cloudfront-realtime-log-config") BY DEF RealtimeLogConfigs
<1>20. Sound(StreamingDistribution, "cloudfront-streaming-distribution")
  BY DEF StreamingDistribution
<1>21. Sound(Bucket, "s3-bucket") BY DEF Bucket
<1> HIDE AfterIs
    DEF ArnFound, ArnPlaced, NotFoundAgain, LostArns, UnknownShape, OfAccount, OfAws,
        AskedInEveryRegion, Adapter, Describe, GetList, AlwaysGet, Global, Searching,
        SearchingArns, KnownAs, Taking, Yielding, GlobalToo
<1>22. \A a \in DeliveryAdapters : Sound(a, a.type)
  BY <1>1, <1>2, <1>3, <1>4, <1>5, <1>6, <1>7, <1>8, <1>9, <1>10, <1>11, <1>12, <1>13,
     <1>14, <1>15, <1>16, <1>17, <1>18, <1>19, <1>20, <1>21 DEF DeliveryAdapters,
     GlobalAdapters
<1>23. \A a \in DeliveryAdapters : a.type \in DeliveryNames
  BY <1>1, <1>2, <1>3, <1>4, <1>5, <1>6, <1>7, <1>8, <1>9, <1>10, <1>11, <1>12, <1>13,
     <1>14, <1>15, <1>16, <1>17, <1>18, <1>19, <1>20, <1>21 DEF DeliveryAdapters,
     GlobalAdapters, DeliveryNames
<1>24. \A a, b \in DeliveryAdapters : a.type = b.type => a = b
  BY <1>1, <1>2, <1>3, <1>4, <1>5, <1>6, <1>7, <1>8, <1>9, <1>10, <1>11, <1>12, <1>13,
     <1>14, <1>15, <1>16, <1>17, <1>18, <1>19, <1>20, <1>21 DEF DeliveryAdapters,
     GlobalAdapters
<1>25. \A a \in GlobalAdapters : a.type \in GlobalNames
  BY <1>1, <1>2, <1>3, <1>4, <1>5, <1>6, <1>7, <1>8, <1>9, <1>10, <1>11, <1>12, <1>13,
     <1>14, <1>15, <1>16, <1>17, <1>18, <1>19, <1>20, <1>21 DEF GlobalAdapters, GlobalNames
<1>26. \A type \in GlobalNames : \E a \in GlobalAdapters : a.type = type
  BY <1>1, <1>2, <1>3, <1>4, <1>5, <1>6, <1>7, <1>8, <1>9, <1>10, <1>11, <1>12, <1>13,
     <1>14, <1>15, <1>16, <1>17, <1>18, <1>19, <1>20, <1>21 DEF GlobalAdapters, GlobalNames
<1> HIDE DEF Sound
<1> QED BY <1>22, <1>23, <1>24, <1>25, <1>26

\* The adapters of sources/rds, dynamodb, sns, sqs and cloudwatch:
\* what the walk needs of each by itself, and that its type is its own.
LEMMA DataSound ==
  /\ \A a \in DataAdapters : a.type \in DataNames /\ Sound(a, a.type)
  /\ \A a, b \in DataAdapters : a.type = b.type => a = b
<1> USE AfterIs
    DEF Sound, ArnFound, ArnPlaced, NotFoundAgain, LostArns, UnknownShape, OfAccount, OfAws,
        AskedInEveryRegion, Adapter, Describe, GetList, AlwaysGet, Global, Searching,
        SearchingArns, KnownAs, Taking, Yielding, GlobalToo
<1>1. Sound(DBCluster, "rds-db-cluster") BY SMTT(30) DEF DBCluster
<1>2. Sound(DBClusterParameterGroup, "rds-db-cluster-parameter-group")
  BY SMTT(30) DEF DBClusterParameterGroup
<1>3. Sound(DBInstance, "rds-db-instance") BY DEF DBInstance
<1>4. Sound(DBParameterGroup, "rds-db-parameter-group") BY DEF DBParameterGroup
<1>5. Sound(DBSubnetGroup, "rds-db-subnet-group") BY DEF DBSubnetGroup
<1>6. Sound(OptionGroup, "rds-option-group") BY DEF OptionGroup
<1>7. Sound(Backup, "dynamodb-backup") BY DEF Backup
<1>8. Sound(Table, "dynamodb-table") BY DEF Table
<1>9. Sound(DataProtectionPolicy, "sns-data-protection-policy") BY DEF DataProtectionPolicy
<1>10. Sound(Endpoint, "sns-endpoint") BY DEF Endpoint
<1>11. Sound(PlatformApplication, "sns-platform-application") BY DEF PlatformApplication
<1>12. Sound(Subscription, "sns-subscription") BY DEF Subscription
<1>13. Sound(Topic, "sns-topic") BY DEF Topic
<1>14. Sound(Queue, "sqs-queue") BY DEF Queue
<1>15. Sound(Alarm, "cloudwatch-alarm") BY DEF Alarm
<1> HIDE AfterIs
    DEF ArnFound, ArnPlaced, NotFoundAgain, LostArns, UnknownShape, OfAccount, OfAws,
        AskedInEveryRegion, Adapter, Describe, GetList, AlwaysGet, Global, Searching,
        SearchingArns, KnownAs, Taking, Yielding, GlobalToo
<1>16. \A a \in DataAdapters : Sound(a, a.type)
  BY <1>1, <1>2, <1>3, <1>4, <1>5, <1>6, <1>7, <1>8, <1>9, <1>10, <1>11, <1>12, <1>13,
     <1>14, <1>15 DEF DataAdapters
<1>17. \A a \in DataAdapters : a.type \in DataNames
  BY <1>1, <1>2, <1>3, <1>4, <1>5, <1>6, <1>7, <1>8, <1>9, <1>10, <1>11, <1>12, <1>13,
     <1>14, <1>15 DEF DataAdapters, DataNames
<1>18. \A a, b \in DataAdapters : a.type = b.type => a = b
  BY <1>1, <1>2, <1>3, <1>4, <1>5, <1>6, <1>7, <1>8, <1>9, <1>10, <1>11, <1>12, <1>13,
     <1>14, <1>15 DEF DataAdapters
<1> HIDE DEF Sound
<1> QED BY <1>16, <1>17, <1>18

\* The adapters of sources/directconnect, networkfirewall, networkmanager and iam:
\* what the walk needs of each by itself, and that its type is its own.
LEMMA NetworkSound ==
  /\ \A a \in NetworkAdapters : a.type \in NetworkNames /\ Sound(a, a.type)
  /\ \A a, b \in NetworkAdapters : a.type = b.type => a = b
<1> USE AfterIs
    DEF Sound, ArnFound, ArnPlaced, NotFoundAgain, LostArns, UnknownShape, OfAccount, OfAws,
        AskedInEveryRegion, Adapter, Describe, GetList, AlwaysGet, Global, Searching,
        SearchingArns, KnownAs, Taking, Yielding, GlobalToo
<1>1. Sound(Connection, "directconnect-connection") BY DEF Connection
<1>2. Sound(CustomerMetadata, "directconnect-customer-metadata")
  BY DEF CustomerMetadata, AnyName
<1>3. Sound(GatewayAssociationProposal,
           "directconnect-direct-connect-gateway-association-proposal")
  BY DEF GatewayAssociationProposal
<1>4. Sound(GatewayAssociation, "directconnect-direct-connect-gateway-association")
  BY DEF GatewayAssociation
<1>5. Sound(GatewayAttachment, "directconnect-direct-connect-gateway-attachment")
  BY DEF GatewayAttachment
<1>6. Sound(Gateway, "directconnect-direct-connect-gateway") BY DEF Gateway
<1>7. Sound(HostedConnection, "directconnect-hosted-connection") BY DEF HostedConnection
<1>8. Sound(Interconnect, "directconnect-interconnect") BY DEF Interconnect
<1>9. Sound(Lag, "directconnect-lag") BY DEF Lag
<1>10. Sound(Location, "directconnect-location") BY DEF Location, AnyName
<1>11. Sound(RouterConfiguration, "directconnect-router-configuration")
  BY DEF RouterConfiguration
<1>12. Sound(VirtualGateway, "directconnect-virtual-gateway") BY DEF VirtualGateway, AnyName
<1>13. Sound(VirtualInterface, "directconnect-virtual-interface") BY DEF VirtualInterface
<1>14. Sound(Firewall, "network-firewall-firewall") BY DEF Firewall, NetworkFirewall
<1>15. Sound(FirewallPolicy, "network-firewall-firewall-policy")
  BY DEF FirewallPolicy, NetworkFirewall
<1>16. Sound(RuleGroup, "network-firewall-rule-group") BY DEF RuleGroup, NetworkFirewall
<1>17. Sound(TLSInspectionConfiguration, "network-firewall-tls-inspection-configuration")
  BY DEF TLSInspectionConfiguration, NetworkFirewall
<1>18. Sound(GlobalNetwork, "networkmanager-global-network") BY DEF GlobalNetwork
<1>19. Sound(Site, "networkmanager-sites") BY DEF Site
<1>20. Sound(VPCAttachment, "networkmanager-vpc-attachment") BY DEF VPCAttachment
<1>21. Sound(Group, "iam-group") BY SMTT(30) DEF Group
<1>22. Sound(InstanceProfile, "iam-instance-profile") BY SMTT(30) DEF InstanceProfile
<1>23. Sound(Policy, "iam-policy") BY DEF Policy
<1>24. Sound(Role, "iam-role") BY DEF Role
<1>25. Sound(User, "iam-user") BY DEF User, WithoutRegion
<1> HIDE AfterIs
    DEF ArnFound, ArnPlaced, NotFoundAgain, LostArns, UnknownShape, OfAccount, OfAws,
        AskedInEveryRegion, Adapter, Describe, GetList, AlwaysGet, Global, Searching,
        SearchingArns, KnownAs, Taking, Yielding, GlobalToo
<1>26. \A a \in NetworkAdapters : Sound(a, a.type)
  BY <1>1, <1>2, <1>3, <1>4, <1>5, <1>6, <1>7, <1>8, <1>9, <1>10, <1>11, <1>12, <1>13,
     <1>14, <1>15, <1>16, <1>17, <1>18, <1>19, <1>20, <1>21, <1>22, <1>23, <1>24, <1>25 DEF
     NetworkAdapters
<1>27. \A a \in NetworkAdapters : a.type \in NetworkNames
  BY <1>1, <1>2, <1>3, <1>4, <1>5, <1>6, <1>7, <1>8, <1>9, <1>10, <1>11, <1>12, <1>13,
     <1>14, <1>15, <1>16, <1>17, <1>18, <1>19, <1>20, <1>21, <1>22, <1>23, <1>24, <1>25 DEF
     NetworkAdapters, NetworkNames
<1>28. \A a, b \in NetworkAdapters : a.type = b.type => a = b
  BY <1>1, <1>2, <1>3, <1>4, <1>5, <1>6, <1>7, <1>8, <1>9, <1>10, <1>11, <1>12, <1>13,
     <1>14, <1>15, <1>16, <1>17, <1>18, <1>19, <1>20, <1>21, <1>22, <1>23, <1>24, <1>25 DEF
     NetworkAdapters
<1> HIDE DEF Sound
<1> QED BY <1>26, <1>27, <1>28
-----------------------------------------------------------------------------
\* Each of the compute adapters is an adapter.
LEMMA ComputeAre ==
  {Address, CapacityReservation, CapacityReservationFleet, EgressOnlyInternetGateway,
   IamInstanceProfileAssociation, Image, Instance, InstanceEventWindow, InstanceStatus,
   InternetGateway, KeyPair, LaunchTemplate, LaunchTemplateVersion, NatGateway, NetworkAcl,
   NetworkInterface, NetworkInterfacePermission, PlacementGroup, ReservedInstance,
   RouteTable, SecurityGroup, Snapshot, Subnet, Volume, VolumeStatus, Vpc,
   VpcPeeringConnection, AutoScalingGroup, AccessPoint, BackupPolicy, FileSystem,
   MountTarget, ReplicationConfiguration}
    \subseteq Adapters
BY DEF Adapters, ComputeAdapters

\* Each of the container adapters is an adapter.
LEMMA ContainerAre ==
  {CapacityProvider, EcsCluster, ContainerInstance, EcsService, EcsTask, TaskDefinition,
   Addon, EksCluster, FargateProfile, Nodegroup, LambdaFunction, Layer, LayerVersion}
    \subseteq Adapters
BY DEF Adapters, ContainerAdapters

\* Each of the delivery adapters is an adapter.
LEMMA DeliveryAre ==
  {ElbLoadBalancer, InstanceHealth, LoadBalancer, Listener, Rule, TargetGroup, TargetHealth,
   HealthCheck, HostedZone, ResourceRecordSet, CachePolicy, ContinuousDeploymentPolicy,
   Distribution, CloudFrontFunction, KeyGroup, OriginAccessControl, OriginRequestPolicy,
   ResponseHeadersPolicy, RealtimeLogConfigs, StreamingDistribution, Bucket}
    \subseteq Adapters
BY DEF Adapters, DeliveryAdapters, GlobalAdapters

\* Each of the data adapters is an adapter.
LEMMA DataAre ==
  {DBCluster, DBClusterParameterGroup, DBInstance, DBParameterGroup, DBSubnetGroup,
   OptionGroup, Backup, Table, DataProtectionPolicy, Endpoint, PlatformApplication,
   Subscription, Topic, Queue, Alarm}
    \subseteq Adapters
BY DEF Adapters, DataAdapters

\* Each of the network adapters is an adapter.
LEMMA NetworkAre ==
  {Connection, CustomerMetadata, GatewayAssociationProposal, GatewayAssociation,
   GatewayAttachment, Gateway, HostedConnection, Interconnect, Lag, Location,
   RouterConfiguration, VirtualGateway, VirtualInterface, Firewall, FirewallPolicy,
   RuleGroup, TLSInspectionConfiguration, GlobalNetwork, Site, VPCAttachment, Group,
   InstanceProfile, Policy, Role, User}
    \subseteq Adapters
BY DEF Adapters, NetworkAdapters

\* Each target can be taken by itself.
LEMMA Each == \A a, targets : Agree(a, targets) <=> \A b \in targets : Agree(a, {b})
BY DEF Agree

\* The links of efs-file-system, one target at a time: types are listed as differing.
LEMMA FileSystemAgrees ==
  Agree(FileSystem, {BackupPolicy, MountTarget})
<1>1. Agree(FileSystem, {MountTarget})
  <2>1. FileSystem.items = "efs-file-system" BY Made, Kept DEF FileSystem
  <2>2. MountTarget.items = "efs-mount-target" BY Made, Kept DEF MountTarget
  <2> QED BY <2>1, <2>2, Differ DEF Agree
<1>2. Agree(FileSystem, {BackupPolicy})
  BY Parts, Made, Kept, MadeBucket
  DEF Agree, Mirror, Gets, GetsThere, GetsInAccount, ByArn, ByResourceID, Searches, Net,
      GetsGlobally, Link, BackupPolicy, FileSystem
<1> QED BY <1>1, <1>2, Each

\* The links of efs-mount-target, one target at a time: types are listed as differing.
LEMMA MountTargetAgrees ==
  Agree(MountTarget, {NetworkInterface, Subnet, Vpc, FileSystem})
<1>1. Agree(MountTarget, {FileSystem})
  <2>1. MountTarget.items = "efs-mount-target" BY Made, Kept DEF MountTarget
  <2>2. FileSystem.items = "efs-file-system" BY Made, Kept DEF FileSystem
  <2> QED BY <2>1, <2>2, Differ DEF Agree
<1>2. Agree(MountTarget, {NetworkInterface, Subnet, Vpc})
  BY Parts, Made, Kept, MadeBucket
  DEF Agree, Mirror, Gets, GetsThere, GetsInAccount, ByArn, ByResourceID, Searches, Net,
      GetsGlobally, Link, Ec2, NetworkInterface, Subnet, Vpc, MountTarget
<1> QED BY SMTT(30), <1>1, <1>2, Each

\* The links of lambda-function, one target at a time: types are listed as differing.
LEMMA LambdaFunctionAgrees ==
  Agree(LambdaFunction, {SecurityGroup, Subnet, Vpc, AccessPoint, LambdaFunction,
                         LayerVersion, TargetGroup, Bucket, Topic, Queue, Role})
<1>1. Agree(LambdaFunction, {Bucket})
  <2>1. LambdaFunction.items = "lambda-function" BY Made, Kept DEF LambdaFunction
  <2>2. Bucket.items = "s3-bucket" BY MadeBucket
  <2> QED BY <2>1, <2>2, Differ DEF Agree
<1>2. Agree(LambdaFunction, {SecurityGroup})
  BY Parts, Made, Kept, MadeBucket
  DEF Agree, Mirror, Gets, GetsThere, GetsInAccount, ByArn, ByResourceID, Searches, Net,
      GetsGlobally, Link, Ec2, LinkedSecurityGroups, SecurityGroup, EventLinkedItem,
      LinksFromPolicy, FunctionLinks, LambdaFunction
<1>3. Agree(LambdaFunction, {Subnet})
  BY Parts, Made, Kept, MadeBucket
  DEF Agree, Mirror, Gets, GetsThere, GetsInAccount, ByArn, ByResourceID, Searches, Net,
      GetsGlobally, Link, Ec2, Subnet, EventLinkedItem, LinksFromPolicy, FunctionLinks,
      LambdaFunction
<1>4. Agree(LambdaFunction, {Vpc})
  BY Parts, Made, Kept, MadeBucket
  DEF Agree, Mirror, Gets, GetsThere, GetsInAccount, ByArn, ByResourceID, Searches, Net,
      GetsGlobally, Link, Ec2, Vpc, EventLinkedItem, LinksFromPolicy, FunctionLinks,
      LambdaFunction
<1>5. Agree(LambdaFunction, {AccessPoint})
  BY Parts, Made, Kept, MadeBucket
  DEF Agree, Mirror, Gets, GetsThere, GetsInAccount, ByArn, ByResourceID, Searches, Net,
      GetsGlobally, Link, AccessPoint, EventLinkedItem, LinksFromPolicy, FunctionLinks,
      LambdaFunction
<1>6. Agree(LambdaFunction, {LambdaFunction})
  BY Parts, Made, Kept, MadeBucket
  DEF Agree, Mirror, Gets, GetsThere, GetsInAccount, ByArn, ByResourceID, Searches, Net,
      GetsGlobally, Link, EventLinkedItem, LinksFromPolicy, FunctionLinks, LambdaFunction
<1>7. Agree(LambdaFunction, {LayerVersion})
  BY Parts, Made, Kept, MadeBucket
  DEF Agree, Mirror, Gets, GetsThere, GetsInAccount, ByArn, ByResourceID, Searches, Net,
      GetsGlobally, Link, EventLinkedItem, LinksFromPolicy, FunctionLinks, LambdaFunction,
      LayerVersion
<1>8. Agree(LambdaFunction, {TargetGroup})
  BY Parts, Made, Kept, MadeBucket
  DEF Agree, Mirror, Gets, GetsThere, GetsInAccount, ByArn, ByResourceID, Searches, Net,
      GetsGlobally, Link, EventLinkedItem, LinksFromPolicy, FunctionLinks, LambdaFunction,
      TargetGroup
<1>9. Agree(LambdaFunction, {Topic})
  BY Parts, Made, Kept, MadeBucket
  DEF Agree, Mirror, Gets, GetsThere, GetsInAccount, ByArn, ByResourceID, Searches, Net,
      GetsGlobally, Link, EventLinkedItem, LinksFromPolicy, FunctionLinks, LambdaFunction,
      Topic
<1>10. Agree(LambdaFunction, {Queue})
  BY Parts, Made, Kept, MadeBucket
  DEF Agree, Mirror, Gets, GetsThere, GetsInAccount, ByArn, ByResourceID, Searches, Net,
      GetsGlobally, Link, EventLinkedItem, LinksFromPolicy, FunctionLinks, LambdaFunction,
      Queue
<1>11. Agree(LambdaFunction, {Role})
  BY Parts, Made, Kept, MadeBucket
  DEF Agree, Mirror, Gets, GetsThere, GetsInAccount, ByArn, ByResourceID, Searches, Net,
      GetsGlobally, Link, EventLinkedItem, LinksFromPolicy, FunctionLinks, LambdaFunction,
      Role
<1> QED BY <1>1, <1>2, <1>3, <1>4, <1>5, <1>6, <1>7, <1>8, <1>9, <1>10, <1>11, Each

\* The links of route53-health-check, one target at a time: types are listed as differing.
LEMMA HealthCheckAgrees ==
  Agree(HealthCheck, {Alarm})
<1>1. Agree(HealthCheck, {Alarm})
  <2>1. HealthCheck.items = "route53-health-check" BY Made, Kept DEF HealthCheck
  <2>2. Alarm.items = "cloudwatch-alarm" BY Made, Kept DEF Alarm
  <2> QED BY <2>1, <2>2, Differ DEF Agree
<1> QED BY <1>1, Each

\* The links of s3-bucket, one target at a time: types are listed as differing.
LEMMA BucketAgrees ==
  Agree(Bucket, {LambdaFunction, Bucket, Topic, Queue})
<1>1. Agree(Bucket, {LambdaFunction})
  <2>1. Bucket.items = "s3-bucket" BY MadeBucket
  <2>2. LambdaFunction.items = "lambda-function" BY Made, Kept DEF LambdaFunction
  <2> QED BY <2>1, <2>2, Differ DEF Agree
<1>2. Agree(Bucket, {Bucket, Topic, Queue})
  BY Parts, Made, Kept, MadeBucket
  DEF Agree, Mirror, Gets, GetsThere, GetsInAccount, ByArn, ByResourceID, Searches, Net,
      GetsGlobally, Link, BucketLinks, Topic, Queue
<1> QED BY SMTT(30), <1>1, <1>2, Each

\* The links of dynamodb-table, one target at a time: types are listed as differing.
LEMMA TableAgrees ==
  Agree(Table, {Table})
<1>1. Agree(Table, {Table})
  <2>1. Table.items = "dynamodb-table" BY Made, Kept DEF Table
  <2> QED BY <2>1, Differ DEF Agree
<1> QED BY <1>1, Each

\* The links of cloudwatch-alarm, one target at a time: types are listed as differing.
LEMMA AlarmAgrees ==
  Agree(Alarm, {Image, Instance, NatGateway, Volume, AutoScalingGroup, FileSystem,
                EcsCluster, EcsService, LambdaFunction, ElbLoadBalancer, LoadBalancer,
                TargetGroup, HealthCheck, HostedZone, Bucket, DBCluster, DBInstance, Table,
                Topic, Alarm})
<1>1. Agree(Alarm, {HealthCheck})
  <2>1. Alarm.items = "cloudwatch-alarm" BY Made, Kept DEF Alarm
  <2>2. HealthCheck.items = "route53-health-check" BY Made, Kept DEF HealthCheck
  <2> QED BY <2>1, <2>2, Differ DEF Agree
<1>2. Agree(Alarm, {Alarm})
  <2>1. Alarm.items = "cloudwatch-alarm" BY Made, Kept DEF Alarm
  <2> QED BY <2>1, Differ DEF Agree
<1>3. Agree(Alarm, {Image})
  BY SMTT(30), Parts, Made, Kept, MadeBucket
  DEF Agree, Mirror, Gets, GetsThere, GetsInAccount, ByArn, ByResourceID, Searches, Net,
      GetsGlobally, Link, Ec2, Image, SuggestedQuery, actionToLink, Alarm
<1>4. Agree(Alarm, {Instance})
  BY SMTT(30), Parts, Made, Kept, MadeBucket
  DEF Agree, Mirror, Gets, GetsThere, GetsInAccount, ByArn, ByResourceID, Searches, Net,
      GetsGlobally, Link, Ec2, InstanceLinks, Instance, SuggestedQuery, actionToLink, Alarm
<1>5. Agree(Alarm, {NatGateway})
  BY SMTT(30), Parts, Made, Kept, MadeBucket
  DEF Agree, Mirror, Gets, GetsThere, GetsInAccount, ByArn, ByResourceID, Searches, Net,
      GetsGlobally, Link, Ec2, NatGateway, SuggestedQuery, actionToLink, Alarm
<1>6. Agree(Alarm, {Volume})
  BY SMTT(30), Parts, Made, Kept, MadeBucket
  DEF Agree, Mirror, Gets, GetsThere, GetsInAccount, ByArn, ByResourceID, Searches, Net,
      GetsGlobally, Link, Ec2, Volume, SuggestedQuery, actionToLink, Alarm
<1>7. Agree(Alarm, {AutoScalingGroup})
  BY SMTT(30), Parts, Made, Kept, MadeBucket
  DEF Agree, Mirror, Gets, GetsThere, GetsInAccount, ByArn, ByResourceID, Searches, Net,
      GetsGlobally, Link, AutoScalingGroupLinks, AutoScalingGroup, SuggestedQuery,
      actionToLink, Alarm
<1>8. Agree(Alarm, {FileSystem})
  BY SMTT(30), Parts, Made, Kept, MadeBucket
  DEF Agree, Mirror, Gets, GetsThere, GetsInAccount, ByArn, ByResourceID, Searches, Net,
      GetsGlobally, Link, FileSystem, SuggestedQuery, actionToLink, Alarm
<1>9. Agree(Alarm, {EcsCluster})
  BY SMTT(30), Parts, Made, Kept, MadeBucket
  DEF Agree, Mirror, Gets, GetsThere, GetsInAccount, ByArn, ByResourceID, Searches, Net,
      GetsGlobally, Link, EcsClusterLinks, EcsCluster, SuggestedQuery, actionToLink, Alarm
<1>10. Agree(Alarm, {EcsService})
  BY SMTT(30), Parts, Made, Kept, MadeBucket
  DEF Agree, Mirror, Gets, GetsThere, GetsInAccount, ByArn, ByResourceID, Searches, Net,
      GetsGlobally, Link, EcsServiceLinks, EcsService, SuggestedQuery, actionToLink, Alarm
<1>11. Agree(Alarm, {LambdaFunction})
  BY SMTT(30), Parts, Made, Kept, MadeBucket
  DEF Agree, Mirror, Gets, GetsThere, GetsInAccount, ByArn, ByResourceID, Searches, Net,
      GetsGlobally, Link, EventLinkedItem, LinksFromPolicy, FunctionLinks, LambdaFunction,
      SuggestedQuery, actionToLink, Alarm
<1>12. Agree(Alarm, {ElbLoadBalancer})
  BY SMTT(30), Parts, Made, Kept, MadeBucket
  DEF Agree, Mirror, Gets, GetsThere, GetsInAccount, ByArn, ByResourceID, Searches, Net,
      GetsGlobally, Link, ElbLoadBalancerLinks, ElbLoadBalancer, SuggestedQuery,
      actionToLink, Alarm
<1>13. Agree(Alarm, {LoadBalancer})
  BY SMTT(30), Parts, Made, Kept, MadeBucket
  DEF Agree, Mirror, Gets, GetsThere, GetsInAccount, ByArn, ByResourceID, Searches, Net,
      GetsGlobally, Link, LoadBalancerLinks, LoadBalancer, SuggestedQuery, actionToLink,
      Alarm
<1>14. Agree(Alarm, {TargetGroup})
  BY SMTT(30), Parts, Made, Kept, MadeBucket
  DEF Agree, Mirror, Gets, GetsThere, GetsInAccount, ByArn, ByResourceID, Searches, Net,
      GetsGlobally, Link, TargetGroup, SuggestedQuery, actionToLink, Alarm
<1>15. Agree(Alarm, {HostedZone})
  BY SMTT(30), Parts, Made, Kept, MadeBucket
  DEF Agree, Mirror, Gets, GetsThere, GetsInAccount, ByArn, ByResourceID, Searches, Net,
      GetsGlobally, Link, HostedZone, SuggestedQuery, actionToLink, Alarm
<1>16. Agree(Alarm, {Bucket})
  BY SMTT(30), Parts, Made, Kept, MadeBucket
  DEF Agree, Mirror, Gets, GetsThere, GetsInAccount, ByArn, ByResourceID, Searches, Net,
      GetsGlobally, Link, BucketLinks, SuggestedQuery, actionToLink, Alarm
<1>17. Agree(Alarm, {DBCluster})
  BY SMTT(30), Parts, Made, Kept, MadeBucket
  DEF Agree, Mirror, Gets, GetsThere, GetsInAccount, ByArn, ByResourceID, Searches, Net,
      GetsGlobally, Link, DBClusterLinks, DBCluster, SuggestedQuery, actionToLink, Alarm
<1>18. Agree(Alarm, {DBInstance})
  BY SMTT(30), Parts, Made, Kept, MadeBucket
  DEF Agree, Mirror, Gets, GetsThere, GetsInAccount, ByArn, ByResourceID, Searches, Net,
      GetsGlobally, Link, DBInstanceLinks, DBInstanceServiceLinks, DBInstance,
      SuggestedQuery, actionToLink, Alarm
<1>19. Agree(Alarm, {Table})
  BY SMTT(30), Parts, Made, Kept, MadeBucket
  DEF Agree, Mirror, Gets, GetsThere, GetsInAccount, ByArn, ByResourceID, Searches, Net,
      GetsGlobally, Link, Table, SuggestedQuery, actionToLink, Alarm
<1>20. Agree(Alarm, {Topic})
  BY SMTT(30), Parts, Made, Kept, MadeBucket
  DEF Agree, Mirror, Gets, GetsThere, GetsInAccount, ByArn, ByResourceID, Searches, Net,
      GetsGlobally, Link, Topic, SuggestedQuery, actionToLink, Alarm
<1> QED BY <1>1, <1>2, <1>3, <1>4, <1>5, <1>6, <1>7, <1>8, <1>9, <1>10, <1>11, <1>12, <1>13,
           <1>14, <1>15, <1>16, <1>17, <1>18, <1>19, <1>20, Each

\* The links of the same adapters: where each leads, that it is taken there or listed,
\* and that those which lead back say the same of a change.
LEMMA ComputeWired ==
  \A a \in ComputeAdapters : \E S \in SUBSET Adapters : Fits(a, S) /\ Agree(a, S)
<1> USE Parts DEF Gets, GetsThere, GetsInAccount, ByArn, ByResourceID, Searches, Net,
                  GetsGlobally, Link
<1> USE AfterIs
    DEF Fits, Matches, Own, There, InAccount, Takes, Dead, DeadGets, DeadSearches, Foreign,
        Adapter, Describe, GetList, AlwaysGet, Global, Searching, SearchingArns, KnownAs,
        Taking, Yielding, GlobalToo
<1>1. Fits(Address, {Instance, NetworkInterface})
  BY DEF Ec2, Address, Instance, NetworkInterface
<1>2. Fits(CapacityReservation, {CapacityReservationFleet, PlacementGroup})
  BY DEF Ec2, CapacityReservation, CapacityReservationFleet, PlacementGroup
<1>3. Fits(CapacityReservationFleet, {CapacityReservation})
  BY DEF Ec2, CapacityReservation, CapacityReservationFleet
<1>4. Fits(EgressOnlyInternetGateway, {Vpc})
  BY DEF Ec2, EgressOnlyInternetGateway, Vpc
<1>5. Fits(IamInstanceProfileAssociation, {Instance, InstanceProfile})
  BY DEF Ec2, IamInstanceProfileAssociation, Instance, InstanceProfile
<1>6. Fits(Image, {})
  BY DEF Ec2, Image
<1>7. Fits(Instance, {CapacityReservation, Image, InstanceStatus, KeyPair, PlacementGroup,
                      SecurityGroup, Subnet, Volume, Vpc, InstanceProfile})
  BY DEF Ec2, CapacityReservation, Image, InstanceLinks, Instance, InstanceStatus, KeyPair,
         PlacementGroup, SecurityGroup, Subnet, Volume, Vpc, InstanceProfile
<1>8. Fits(InstanceEventWindow, {Instance})
  BY DEF Ec2, Instance, InstanceEventWindow
<1>9. Fits(InstanceStatus, {Instance})
  BY DEF Ec2, Instance, InstanceStatus
<1>10. Fits(InternetGateway, {Vpc})
  BY DEF Ec2, InternetGateway, Vpc
<1>11. Fits(KeyPair, {})
  BY DEF KeyPair
<1>12. Fits(LaunchTemplate, {})
  BY DEF Ec2, LaunchTemplate
<1>13. Fits(LaunchTemplateVersion, {CapacityReservation, Image, KeyPair, NetworkInterface,
                                    PlacementGroup, SecurityGroup, Snapshot, Subnet})
  BY DEF Ec2, CapacityReservation, Image, KeyPair, LaunchTemplateVersionLinks,
         LaunchTemplateVersion, NetworkInterface, PlacementGroup, SecurityGroup, Snapshot,
         Subnet
<1>14. Fits(NatGateway, {NetworkInterface, Subnet, Vpc})
  BY DEF Ec2, NatGateway, NetworkInterface, Subnet, Vpc
<1>15. Fits(NetworkAcl, {Subnet, Vpc})
  BY DEF Ec2, NetworkAcl, Subnet, Vpc
<1>16. Fits(NetworkInterface, {Instance, SecurityGroup, Subnet, Vpc})
  BY DEF Ec2, Instance, NetworkInterface, SecurityGroup, Subnet, Vpc
<1>17. Fits(NetworkInterfacePermission, {NetworkInterface})
  BY DEF Ec2, NetworkInterface, NetworkInterfacePermission
<1>18. Fits(PlacementGroup, {})
  BY DEF Ec2, PlacementGroup
<1>19. Fits(ReservedInstance, {})
  BY DEF Ec2, ReservedInstance
<1>20. Fits(RouteTable, {EgressOnlyInternetGateway, Instance, InternetGateway, NatGateway,
                         NetworkInterface, Subnet, Vpc, VpcPeeringConnection})
  BY DEF Ec2, EgressOnlyInternetGateway, Instance, InternetGateway, NatGateway,
         NetworkInterface, RouteTableLinks, RouteTable, Subnet, Vpc, VpcPeeringConnection
<1>21. Fits(SecurityGroup, {SecurityGroup, Vpc})
  BY DEF Ec2, LinkedSecurityGroups, SecurityGroup, Vpc
<1>22. Fits(Snapshot, {Volume})
  BY DEF Ec2, Snapshot, Volume
<1>23. Fits(Subnet, {Vpc})
  BY DEF Ec2, Subnet, Vpc
<1>24. Fits(Volume, {Instance})
  BY DEF Ec2, Instance, Volume
<1>25. Fits(VolumeStatus, {Instance, Volume})
  BY DEF Ec2, Instance, Volume, VolumeStatus
<1>26. Fits(Vpc, {})
  BY DEF Ec2, Vpc
<1>27. Fits(VpcPeeringConnection, {Vpc})
  BY DEF Ec2, Vpc, VpcPeeringConnection
<1>28. Fits(AutoScalingGroup, {Instance, LaunchTemplate, PlacementGroup, TargetGroup, Role})
  BY DEF Ec2, Instance, LaunchTemplate, PlacementGroup, AutoScalingGroupLinks,
         AutoScalingGroup, TargetGroup, Role
<1>29. Fits(AccessPoint, {FileSystem})
  BY DEF AccessPoint, FileSystem
<1>30. Fits(BackupPolicy, {})
  BY DEF BackupPolicy
<1>31. Fits(FileSystem, {BackupPolicy, MountTarget})
  BY DEF BackupPolicy, FileSystem, MountTarget
<1>32. Fits(MountTarget, {NetworkInterface, Subnet, Vpc, FileSystem})
  BY DEF Ec2, NetworkInterface, Subnet, Vpc, FileSystem, MountTarget
<1>33. Fits(ReplicationConfiguration, {FileSystem})
  BY DEF FileSystem, ReplicationConfiguration
<1> HIDE AfterIs
    DEF Fits, Matches, Own, There, InAccount, Takes, Dead, DeadGets, DeadSearches, Foreign,
        Adapter, Describe, GetList, AlwaysGet, Global, Searching, SearchingArns, KnownAs,
        Taking, Yielding, GlobalToo
<1> USE Made, Kept, MadeBucket DEF Agree, Mirror
<1>34. Agree(Address, {Instance, NetworkInterface})
  BY DEF Ec2, Address, InstanceLinks, Instance, NetworkInterface
<1>35. Agree(CapacityReservation, {CapacityReservationFleet, PlacementGroup})
  BY DEF Ec2, CapacityReservation, CapacityReservationFleet, PlacementGroup
<1>36. Agree(CapacityReservationFleet, {CapacityReservation})
  BY DEF Ec2, CapacityReservation, CapacityReservationFleet
<1>37. Agree(EgressOnlyInternetGateway, {Vpc})
  BY DEF Ec2, EgressOnlyInternetGateway, Vpc
<1>38. Agree(IamInstanceProfileAssociation, {Instance, InstanceProfile})
  BY SMTT(30) DEF Ec2, IamInstanceProfileAssociation, InstanceLinks, Instance, InstanceProfile
<1>39. Agree(Image, {})
  BY DEF Ec2, Image
<1>40. Agree(Instance, {CapacityReservation, Image, InstanceStatus, KeyPair, PlacementGroup,
                        SecurityGroup, Subnet, Volume, Vpc, InstanceProfile})
  BY SMTT(30) DEF Ec2, CapacityReservation, Image, InstanceLinks, Instance, InstanceStatus, KeyPair,
         PlacementGroup, LinkedSecurityGroups, SecurityGroup, Subnet, Volume, Vpc,
         InstanceProfile
<1>41. Agree(InstanceEventWindow, {Instance})
  BY DEF Ec2, InstanceLinks, Instance, InstanceEventWindow
<1>42. Agree(InstanceStatus, {Instance})
  BY DEF Ec2, InstanceLinks, Instance, InstanceStatus
<1>43. Agree(InternetGateway, {Vpc})
  BY DEF Ec2, InternetGateway, Vpc
<1>44. Agree(KeyPair, {})
  BY DEF KeyPair
<1>45. Agree(LaunchTemplate, {})
  BY DEF Ec2, LaunchTemplate
<1>46. Agree(LaunchTemplateVersion, {CapacityReservation, Image, KeyPair, NetworkInterface,
                                     PlacementGroup, SecurityGroup, Snapshot, Subnet})
  BY SMTT(30) DEF Ec2, CapacityReservation, Image, KeyPair, LaunchTemplateVersionLinks,
         LaunchTemplateVersion, NetworkInterface, PlacementGroup, LinkedSecurityGroups,
         SecurityGroup, Snapshot, Subnet
<1>47. Agree(NatGateway, {NetworkInterface, Subnet, Vpc})
  BY DEF Ec2, NatGateway, NetworkInterface, Subnet, Vpc
<1>48. Agree(NetworkAcl, {Subnet, Vpc})
  BY DEF Ec2, NetworkAcl, Subnet, Vpc
<1>49. Agree(NetworkInterface, {Instance, SecurityGroup, Subnet, Vpc})
  BY DEF Ec2, InstanceLinks, Instance, NetworkInterface, LinkedSecurityGroups,
         SecurityGroup, Subnet, Vpc
<1>50. Agree(NetworkInterfacePermission, {NetworkInterface})
  BY DEF Ec2, NetworkInterface, NetworkInterfacePermission
<1>51. Agree(PlacementGroup, {})
  BY DEF Ec2, PlacementGroup
<1>52. Agree(ReservedInstance, {})
  BY DEF Ec2, ReservedInstance
<1>53. Agree(RouteTable, {EgressOnlyInternetGateway, Instance, InternetGateway, NatGateway,
                          NetworkInterface, Subnet, Vpc, VpcPeeringConnection})
  BY DEF Ec2, EgressOnlyInternetGateway, InstanceLinks, Instance, InternetGateway,
         NatGateway, NetworkInterface, RouteTableLinks, RouteTable, Subnet, Vpc,
         VpcPeeringConnection
<1>54. Agree(SecurityGroup, {SecurityGroup, Vpc})
  BY DEF Ec2, LinkedSecurityGroups, SecurityGroup, Vpc
<1>55. Agree(Snapshot, {Volume})
  BY DEF Ec2, Snapshot, Volume
<1>56. Agree(Subnet, {Vpc})
  BY DEF Ec2, Subnet, Vpc
<1>57. Agree(Volume, {Instance})
  BY DEF Ec2, InstanceLinks, Instance, Volume
<1>58. Agree(VolumeStatus, {Instance, Volume})
  BY DEF Ec2, InstanceLinks, Instance, Volume, VolumeStatus
<1>59. Agree(Vpc, {})
  BY DEF Ec2, Vpc
<1>60. Agree(VpcPeeringConnection, {Vpc})
  BY DEF Ec2, Vpc, VpcPeeringConnection
<1>61. Agree(AutoScalingGroup, {Instance, LaunchTemplate, PlacementGroup, TargetGroup, Role})
  BY SMTT(30) DEF Ec2, InstanceLinks, Instance, LaunchTemplate, PlacementGroup,
         AutoScalingGroupLinks, AutoScalingGroup, TargetGroup, Role
<1>62. Agree(AccessPoint, {FileSystem})
  BY DEF AccessPoint, FileSystem
<1>63. Agree(BackupPolicy, {})
  BY DEF BackupPolicy
<1>64. Agree(FileSystem, {BackupPolicy, MountTarget})
  BY FileSystemAgrees
<1>65. Agree(MountTarget, {NetworkInterface, Subnet, Vpc, FileSystem})
  BY MountTargetAgrees
<1>66. Agree(ReplicationConfiguration, {FileSystem})
  BY DEF FileSystem, ReplicationConfiguration
<1> HIDE Parts, Made, Kept, MadeBucket
    DEF Agree, Mirror, Gets, GetsThere, GetsInAccount, ByArn, ByResourceID, Searches, Net,
        GetsGlobally, Link
<1> QED
  BY <1>1, <1>2, <1>3, <1>4, <1>5, <1>6, <1>7, <1>8, <1>9, <1>10, <1>11, <1>12, <1>13,
     <1>14, <1>15, <1>16, <1>17, <1>18, <1>19, <1>20, <1>21, <1>22, <1>23, <1>24, <1>25,
     <1>26, <1>27, <1>28, <1>29, <1>30, <1>31, <1>32, <1>33, <1>34, <1>35, <1>36, <1>37,
     <1>38, <1>39, <1>40, <1>41, <1>42, <1>43, <1>44, <1>45, <1>46, <1>47, <1>48, <1>49,
     <1>50, <1>51, <1>52, <1>53, <1>54, <1>55, <1>56, <1>57, <1>58, <1>59, <1>60, <1>61,
     <1>62, <1>63, <1>64, <1>65, <1>66, ComputeAre, ContainerAre, DeliveryAre, DataAre,
     NetworkAre DEF ComputeAdapters

\* The links of the same adapters: where each leads, that it is taken there or listed,
\* and that those which lead back say the same of a change.
LEMMA ContainerWired ==
  \A a \in ContainerAdapters : \E S \in SUBSET Adapters : Fits(a, S) /\ Agree(a, S)
<1> USE Parts DEF Gets, GetsThere, GetsInAccount, ByArn, ByResourceID, Searches, Net,
                  GetsGlobally, Link
<1> USE AfterIs
    DEF Fits, Matches, Own, There, InAccount, Takes, Dead, DeadGets, DeadSearches, Foreign,
        Adapter, Describe, GetList, AlwaysGet, Global, Searching, SearchingArns, KnownAs,
        Taking, Yielding, GlobalToo
<1>1. Fits(CapacityProvider, {AutoScalingGroup})
  BY DEF AutoScalingGroup, CapacityProvider
<1>2. Fits(EcsCluster, {CapacityProvider, ContainerInstance, EcsService, EcsTask, Bucket})
  BY DEF CapacityProvider, EcsClusterLinks, EcsCluster, ContainerInstance, EcsService,
         EcsTask, Bucket
<1>3. Fits(ContainerInstance, {Instance})
  BY DEF Ec2, Instance, ContainerInstance
<1>4. Fits(EcsService, {SecurityGroup, Subnet, CapacityProvider, EcsCluster, TaskDefinition,
                        TargetGroup})
  BY DEF Ec2, SecurityGroup, Subnet, CapacityProvider, EcsCluster, EcsServiceLinks,
         EcsService, TaskDefinition, TargetGroup
<1>5. Fits(EcsTask, {NetworkInterface, EcsCluster, ContainerInstance, TaskDefinition})
  BY DEF Ec2, NetworkInterface, EcsCluster, ContainerInstance, EcsTaskLinks, EcsTask,
         TaskDefinition
<1>6. Fits(TaskDefinition, {Role})
  BY DEF SecretLinkedItem, TaskDefinition, Role
<1>7. Fits(Addon, {})
  BY DEF Addon
<1>8. Fits(EksCluster, {SecurityGroup, Subnet, Vpc, Addon, FargateProfile, Nodegroup, Role})
  BY SMTT(30) DEF Ec2, SecurityGroup, Subnet, Vpc, Addon, EksClusterLinks, EksCluster,
         FargateProfile, Nodegroup, Role
<1>9. Fits(FargateProfile, {Subnet, Role})
  BY SMTT(30) DEF Ec2, Subnet, FargateProfile, Role
<1>10. Fits(Nodegroup, {KeyPair, LaunchTemplate, SecurityGroup, Subnet, AutoScalingGroup})
  BY SMTT(30) DEF Ec2, KeyPair, LaunchTemplate, SecurityGroup, Subnet, AutoScalingGroup,
                  NodegroupLinks, Nodegroup
<1>11. Fits(LambdaFunction, {SecurityGroup, Subnet, Vpc, AccessPoint, LambdaFunction,
                             LayerVersion, TargetGroup, Bucket, Topic, Queue, Role})
  BY DEF Ec2, SecurityGroup, Subnet, Vpc, AccessPoint, EventLinkedItem, LinksFromPolicy,
         FunctionLinks, LambdaFunction, LayerVersion, TargetGroup, Bucket, Topic, Queue,
         Role
<1>12. Fits(Layer, {LayerVersion})
  BY DEF Layer, LayerVersion
<1>13. Fits(LayerVersion, {})
  BY DEF LayerVersion
<1> HIDE AfterIs
    DEF Fits, Matches, Own, There, InAccount, Takes, Dead, DeadGets, DeadSearches, Foreign,
        Adapter, Describe, GetList, AlwaysGet, Global, Searching, SearchingArns, KnownAs,
        Taking, Yielding, GlobalToo
<1> USE Made, Kept, MadeBucket DEF Agree, Mirror
<1>14. Agree(CapacityProvider, {AutoScalingGroup})
  BY DEF AutoScalingGroupLinks, AutoScalingGroup, CapacityProvider
<1>15. Agree(EcsCluster, {CapacityProvider, ContainerInstance, EcsService, EcsTask, Bucket})
  BY SMTT(30) DEF CapacityProvider, EcsClusterLinks, EcsCluster, ContainerInstance,
                  EcsServiceLinks, EcsService, EcsTaskLinks, EcsTask, BucketLinks
<1>16. Agree(ContainerInstance, {Instance})
  BY SMTT(30) DEF Ec2, InstanceLinks, Instance, ContainerInstance
<1>17. Agree(EcsService, {SecurityGroup, Subnet, CapacityProvider, EcsCluster,
                          TaskDefinition, TargetGroup})
  BY SMTT(30) DEF Ec2, LinkedSecurityGroups, SecurityGroup, Subnet, CapacityProvider,
                  EcsClusterLinks, EcsCluster, EcsServiceLinks, EcsService,
                  SecretLinkedItem, TaskDefinition, TargetGroup
<1>18. Agree(EcsTask, {NetworkInterface, EcsCluster, ContainerInstance, TaskDefinition})
  BY SMTT(30) DEF Ec2, NetworkInterface, EcsClusterLinks, EcsCluster, ContainerInstance,
                  EcsTaskLinks, EcsTask, SecretLinkedItem, TaskDefinition
<1>19. Agree(TaskDefinition, {Role})
  BY DEF SecretLinkedItem, TaskDefinition, Role
<1>20. Agree(Addon, {})
  BY DEF Addon
<1>21. Agree(EksCluster, {SecurityGroup, Subnet, Vpc, Addon, FargateProfile, Nodegroup, Role})
  BY DEF Ec2, LinkedSecurityGroups, SecurityGroup, Subnet, Vpc, Addon, EksClusterLinks,
         EksCluster, FargateProfile, NodegroupLinks, Nodegroup, Role
<1>22. Agree(FargateProfile, {Subnet, Role})
  BY DEF Ec2, Subnet, FargateProfile, Role
<1>23. Agree(Nodegroup, {KeyPair, LaunchTemplate, SecurityGroup, Subnet, AutoScalingGroup})
  BY DEF Ec2, KeyPair, LaunchTemplate, LinkedSecurityGroups, SecurityGroup, Subnet,
         AutoScalingGroupLinks, AutoScalingGroup, NodegroupLinks, Nodegroup
<1>24. Agree(LambdaFunction, {SecurityGroup, Subnet, Vpc, AccessPoint, LambdaFunction,
                              LayerVersion, TargetGroup, Bucket, Topic, Queue, Role})
  BY LambdaFunctionAgrees
<1>25. Agree(Layer, {LayerVersion})
  BY DEF Layer, LayerVersion
<1>26. Agree(LayerVersion, {})
  BY DEF LayerVersion
<1> HIDE Parts, Made, Kept, MadeBucket
    DEF Agree, Mirror, Gets, GetsThere, GetsInAccount, ByArn, ByResourceID, Searches, Net,
        GetsGlobally, Link
<1> QED
  BY <1>1, <1>2, <1>3, <1>4, <1>5, <1>6, <1>7, <1>8, <1>9, <1>10, <1>11, <1>12, <1>13,
     <1>14, <1>15, <1>16, <1>17, <1>18, <1>19, <1>20, <1>21, <1>22, <1>23, <1>24, <1>25,
     <1>26, ComputeAre, ContainerAre, DeliveryAre, DataAre, NetworkAre DEF ContainerAdapters

\* The links of the same adapters: where each leads, that it is taken there or listed,
\* and that those which lead back say the same of a change.
LEMMA DeliveryWired ==
  \A a \in DeliveryAdapters : \E S \in SUBSET Adapters : Fits(a, S) /\ Agree(a, S)
<1> USE Parts DEF Gets, GetsThere, GetsInAccount, ByArn, ByResourceID, Searches, Net,
                  GetsGlobally, Link
<1> USE AfterIs
    DEF Fits, Matches, Own, There, InAccount, Takes, Dead, DeadGets, DeadSearches, Foreign,
        Adapter, Describe, GetList, AlwaysGet, Global, Searching, SearchingArns, KnownAs,
        Taking, Yielding, GlobalToo
<1>1. Fits(ElbLoadBalancer, {Instance, SecurityGroup, Subnet, Vpc, InstanceHealth,
                             HostedZone})
  BY DEF Ec2, Instance, SecurityGroup, Subnet, Vpc, ElbLoadBalancerLinks, ElbLoadBalancer,
         InstanceHealth, HostedZone
<1>2. Fits(InstanceHealth, {Instance})
  BY DEF Ec2, Instance, InstanceHealth
<1>3. Fits(LoadBalancer, {Address, SecurityGroup, Subnet, Vpc, Listener, TargetGroup,
                          HostedZone})
  BY DEF Ec2, Address, SecurityGroup, Subnet, Vpc, LoadBalancerLinks, LoadBalancer,
         Listener, TargetGroup, HostedZone
<1>4. Fits(Listener, {LoadBalancer, Rule, TargetGroup})
  BY DEF ActionToRequests, LoadBalancer, ListenerLinks, Listener, Rule, TargetGroup
<1>5. Fits(Rule, {TargetGroup})
  BY DEF ActionToRequests, Rule, TargetGroup
<1>6. Fits(TargetGroup, {Vpc, LoadBalancer, TargetHealth})
  BY DEF Ec2, Vpc, LoadBalancer, TargetGroup, TargetHealth
<1>7. Fits(TargetHealth, {Instance, LambdaFunction, LoadBalancer})
  BY DEF Ec2, Instance, LambdaFunction, LoadBalancer, TargetHealthLinks, TargetHealth
<1>8. Fits(HealthCheck, {Alarm})
  BY DEF HealthCheck, Alarm
<1>9. Fits(HostedZone, {ResourceRecordSet})
  BY DEF HostedZone, ResourceRecordSet
<1>10. Fits(ResourceRecordSet, {})
  BY DEF ResourceRecordSet
<1>11. Fits(CachePolicy, {})
  BY DEF CachePolicy
<1>12. Fits(ContinuousDeploymentPolicy, {})
  BY SMTT(30) DEF ContinuousDeploymentPolicy
<1>13. Fits(Distribution, {LambdaFunction, CachePolicy, ContinuousDeploymentPolicy,
                           CloudFrontFunction, KeyGroup, OriginAccessControl,
                           OriginRequestPolicy, ResponseHeadersPolicy, RealtimeLogConfigs,
                           Bucket})
  BY DEF LambdaFunction, CachePolicy, ContinuousDeploymentPolicy, CacheBehaviorLinks,
         DefaultCacheBehaviorLinks, OriginLinks, ViewerCertificateLinks, DistributionLinks,
         Distribution, CloudFrontFunction, KeyGroup, OriginAccessControl,
         OriginRequestPolicy, ResponseHeadersPolicy, RealtimeLogConfigs, Bucket
<1>14. Fits(CloudFrontFunction, {})
  BY DEF CloudFrontFunction
<1>15. Fits(KeyGroup, {})
  BY DEF KeyGroup
<1>16. Fits(OriginAccessControl, {})
  BY DEF OriginAccessControl
<1>17. Fits(OriginRequestPolicy, {})
  BY DEF OriginRequestPolicy
<1>18. Fits(ResponseHeadersPolicy, {})
  BY DEF ResponseHeadersPolicy
<1>19. Fits(RealtimeLogConfigs, {Role})
  BY DEF RealtimeLogConfigs, Role
<1>20. Fits(StreamingDistribution, {})
  BY DEF StreamingDistribution
<1>21. Fits(Bucket, {LambdaFunction, Bucket, Topic, Queue})
  BY DEF LambdaFunction, BucketLinks, Bucket, Topic, Queue
<1> HIDE AfterIs
    DEF Fits, Matches, Own, There, InAccount, Takes, Dead, DeadGets, DeadSearches, Foreign,
        Adapter, Describe, GetList, AlwaysGet, Global, Searching, SearchingArns, KnownAs,
        Taking, Yielding, GlobalToo
<1> USE Made, Kept, MadeBucket DEF Agree, Mirror
<1>22. Agree(ElbLoadBalancer, {Instance, SecurityGroup, Subnet, Vpc, InstanceHealth,
                               HostedZone})
  BY SMTT(30) DEF Ec2, InstanceLinks, Instance, LinkedSecurityGroups, SecurityGroup,
                  Subnet, Vpc, ElbLoadBalancerLinks, ElbLoadBalancer, InstanceHealth,
                  HostedZone
<1>23. Agree(InstanceHealth, {Instance})
  BY SMTT(30) DEF Ec2, InstanceLinks, Instance, InstanceHealth
<1>24. Agree(LoadBalancer, {Address, SecurityGroup, Subnet, Vpc, Listener, TargetGroup,
                            HostedZone})
  BY SMTT(30) DEF Ec2, Address, LinkedSecurityGroups, SecurityGroup, Subnet, Vpc,
                  ActionToRequests, LoadBalancerLinks, LoadBalancer, ListenerLinks,
                  Listener, TargetGroup, HostedZone
<1>25. Agree(Listener, {LoadBalancer, Rule, TargetGroup})
  BY DEF ActionToRequests, LoadBalancerLinks, LoadBalancer, ListenerLinks, Listener, Rule,
         TargetGroup
<1>26. Agree(Rule, {TargetGroup})
  BY DEF ActionToRequests, Rule, TargetGroup
<1>27. Agree(TargetGroup, {Vpc, LoadBalancer, TargetHealth})
  BY DEF Ec2, Vpc, LoadBalancerLinks, LoadBalancer, TargetGroup, TargetHealthLinks,
         TargetHealth
<1>28. Agree(TargetHealth, {Instance, LambdaFunction, LoadBalancer})
  BY SMTT(30) DEF Ec2, InstanceLinks, Instance, EventLinkedItem, LinksFromPolicy,
                  FunctionLinks, LambdaFunction, LoadBalancerLinks, LoadBalancer,
                  TargetHealthLinks, TargetHealth
<1>29. Agree(HealthCheck, {Alarm})
  BY HealthCheckAgrees
<1>30. Agree(HostedZone, {ResourceRecordSet})
  BY DEF HostedZone, ResourceRecordSet
<1>31. Agree(ResourceRecordSet, {})
  BY DEF ResourceRecordSet
<1>32. Agree(CachePolicy, {})
  BY DEF CachePolicy
<1>33. Agree(ContinuousDeploymentPolicy, {})
  BY DEF ContinuousDeploymentPolicy
<1>34. Agree(Distribution, {LambdaFunction, CachePolicy, ContinuousDeploymentPolicy,
                            CloudFrontFunction, KeyGroup, OriginAccessControl,
                            OriginRequestPolicy, ResponseHeadersPolicy, RealtimeLogConfigs,
                            Bucket})
  BY SMTT(30) DEF EventLinkedItem, LinksFromPolicy, FunctionLinks, LambdaFunction,
                  CachePolicy, ContinuousDeploymentPolicy, CacheBehaviorLinks,
                  DefaultCacheBehaviorLinks, OriginLinks, ViewerCertificateLinks,
                  DistributionLinks, Distribution, CloudFrontFunction, KeyGroup,
                  OriginAccessControl, OriginRequestPolicy, ResponseHeadersPolicy,
                  RealtimeLogConfigs, BucketLinks
<1>35. Agree(CloudFrontFunction, {})
  BY DEF CloudFrontFunction
<1>36. Agree(KeyGroup, {})
  BY DEF KeyGroup
<1>37. Agree(OriginAccessControl, {})
  BY DEF OriginAccessControl
<1>38. Agree(OriginRequestPolicy, {})
  BY DEF OriginRequestPolicy
<1>39. Agree(ResponseHeadersPolicy, {})
  BY DEF ResponseHeadersPolicy
<1>40. Agree(RealtimeLogConfigs, {Role})
  BY DEF RealtimeLogConfigs, Role
<1>41. Agree(StreamingDistribution, {})
  BY DEF StreamingDistribution
<1>42. Agree(Bucket, {LambdaFunction, Bucket, Topic, Queue})
  BY BucketAgrees
<1> HIDE Parts, Made, Kept, MadeBucket
    DEF Agree, Mirror, Gets, GetsThere, GetsInAccount, ByArn, ByResourceID, Searches, Net,
        GetsGlobally, Link
<1> QED
  BY <1>1, <1>2, <1>3, <1>4, <1>5, <1>6, <1>7, <1>8, <1>9, <1>10, <1>11, <1>12, <1>13,
     <1>14, <1>15, <1>16, <1>17, <1>18, <1>19, <1>20, <1>21, <1>22, <1>23, <1>24, <1>25,
     <1>26, <1>27, <1>28, <1>29, <1>30, <1>31, <1>32, <1>33, <1>34, <1>35, <1>36, <1>37,
     <1>38, <1>39, <1>40, <1>41, <1>42, ComputeAre, ContainerAre, DeliveryAre, DataAre,
     NetworkAre DEF DeliveryAdapters, GlobalAdapters

\* The links of the same adapters: where each leads, that it is taken there or listed,
\* and that those which lead back say the same of a change.
LEMMA DataWired ==
  \A a \in DataAdapters : \E S \in SUBSET Adapters : Fits(a, S) /\ Agree(a, S)
<1> USE Parts DEF Gets, GetsThere, GetsInAccount, ByArn, ByResourceID, Searches, Net,
                  GetsGlobally, Link
<1> USE AfterIs
    DEF Fits, Matches, Own, There, InAccount, Takes, Dead, DeadGets, DeadSearches, Foreign,
        Adapter, Describe, GetList, AlwaysGet, Global, Searching, SearchingArns, KnownAs,
        Taking, Yielding, GlobalToo
<1>1. Fits(DBCluster, {SecurityGroup, HostedZone, DBCluster, DBInstance, DBSubnetGroup,
                       OptionGroup, Role})
  BY SMTT(30) DEF Ec2, SecurityGroup, HostedZone, DBClusterLinks, DBCluster, DBInstance,
                  DBSubnetGroup, OptionGroup, Role
<1>2. Fits(DBClusterParameterGroup, {})
  BY SMTT(30) DEF DBClusterParameterGroup
<1>3. Fits(DBInstance, {SecurityGroup, HostedZone, DBCluster, DBParameterGroup,
                        DBSubnetGroup, InstanceProfile, Role})
  BY DEF Ec2, SecurityGroup, HostedZone, DBCluster, DBInstanceLinks, DBInstanceServiceLinks,
         DBInstance, DBParameterGroup, DBSubnetGroup, InstanceProfile, Role
<1>4. Fits(DBParameterGroup, {})
  BY DEF DBParameterGroup
<1>5. Fits(DBSubnetGroup, {Subnet, Vpc})
  BY DEF Ec2, Subnet, Vpc, DBSubnetGroup
<1>6. Fits(OptionGroup, {})
  BY DEF OptionGroup
<1>7. Fits(Backup, {Table})
  BY DEF Backup, Table
<1>8. Fits(Table, {Table})
  BY DEF Table
<1>9. Fits(DataProtectionPolicy, {Topic})
  BY DEF DataProtectionPolicy, Topic
<1>10. Fits(Endpoint, {})
  BY DEF Endpoint
<1>11. Fits(PlatformApplication, {Endpoint})
  BY DEF Endpoint, PlatformApplication
<1>12. Fits(Subscription, {Topic, Role})
  BY DEF Subscription, Topic, Role
<1>13. Fits(Topic, {})
  BY SMTT(30) DEF Topic
<1>14. Fits(Queue, {})
  BY SMTT(30) DEF Queue
<1>15. Fits(Alarm, {Image, Instance, NatGateway, Volume, AutoScalingGroup, FileSystem,
                    EcsCluster, EcsService, LambdaFunction, ElbLoadBalancer, LoadBalancer,
                    TargetGroup, HealthCheck, HostedZone, Bucket, DBCluster, DBInstance,
                    Table, Topic, Alarm})
  BY SMTT(30) DEF Ec2, Image, Instance, NatGateway, Volume, AutoScalingGroup, FileSystem,
                  EcsCluster, EcsService, LambdaFunction, ElbLoadBalancer, LoadBalancer,
                  TargetGroup, HealthCheck, HostedZone, Bucket, DBCluster, DBInstance,
                  Table, Topic, SuggestedQuery, actionToLink, Alarm
<1> HIDE AfterIs
    DEF Fits, Matches, Own, There, InAccount, Takes, Dead, DeadGets, DeadSearches, Foreign,
        Adapter, Describe, GetList, AlwaysGet, Global, Searching, SearchingArns, KnownAs,
        Taking, Yielding, GlobalToo
<1> USE Made, Kept, MadeBucket DEF Agree, Mirror
<1>16. Agree(DBCluster, {SecurityGroup, HostedZone, DBCluster, DBInstance, DBSubnetGroup,
                         OptionGroup, Role})
  BY SMTT(30) DEF Ec2, LinkedSecurityGroups, SecurityGroup, HostedZone, DBClusterLinks,
                  DBCluster, DBInstanceLinks, DBInstanceServiceLinks, DBInstance,
                  DBSubnetGroup, OptionGroup, Role
<1>17. Agree(DBClusterParameterGroup, {})
  BY DEF DBClusterParameterGroup
<1>18. Agree(DBInstance, {SecurityGroup, HostedZone, DBCluster, DBParameterGroup,
                          DBSubnetGroup, InstanceProfile, Role})
  BY DEF Ec2, LinkedSecurityGroups, SecurityGroup, HostedZone, DBClusterLinks, DBCluster,
         DBInstanceLinks, DBInstanceServiceLinks, DBInstance, DBParameterGroup,
         DBSubnetGroup, InstanceProfile, Role
<1>19. Agree(DBParameterGroup, {})
  BY DEF DBParameterGroup
<1>20. Agree(DBSubnetGroup, {Subnet, Vpc})
  BY DEF Ec2, Subnet, Vpc, DBSubnetGroup
<1>21. Agree(OptionGroup, {})
  BY DEF OptionGroup
<1>22. Agree(Backup, {Table})
  BY DEF Backup, Table
<1>23. Agree(Table, {Table})
  BY TableAgrees
<1>24. Agree(DataProtectionPolicy, {Topic})
  BY DEF DataProtectionPolicy, Topic
<1>25. Agree(Endpoint, {})
  BY DEF Endpoint
<1>26. Agree(PlatformApplication, {Endpoint})
  BY DEF Endpoint, PlatformApplication
<1>27. Agree(Subscription, {Topic, Role})
  BY DEF Subscription, Topic, Role
<1>28. Agree(Topic, {})
  BY DEF Topic
<1>29. Agree(Queue, {})
  BY DEF Queue
<1>30. Agree(Alarm, {Image, Instance, NatGateway, Volume, AutoScalingGroup, FileSystem,
                     EcsCluster, EcsService, LambdaFunction, ElbLoadBalancer, LoadBalancer,
                     TargetGroup, HealthCheck, HostedZone, Bucket, DBCluster, DBInstance,
                     Table, Topic, Alarm})
  BY AlarmAgrees
<1> HIDE Parts, Made, Kept, MadeBucket
    DEF Agree, Mirror, Gets, GetsThere, GetsInAccount, ByArn, ByResourceID, Searches, Net,
        GetsGlobally, Link
<1> QED
  BY <1>1, <1>2, <1>3, <1>4, <1>5, <1>6, <1>7, <1>8, <1>9, <1>10, <1>11, <1>12, <1>13,
     <1>14, <1>15, <1>16, <1>17, <1>18, <1>19, <1>20, <1>21, <1>22, <1>23, <1>24, <1>25,
     <1>26, <1>27, <1>28, <1>29, <1>30, ComputeAre, ContainerAre, DeliveryAre, DataAre,
     NetworkAre DEF DataAdapters

\* The links of the same adapters: where each leads, that it is taken there or listed,
\* and that those which lead back say the same of a change.
LEMMA NetworkWired ==
  \A a \in NetworkAdapters : \E S \in SUBSET Adapters : Fits(a, S) /\ Agree(a, S)
<1> USE Parts DEF Gets, GetsThere, GetsInAccount, ByArn, ByResourceID, Searches, Net,
                  GetsGlobally, Link
<1> USE AfterIs
    DEF Fits, Matches, Own, There, InAccount, Takes, Dead, DeadGets, DeadSearches, Foreign,
        Adapter, Describe, GetList, AlwaysGet, Global, Searching, SearchingArns, KnownAs,
        Taking, Yielding, GlobalToo
<1>1. Fits(Connection, {Lag, Location, VirtualInterface})
  BY DEF ConnectionLinks, Connection, AnyName, Lag, Location, VirtualInterface
<1>2. Fits(CustomerMetadata, {})
  BY DEF AnyName, CustomerMetadata
<1>3. Fits(GatewayAssociationProposal, {GatewayAssociation})
  BY DEF GatewayAssociationProposal, GatewayAssociation
<1>4. Fits(GatewayAssociation, {Gateway, VirtualGateway})
  BY DEF AnyName, GatewayAssociation, Gateway, VirtualGateway
<1>5. Fits(GatewayAttachment, {Gateway, VirtualInterface})
  BY DEF GatewayAttachment, Gateway, VirtualInterface
<1>6. Fits(Gateway, {})
  BY DEF Gateway
<1>7. Fits(HostedConnection, {Lag, Location, VirtualInterface})
  BY DEF ConnectionLinks, AnyName, HostedConnection, Lag, Location, VirtualInterface
<1>8. Fits(Interconnect, {HostedConnection, Lag, Location})
  BY DEF AnyName, HostedConnection, Interconnect, Lag, Location
<1>9. Fits(Lag, {Connection, HostedConnection, Location})
  BY DEF Connection, AnyName, HostedConnection, Lag, Location
<1>10. Fits(Location, {})
  BY DEF AnyName, Location
<1>11. Fits(RouterConfiguration, {VirtualInterface})
  BY DEF RouterConfiguration, VirtualInterface
<1>12. Fits(VirtualGateway, {})
  BY DEF AnyName, VirtualGateway
<1>13. Fits(VirtualInterface, {Connection, GatewayAttachment, Gateway})
  BY DEF Connection, GatewayAttachment, Gateway, VirtualInterfaceLinks, VirtualInterface
<1>14. Fits(Firewall, {Subnet, Vpc, Bucket, FirewallPolicy, Policy})
  BY DEF Ec2, Subnet, Vpc, Bucket, encryptionConfigurationLink, NetworkFirewall,
         FirewallLinks, Firewall, FirewallPolicy, Policy
<1>15. Fits(FirewallPolicy, {RuleGroup, TLSInspectionConfiguration})
  BY DEF encryptionConfigurationLink, NetworkFirewall, FirewallPolicy, RuleGroup,
         TLSInspectionConfiguration
<1>16. Fits(RuleGroup, {Topic, RuleGroup})
  BY DEF Topic, encryptionConfigurationLink, NetworkFirewall, RuleGroup
<1>17. Fits(TLSInspectionConfiguration, {})
  BY DEF encryptionConfigurationLink, NetworkFirewall, TLSInspectionConfiguration
<1>18. Fits(GlobalNetwork, {})
  BY DEF GlobalNetwork
<1>19. Fits(Site, {GlobalNetwork})
  BY DEF GlobalNetwork, Site
<1>20. Fits(VPCAttachment, {})
  BY DEF VPCAttachment
<1>21. Fits(Group, {})
  BY SMTT(30) DEF Group
<1>22. Fits(InstanceProfile, {Policy, Role})
  BY SMTT(30) DEF InstanceProfile, Policy, Role
<1>23. Fits(Policy, {Group, Role, User})
  BY DEF Group, Policy, Role, User, WithoutRegion
<1>24. Fits(Role, {Policy})
  BY DEF Policy, Role
<1>25. Fits(User, {Group})
  BY DEF Group, User, WithoutRegion
<1> HIDE AfterIs
    DEF Fits, Matches, Own, There, InAccount, Takes, Dead, DeadGets, DeadSearches, Foreign,
        Adapter, Describe, GetList, AlwaysGet, Global, Searching, SearchingArns, KnownAs,
        Taking, Yielding, GlobalToo
<1> USE Made, Kept, MadeBucket DEF Agree, Mirror
<1>26. Agree(Connection, {Lag, Location, VirtualInterface})
  BY DEF ConnectionLinks, Connection, AnyName, Lag, Location, VirtualInterfaceLinks,
         VirtualInterface
<1>27. Agree(CustomerMetadata, {})
  BY DEF AnyName, CustomerMetadata
<1>28. Agree(GatewayAssociationProposal, {GatewayAssociation})
  BY DEF GatewayAssociationProposal, GatewayAssociation
<1>29. Agree(GatewayAssociation, {Gateway, VirtualGateway})
  BY DEF AnyName, GatewayAssociation, Gateway, VirtualGateway
<1>30. Agree(GatewayAttachment, {Gateway, VirtualInterface})
  BY DEF GatewayAttachment, Gateway, VirtualInterfaceLinks, VirtualInterface
<1>31. Agree(Gateway, {})
  BY DEF Gateway
<1>32. Agree(HostedConnection, {Lag, Location, VirtualInterface})
  BY DEF ConnectionLinks, AnyName, HostedConnection, Lag, Location, VirtualInterfaceLinks,
         VirtualInterface
<1>33. Agree(Interconnect, {HostedConnection, Lag, Location})
  BY DEF ConnectionLinks, AnyName, HostedConnection, Interconnect, Lag, Location
<1>34. Agree(Lag, {Connection, HostedConnection, Location})
  BY DEF ConnectionLinks, Connection, AnyName, HostedConnection, Lag, Location
<1>35. Agree(Location, {})
  BY DEF AnyName, Location
<1>36. Agree(RouterConfiguration, {VirtualInterface})
  BY DEF RouterConfiguration, VirtualInterfaceLinks, VirtualInterface
<1>37. Agree(VirtualGateway, {})
  BY DEF AnyName, VirtualGateway
<1>38. Agree(VirtualInterface, {Connection, GatewayAttachment, Gateway})
  BY DEF ConnectionLinks, Connection, GatewayAttachment, Gateway, VirtualInterfaceLinks,
         VirtualInterface
<1>39. Agree(Firewall, {Subnet, Vpc, Bucket, FirewallPolicy, Policy})
  BY DEF Ec2, Subnet, Vpc, BucketLinks, encryptionConfigurationLink, NetworkFirewall,
         FirewallLinks, Firewall, FirewallPolicy, Policy
<1>40. Agree(FirewallPolicy, {RuleGroup, TLSInspectionConfiguration})
  BY DEF encryptionConfigurationLink, NetworkFirewall, FirewallPolicy, RuleGroup,
         TLSInspectionConfiguration
<1>41. Agree(RuleGroup, {Topic, RuleGroup})
  BY DEF Topic, encryptionConfigurationLink, NetworkFirewall, RuleGroup
<1>42. Agree(TLSInspectionConfiguration, {})
  BY DEF encryptionConfigurationLink, NetworkFirewall, TLSInspectionConfiguration
<1>43. Agree(GlobalNetwork, {})
  BY DEF GlobalNetwork
<1>44. Agree(Site, {GlobalNetwork})
  BY DEF GlobalNetwork, Site
<1>45. Agree(VPCAttachment, {})
  BY DEF VPCAttachment
<1>46. Agree(Group, {})
  BY DEF Group
<1>47. Agree(InstanceProfile, {Policy, Role})
  BY DEF InstanceProfile, Policy, Role
<1>48. Agree(Policy, {Group, Role, User})
  BY DEF Group, Policy, Role, User
<1>49. Agree(Role, {Policy})
  BY DEF Policy, Role
<1>50. Agree(User, {Group})
  BY DEF Group, User
<1> HIDE Parts, Made, Kept, MadeBucket
    DEF Agree, Mirror, Gets, GetsThere, GetsInAccount, ByArn, ByResourceID, Searches, Net,
        GetsGlobally, Link
<1> QED
  BY <1>1, <1>2, <1>3, <1>4, <1>5, <1>6, <1>7, <1>8, <1>9, <1>10, <1>11, <1>12, <1>13,
     <1>14, <1>15, <1>16, <1>17, <1>18, <1>19, <1>20, <1>21, <1>22, <1>23, <1>24, <1>25,
     <1>26, <1>27, <1>28, <1>29, <1>30, <1>31, <1>32, <1>33, <1>34, <1>35, <1>36, <1>37,
     <1>38, <1>39, <1>40, <1>41, <1>42, <1>43, <1>44, <1>45, <1>46, <1>47, <1>48, <1>49,
     <1>50, ComputeAre, ContainerAre, DeliveryAre, DataAre, NetworkAre DEF NetworkAdapters
-----------------------------------------------------------------------------
\* No two families share a type, and none has one of the types no source has.
LEMMA FamiliesApart ==
  /\ ComputeNames \cap ContainerNames = {}
  /\ ComputeNames \cap DeliveryNames = {}
  /\ ComputeNames \cap DataNames = {}
  /\ ComputeNames \cap NetworkNames = {}
  /\ ContainerNames \cap DeliveryNames = {}
  /\ ContainerNames \cap DataNames = {}
  /\ ContainerNames \cap NetworkNames = {}
  /\ DeliveryNames \cap DataNames = {}
  /\ DeliveryNames \cap NetworkNames = {}
  /\ DataNames \cap NetworkNames = {}
  /\ ComputeNames \cap (Foreign \cup NotTypes) = {}
  /\ ContainerNames \cap (Foreign \cup NotTypes) = {}
  /\ DeliveryNames \cap (Foreign \cup NotTypes) = {}
  /\ DataNames \cap (Foreign \cup NotTypes) = {}
  /\ NetworkNames \cap (Foreign \cup NotTypes) = {}
<1>1. ComputeNames \cap ContainerNames = {} BY DEF ComputeNames, ContainerNames
<1>2. ComputeNames \cap DeliveryNames = {} BY DEF ComputeNames, DeliveryNames
<1>3. ComputeNames \cap DataNames = {} BY DEF ComputeNames, DataNames
<1>4. ComputeNames \cap NetworkNames = {} BY DEF ComputeNames, NetworkNames
<1>5. ContainerNames \cap DeliveryNames = {} BY DEF ContainerNames, DeliveryNames
<1>6. ContainerNames \cap DataNames = {} BY DEF ContainerNames, DataNames
<1>7. ContainerNames \cap NetworkNames = {} BY DEF ContainerNames, NetworkNames
<1>8. DeliveryNames \cap DataNames = {} BY DEF DeliveryNames, DataNames
<1>9. DeliveryNames \cap NetworkNames = {} BY DEF DeliveryNames, NetworkNames
<1>10. DataNames \cap NetworkNames = {} BY DEF DataNames, NetworkNames
<1>11. ComputeNames \cap (Foreign \cup NotTypes) = {}
  BY DEF ComputeNames, Foreign, NotTypes
<1>12. ContainerNames \cap (Foreign \cup NotTypes) = {}
  BY DEF ContainerNames, Foreign, NotTypes
<1>13. DeliveryNames \cap (Foreign \cup NotTypes) = {}
  BY DEF DeliveryNames, Foreign, NotTypes
<1>14. DataNames \cap (Foreign \cup NotTypes) = {}
  BY DEF DataNames, Foreign, NotTypes
<1>15. NetworkNames \cap (Foreign \cup NotTypes) = {}
  BY DEF NetworkNames, Foreign, NotTypes
<1> QED
  BY <1>1, <1>2, <1>3, <1>4, <1>5, <1>6, <1>7, <1>8, <1>9, <1>10, <1>11, <1>12, <1>13,
     <1>14, <1>15

\* An adapter is known by its type, is what the walk needs of it, and what its
\* links say is what the adapters they lead to take.
LEMMA Catalogue ==
  /\ \A a \in Adapters : Sound(a, a.type) /\ a.type \notin Foreign \cup NotTypes
  /\ \A a, b \in Adapters : a.type = b.type => a = b
  /\ \A a \in Adapters : Fits(a, Adapters)
  /\ \A a, b \in Adapters : Agree(a, {b})
<1>1. \A a \in Adapters : Sound(a, a.type) /\ a.type \notin Foreign \cup NotTypes
  BY FamiliesApart, ComputeSound, ContainerSound, DeliverySound, DataSound, NetworkSound
  DEF Adapters
<1>2. \A a, b \in Adapters : a.type = b.type => a = b
  BY FamiliesApart, ComputeSound, ContainerSound, DeliverySound, DataSound, NetworkSound
  DEF Adapters
<1>3. \A a \in Adapters : \E S \in SUBSET Adapters : Fits(a, S) /\ Agree(a, S)
  BY ComputeWired, ContainerWired, DeliveryWired, DataWired, NetworkWired DEF Adapters
<1>4. ASSUME NEW a \in Adapters, NEW b \in Adapters PROVE Fits(a, Adapters) /\ Agree(a, {b})
  <2>1. PICK S \in SUBSET Adapters : Fits(a, S) /\ Agree(a, S) BY <1>3
  <2>2. Fits(a, Adapters) BY <2>1 DEF Fits
  <2>3. CASE b \in S BY <2>1, <2>2, <2>3, Each
  <2>4. CASE b \notin S
    <3>1. ASSUME NEW l \in a.links PROVE l.to # b.type
      <4>1. \/ l.to \in Foreign \cup NotTypes
            \/ \E c \in S : l.to = c.type
        BY <2>1 DEF Fits, Matches, NotTypes
      <4> QED BY <1>1, <1>2, <2>4, <4>1
    <3> QED BY <2>2, <3>1 DEF Agree
  <2> QED BY <2>2, <2>3, <2>4
<1> QED BY <1>1, <1>2, <1>4

\* The types of items are as different as those of sources, and "again" and "arn"
\* are none of them.
LEMMA ItemsApart ==
  /\ \A a, b \in Adapters : a.items = b.items => a = b
  /\ \A a \in Adapters : /\ a.items \notin Foreign \cup {"", "again", "arn"}
                         /\ a.items = a.type \/ a.items = "networkmanager-site"
  /\ \A a, b \in Adapters : a.items = b.type => a = b
<1>1. \A a \in Adapters : /\ a.type \notin Foreign \cup NotTypes
                         /\ \/ a.items = a.type /\ a.type # "networkmanager-sites"
                            \/ /\ a.items = "networkmanager-site"
                               /\ a.type = "networkmanager-sites"
  BY Catalogue DEF Sound
<1>2. "networkmanager-site" \notin Foreign \cup {"", "again", "arn"} BY DEF Foreign
<1> QED BY <1>1, <1>2, Catalogue DEF NotTypes

\* The sources that are added once are of types the regions do not each add.
LEMMA GlobalNamed ==
  \A a \in GlobalAdapters : a \in Adapters /\ a.type \in GlobalNames
BY DeliverySound DEF Adapters, DeliveryAdapters

\* And those types are of no other adapter.
LEMMA GlobalAlone == \A a \in Adapters : a.type \in GlobalNames => a \in GlobalAdapters
<1>1. \A a \in Adapters : a.type \in GlobalNames => \E b \in GlobalAdapters : b.type = a.type
  BY DeliverySound
<1> QED BY <1>1, GlobalNamed, Catalogue
-----------------------------------------------------------------------------
\* Where a resource of a kind is, for the sources of a region.
ScopeOf(kind, region) ==
  CASE kind = "region" -> <<Account, region>>
    [] kind = "account" -> <<Account>>
    [] kind = "aws" -> <<"aws">>

Kinds == {"region", "account", "aws"}

\* The three kinds of scope are never mistaken for each other ...
LEMMA OneScope ==
  \A k, j \in Kinds : \A r, p \in Regions :
    ScopeOf(k, r) = ScopeOf(j, p) => k = j /\ (k = "region" => r = p)
BY ZenonT(60), ScopesAssumption DEF ScopeOf, Kinds

\* ... and none of them is that of the network or of an ARN without one.
LEMMA KindsApart ==
  \A k \in Kinds : \A r \in Regions :
    /\ ScopeOf(k, r) \notin {<<"global">>, <<"">>}
    /\ ScopeOf(k, r) = <<"aws">> <=> k = "aws"
    /\ ScopeOf(k, r) = <<Account>> <=> k = "account"
BY ScopesAssumption DEF ScopeOf, Kinds

\* The scopes of a source are those of the kinds that its adapter has.
LEMMA ScopesAre ==
  ASSUME NEW a \in Adapters, NEW r \in Regions
  PROVE  /\ a.scopes \subseteq Kinds /\ a.scopes # {}
         /\ ScopesIn(a, r) = {ScopeOf(k, r) : k \in a.scopes}
<1>1. a.scopes \in {{"region"}, {"account"}, {"account", "aws"}}
  BY Catalogue DEF Sound
<1>2. CASE a.scopes = {"region"}
  BY <1>2, ScopesAssumption DEF ScopesIn, ScopeOf, FormatScope, Kinds
<1>3. CASE a.scopes = {"account"}
  BY <1>3, ScopesAssumption DEF ScopesIn, ScopeOf, FormatScope, Kinds
<1>4. CASE a.scopes = {"account", "aws"}
  BY <1>4, ScopesAssumption DEF ScopesIn, ScopeOf, FormatScope, Kinds
<1> QED BY <1>1, <1>2, <1>3, <1>4

\* The parts of a source.
LEMMA SourceFields ==
  \A a, r : /\ Source(a, r).adapter = a /\ Source(a, r).region = r
           /\ Source(a, r).scopes = ScopesIn(a, r)
BY DEF Source

\* Every source is the source of an adapter in a region.
LEMMA SourceIs ==
  ASSUME NEW s \in Sources
  PROVE  /\ s.adapter \in Adapters /\ s.region \in Regions
         /\ s = Source(s.adapter, s.region)
         /\ s.scopes = {ScopeOf(k, s.region) : k \in s.adapter.scopes}
<1>1. (CHOOSE r \in Regions : TRUE) \in Regions BY ScopesAssumption
<1>2. \E a \in Adapters, r \in Regions : s = Source(a, r)
  BY <1>1, GlobalNamed DEF Sources
<1>3. PICK a \in Adapters, r \in Regions : s = Source(a, r) BY <1>2
<1>4. s.adapter = a /\ s.region = r /\ s.scopes = ScopesIn(a, r) BY <1>3, SourceFields
<1> QED BY <1>3, <1>4, ScopesAre

\* Wherever an adapter has resources, a source of it is asked for them.
LEMMA Reached ==
  ASSUME NEW b \in Adapters, NEW r \in Regions, NEW k \in b.scopes
  PROVE  \E t \in Sources : t.adapter = b /\ ScopeOf(k, r) \in t.scopes
<1> DEFINE first == CHOOSE p \in Regions : TRUE
<1>1. first \in Regions BY ScopesAssumption
<1>2. k \in Kinds BY ScopesAre
<1>3. CASE b \notin GlobalAdapters
  <2>1. Source(b, r) \in Sources BY <1>3 DEF Sources
  <2>2. Source(b, r).adapter = b /\ ScopeOf(k, r) \in Source(b, r).scopes
    BY ScopesAre, SourceFields
  <2> QED BY <2>1, <2>2
<1>4. CASE b \in GlobalAdapters
  <2>1. Source(b, first) \in Sources BY <1>4 DEF Sources
  <2>2. k # "region" BY <1>4, GlobalNamed, Catalogue DEF Sound, OfAccount, OfAws, GlobalNames
  <2>3. ScopeOf(k, r) = ScopeOf(k, first) BY <1>2, <2>2 DEF ScopeOf, Kinds
  <2>4. Source(b, first).adapter = b /\ ScopeOf(k, first) \in Source(b, first).scopes
    BY <1>1, ScopesAre, SourceFields
  <2> QED BY <2>1, <2>3, <2>4
<1> QED BY <1>3, <1>4

\* A query of a type goes to sources of the one adapter of that type.
LEMMA AskedAre ==
  ASSUME NEW b \in Adapters, NEW scope, NEW t \in SourcesFor(b.type, scope)
  PROVE  t \in Sources /\ t.adapter = b /\ scope \in t.scopes
BY SourceIs, Catalogue DEF SourcesFor

\* A query goes to one source, or to one of every region for the types that every
\* region adds: the count that AskedOnce states, of every type and scope.
LEMMA Counted ==
  ASSUME NEW type, NEW scope, SourcesFor(type, scope) # {}
  PROVE  Cardinality(SourcesFor(type, scope)) =
           IF type \in AskedInEveryRegion THEN Cardinality(Regions) ELSE 1
<1> DEFINE asked == SourcesFor(type, scope)
<1>1. PICK s \in asked : TRUE OBVIOUS
<1> DEFINE b == s.adapter
<1>2. s \in Sources /\ b.type = type /\ scope \in s.scopes BY <1>1 DEF SourcesFor
<1>3. b \in Adapters /\ s.region \in Regions /\ s = Source(b, s.region)
  BY <1>2, SourceIs
<1>4. \A t \in asked : t \in Sources /\ t.adapter = b /\ scope \in t.scopes
  BY <1>2, <1>3, AskedAre
<1>5. PICK k \in b.scopes : scope = ScopeOf(k, s.region) BY <1>2, SourceIs
<1>6. k \in Kinds BY <1>3, <1>5, ScopesAre
<1>7. CASE type \notin AskedInEveryRegion
  <2>1. ASSUME NEW t \in asked PROVE t = s
    <3>1. t \in Sources /\ t.adapter = b /\ scope \in t.scopes BY <1>4
    <3>2. t = Source(b, t.region) /\ t.region \in Regions BY <3>1, SourceIs
    <3>3. CASE b \in GlobalAdapters
      <4>1. \A u \in Sources : u.adapter = b => u = Source(b, CHOOSE p \in Regions : TRUE)
        BY <3>3, SourceFields DEF Sources
      <4> QED BY <1>2, <3>1, <4>1
    <3>4. CASE b \notin GlobalAdapters
      <4>1. b.type \notin GlobalNames BY <1>3, <3>4, GlobalAlone
      <4>2. k = "region"
        BY <1>2, <1>3, <1>7, <4>1, Catalogue
        DEF Sound, OfAccount, OfAws, GlobalNames, AskedInEveryRegion
      <4>3. PICK j \in b.scopes : scope = ScopeOf(j, t.region) BY <3>1, SourceIs
      <4>4. j \in Kinds BY <1>3, <4>3, ScopesAre
      <4>5. ScopeOf(k, s.region) = ScopeOf(j, t.region) BY <1>5, <4>3
      <4>6. \A r, p \in Regions : ScopeOf(k, r) = ScopeOf(j, p) => r = p
        BY <1>6, <4>2, <4>4, OneScope
      <4>7. t.region = s.region BY <1>3, <3>2, <4>5, <4>6
      <4> QED BY <1>3, <3>2, <4>7
    <3> QED BY <3>3, <3>4
  <2>2. asked = {s} BY <1>1, <2>1
  <2> QED BY <1>7, <2>2, FS_Singleton
<1>8. CASE type \in AskedInEveryRegion
  <2> DEFINE f == [r \in Regions |-> Source(b, r)]
  <2>1. b \notin GlobalAdapters
    BY <1>2, <1>8, GlobalNamed DEF GlobalNames, AskedInEveryRegion
  <2>2. k # "region"
    BY <1>2, <1>3, <1>8, Catalogue DEF Sound, OfAccount, AskedInEveryRegion
  <2>3. ASSUME NEW r \in Regions PROVE f[r] \in asked
    <3>1. f[r] = Source(b, r) /\ Source(b, r) \in Sources BY <1>3, <2>1 DEF Sources
    <3>2. ScopeOf(k, r) = scope BY <1>5, <1>6, <2>2 DEF ScopeOf, Kinds
    <3>3. Source(b, r).adapter = b /\ ScopeOf(k, r) \in Source(b, r).scopes
      BY <1>3, <1>5, ScopesAre, SourceFields
    <3> QED BY <1>2, <3>1, <3>2, <3>3 DEF SourcesFor
  <2>4. ASSUME NEW r \in Regions, NEW p \in Regions, f[r] = f[p] PROVE r = p
    BY <2>4, SourceFields
  <2>5. ASSUME NEW t \in asked PROVE \E r \in Regions : f[r] = t
    BY <1>4, SourceIs
  <2>6. f \in Bijection(Regions, asked)
    <3>1. f \in [Regions -> asked] BY <2>3
    <3> HIDE DEF f, asked
    <3>2. f \in Injection(Regions, asked) BY <2>4, <3>1 DEF Injection, IsInjective
    <3>3. f \in Surjection(Regions, asked) BY <2>5, <3>1 DEF Surjection
    <3> QED BY <3>2, <3>3 DEF Bijection
  <2>7. Cardinality(Regions) = Cardinality(asked)
    BY <2>6, ScopesAssumption, FS_Bijection DEF ExistsBijection
  <2> QED BY <1>8, <2>7
<1> QED BY <1>7, <1>8
-----------------------------------------------------------------------------
Answered(q) == \E t \in SourcesFor(q.type, q.scope) : Answers(t, q)

\* What a source makes of a query that is not a search for an ARN, wherever it is.
LEMMA PlainAnswers ==
  ASSUME NEW b \in Adapters, NEW t \in Sources, t.adapter = b, NEW q,
         q.method = "SEARCH" => q.name # <<"arn">>
  PROVE  Answers(t, q) <=> \/ q.method = "GET" /\ q.name \in b.get
                           \/ q.method = "SEARCH" /\ b.custom /\ q.name \in b.search
BY DEF Answers, Search, SearchARN, Get

\* And what it makes of a search for an ARN: it has to be in the scope that is asked
\* for, but for a GetListSource in one of its scopes.
LEMMA ArnAnswers ==
  ASSUME NEW b \in Adapters, NEW t \in Sources, t.adapter = b, NEW q,
         q.method = "SEARCH", q.name = <<"arn">>
  PROVE  /\ q.arn.scope = q.scope /\ q.scope \in t.scopes =>
              (Answers(t, q) <=> ArnFound(b, q.arn.resource))
         /\ q.arn.scope # q.scope /\ (b.kind # "getlist" \/ q.arn.scope \notin t.scopes) =>
              ~Answers(t, q)
<1>1. ResourceID(q.arn) = After(q.arn.resource) BY DEF ResourceID, After
<1>2. Answers(t, q) <=> Search(t, q) BY DEF Answers
<1>3. ArnInScope(t, q) <=> IF b.kind = "getlist" THEN q.arn.scope \in t.scopes
                                                ELSE q.arn.scope = q.scope
  BY DEF ArnInScope
<1>4. SearchARN(t, q) <=> ArnInScope(t, q) /\ After(q.arn.resource) \in b.get
  BY <1>1 DEF SearchARN, Get
<1>5. CASE b.custom /\ ~b.arnFirst
  <2>1. Search(t, q) <=> q.name \in b.search /\ q.arn.scope = q.scope BY <1>5 DEF Search
  <2>2. ArnFound(b, q.arn.resource) <=> <<"arn">> \in b.search BY <1>5 DEF ArnFound
  <2> QED BY <1>2, <2>1, <2>2
<1>6. CASE ~(b.custom /\ ~b.arnFirst)
  <2>1. Search(t, q) <=> SearchARN(t, q) BY <1>6 DEF Search
  <2>2. ArnFound(b, q.arn.resource) <=> After(q.arn.resource) \in b.get
    BY <1>6 DEF ArnFound
  <2> QED BY <1>2, <1>3, <1>4, <2>1, <2>2
<1> QED BY <1>5, <1>6

\* A query that is no search for an ARN is answered where the adapter of its type has
\* resources, if it takes the name.
LEMMA PlainAnswered ==
  ASSUME NEW b \in Adapters, NEW q, q.type = b.type,
         q.method = "SEARCH" => q.name # <<"arn">>,
         NEW k \in Kinds, NEW r \in Regions, q.scope = ScopeOf(k, r)
  PROVE  Answered(q) <=>
           /\ k \in b.scopes
           /\ \/ q.method = "GET" /\ q.name \in b.get
              \/ q.method = "SEARCH" /\ b.custom /\ q.name \in b.search
<1> DEFINE taken == \/ q.method = "GET" /\ q.name \in b.get
                    \/ q.method = "SEARCH" /\ b.custom /\ q.name \in b.search
<1>1. ASSUME NEW t \in SourcesFor(q.type, q.scope), Answers(t, q) PROVE k \in b.scopes /\ taken
  <2>1. t \in Sources /\ t.adapter = b /\ q.scope \in t.scopes BY AskedAre
  <2>2. taken BY <1>1, <2>1, PlainAnswers
  <2>3. t.region \in Regions BY <2>1, SourceIs
  <2>4. PICK j \in b.scopes : q.scope = ScopeOf(j, t.region) BY <2>1, SourceIs
  <2>5. j \in Kinds BY <2>3, ScopesAre
  <2>6. k = j BY <2>3, <2>4, <2>5, OneScope
  <2> QED BY <2>2, <2>6
<1>2. ASSUME k \in b.scopes, taken PROVE Answered(q)
  <2>1. PICK t \in Sources : t.adapter = b /\ ScopeOf(k, r) \in t.scopes BY <1>2, Reached
  <2>2. t \in SourcesFor(q.type, q.scope) BY <2>1 DEF SourcesFor
  <2>3. Answers(t, q) BY <1>2, <2>1, PlainAnswers
  <2> QED BY <2>2, <2>3 DEF Answered
<1> QED BY <1>1, <1>2 DEF Answered

\* No source has the scope of the network, or of an ARN without one, or a type that
\* is none of the adapters'.
LEMMA Nowhere ==
  ASSUME NEW q, q.scope \in {<<"global">>, <<"">>} \/ \A a \in Adapters : a.type # q.type
  PROVE  ~Answered(q)
<1> SUFFICES ASSUME NEW t \in SourcesFor(q.type, q.scope) PROVE FALSE BY DEF Answered
<1>1. t \in Sources /\ t.adapter.type = q.type /\ q.scope \in t.scopes BY DEF SourcesFor
<1>2. t.adapter \in Adapters /\ t.region \in Regions BY <1>1, SourceIs
<1>3. PICK k \in t.adapter.scopes : q.scope = ScopeOf(k, t.region) BY <1>1, SourceIs, ZenonT(60)
<1>4. k \in Kinds BY <1>2, <1>3, ScopesAre
<1> QED BY <1>1, <1>2, <1>3, <1>4, KindsApart

\* Nor has a source of a type whose resources are all in regions that of the account.
LEMMA RegionLeftOut ==
  ASSUME NEW b \in Adapters, b.scopes = {"region"},
         NEW q, q.type = b.type, q.scope = <<Account>>
  PROVE  ~Answered(q)
<1> SUFFICES ASSUME NEW t \in SourcesFor(q.type, q.scope) PROVE FALSE BY DEF Answered
<1>1. t \in Sources /\ t.adapter = b /\ q.scope \in t.scopes BY AskedAre
<1>2. t.region \in Regions /\ q.scope = ScopeOf("region", t.region) BY <1>1, SourceIs
<1> QED BY <1>2, KindsApart DEF Kinds

\* A search for an ARN in the scope it names, where the type has resources, is
\* answered but for the ARNs that are lost.
LEMMA ArnAnswered ==
  ASSUME NEW b \in Adapters, NEW q, q.type = b.type,
         q.method = "SEARCH", q.name = <<"arn">>, q.arn.scope = q.scope,
         NEW k \in b.scopes, NEW r \in Regions, q.scope = ScopeOf(k, r)
  PROVE  Answered(q) <=> ArnFound(b, q.arn.resource)
<1>1. PICK t \in Sources : t.adapter = b /\ ScopeOf(k, r) \in t.scopes BY Reached
<1>2. t \in SourcesFor(q.type, q.scope) BY <1>1 DEF SourcesFor
<1>3. \A u \in SourcesFor(q.type, q.scope) :
        u \in Sources /\ u.adapter = b /\ q.scope \in u.scopes
  BY AskedAre
<1>4. \A u \in SourcesFor(q.type, q.scope) : Answers(u, q) <=> ArnFound(b, q.arn.resource)
  BY <1>3, ArnAnswers
<1> QED BY <1>2, <1>4 DEF Answered

\* An ARN of a type, of a shape that is known, is one of those its adapter lists, and
\* its scope, if it has one, is where the adapter has resources.
LEMMA ArnsAre ==
  ASSUME NEW b \in Adapters, NEW type \in {b.items, b.type},
         NEW arn \in Arns(type), arn.resource # UnknownShape
  PROVE  /\ b.items = type
         /\ arn.resource \in b.arns
         /\ b.arnScope = "none" => arn.scope = <<"">>
         /\ b.arnScope = "account" => arn.scope = <<Account>>
         /\ b.arnScope = "own" =>
              \E k \in b.scopes, r \in Regions : arn.scope = ScopeOf(k, r)
<1> DEFINE shapes(t) == IF t.adapter.arns = {} THEN {UnknownShape} ELSE t.adapter.arns
<1>0. PICK t \in Sources : /\ t.adapter.items = type
                          /\ \E scope \in t.scopes, y \in shapes(t) : arn = Arn(t, scope, y)
  BY DEF Arns
<1>1. PICK scope \in t.scopes, x \in shapes(t) : arn = Arn(t, scope, x) BY <1>0
<1>2. t.adapter \in Adapters /\ t.region \in Regions BY SourceIs
<1>3. t.adapter = b BY <1>0, <1>2, ItemsApart
<1>4. /\ arn.resource = x
      /\ b.arnScope = "own" => arn.scope = scope
      /\ b.arnScope = "account" => arn.scope = <<Account>>
      /\ b.arnScope = "none" => arn.scope = <<"">>
  BY <1>1, <1>3 DEF Arn, FormatScope
<1>5. x \in b.arns BY <1>3, <1>4
<1>6. \E k \in b.scopes : scope = ScopeOf(k, t.region) BY <1>3, SourceIs
<1> QED BY <1>0, <1>2, <1>3, <1>4, <1>5, <1>6

\* The links that DeadGets and DeadSearches list, as LinkAnswered looks them up.
Listed(by, q) ==
  <<by, q.type, q.name>> \in IF q.method = "GET" THEN DeadGets ELSE DeadSearches

\* For the query of a link by the name it gives, that is whether the link is dead.
LEMMA ListedIs ==
  ASSUME NEW by, NEW l, NEW q, l.method \in {"GET", "SEARCH"},
         q.type = l.to, q.method = l.method, q.name = l.by
  PROVE  Listed(by, q) <=> Dead(by, l)
BY DEF Listed, Dead

\* The query of a link, as its scope and its name follow from where it asks.
LEMMA QueriesAre ==
  ASSUME NEW l, NEW scope, NEW q \in Queries(l, scope)
  PROVE  /\ q.type = l.to /\ q.method = l.method
         /\ l.at # "target" => q.name = l.by /\ q.arn.scope = <<"">>
         /\ l.at = "own" => q.scope = scope
         /\ l.at = "account" => q.scope = <<Account>>
         /\ l.at = "global" => q.scope = <<"global">>
         /\ l.at = "target" =>
              /\ q.arn \in Arns(l.to) /\ q.scope = q.arn.scope
              /\ q.name = IF l.by = <<"resourceID">> THEN After(q.arn.resource) ELSE l.by
<1>1. CASE l.at = "target"
  <2>1. PICK arn \in Arns(l.to) :
          q = Query(l.to, l.method, arn.scope,
                    IF l.by = <<"resourceID">> THEN ResourceID(arn) ELSE l.by, arn)
    BY <1>1 DEF Queries
  <2>2. ResourceID(arn) = After(arn.resource) BY DEF ResourceID, After
  <2> QED BY <1>1, <2>1, <2>2 DEF Query
<1>2. CASE l.at # "target"
  <2>1. q = Query(l.to, l.method,
                  CASE l.at = "own" -> scope
                    [] l.at = "account" -> FormatScope(Account, "")
                    [] l.at = "global" -> <<"global">>,
                  l.by, [NoArn EXCEPT !.scope = FormatScope("", "")])
    BY <1>2 DEF Queries
  <2>2. [NoArn EXCEPT !.scope = FormatScope("", "")].scope = <<"">> BY DEF NoArn, FormatScope
  <2>3. FormatScope(Account, "") = <<Account>> BY DEF FormatScope
  <2>4. /\ q.type = l.to /\ q.method = l.method /\ q.name = l.by
        /\ q.arn = [NoArn EXCEPT !.scope = FormatScope("", "")]
    BY <2>1 DEF Query
  <2>5. /\ l.at = "own" => q.scope = scope
        /\ l.at = "account" => q.scope = FormatScope(Account, "")
        /\ l.at = "global" => q.scope = <<"global">>
    BY <2>1 DEF Query
  <2> QED BY <1>2, <2>2, <2>3, <2>4, <2>5
<1> QED BY <1>1, <1>2

\* What LinkAnswered excepts: a lost ARN, a dead link, or the scope that is AWS's own.
Unanswerable(by, q) ==
  \/ q.method = "SEARCH" /\ q.name = <<"arn">> /\ <<q.type, q.arn.resource>> \in LostArns
  \/ Listed(by, q)
  \/ by = "iam-policy" /\ q.scope = <<"aws">>

\* No source answers the query of a link just when it cannot be answered in that
\* sense: each place a link may ask is a case, and what the catalogue says of it is
\* what the sources of the target make of the query.
LEMMA FollowedAnswered ==
  ASSUME NEW s \in Sources, NEW scope \in s.scopes, NEW l \in s.adapter.links,
         NEW q \in Queries(l, scope), q.type \in Types, q.arn.resource # UnknownShape
  PROVE  ~Answered(q) <=> Unanswerable(s.adapter.items, q)
<1> DEFINE a == s.adapter
           r == s.region
<1>1. a \in Adapters /\ r \in Regions BY SourceIs
<1>2. PICK k \in a.scopes : scope = ScopeOf(k, r) BY SourceIs
<1>3. k \in Kinds BY <1>1, <1>2, ScopesAre
<1>4. q.type = l.to /\ q.method = l.method BY QueriesAre
<1>5. l.method \in {"GET", "SEARCH"} /\ l.at \in {"own", "target", "account", "global"}
  BY <1>1, Catalogue DEF Fits
<1>6. l.to \notin Foreign BY <1>4, ItemsApart DEF Types
<1>7. ASSUME l.at # "target" PROVE Listed(a.items, q) <=> Dead(a.items, l)
  <2>1. q.name = l.by BY <1>7, QueriesAre
  <2> QED BY <1>4, <1>5, <2>1, ListedIs
<1>8. CASE l.to = "networkmanager-site" /\ l.at = "own" /\ Dead(a.items, l)
  <2>1. ~Answered(q)
    <3>1. \A b \in Adapters : b.type # q.type BY <1>4, <1>8, Catalogue DEF NotTypes
    <3> QED BY <3>1, Nowhere
  <2> QED BY <1>7, <1>8, <2>1 DEF Unanswerable
<1>9. ASSUME NEW b \in Adapters, Matches(a, l, b)
      PROVE  ~Answered(q) <=> Unanswerable(a.items, q)
  <2>1. q.type = b.type BY <1>4, <1>9 DEF Matches
  <2>2. CASE l.at = "own" /\ Own(a, l, b)
    <3>1. q.scope = scope /\ q.name = l.by BY <2>2, QueriesAre
    <3>2. q.method = "SEARCH" => q.name # <<"arn">> BY <1>4, <2>2, <3>1 DEF Own
    <3>3. Answered(q) <=> k \in b.scopes /\ Takes(b, l)
      BY <1>1, <1>2, <1>3, <1>4, <2>1, <3>1, <3>2, PlainAnswered DEF Takes
    <3>4. k \in b.scopes /\ Takes(b, l)
            <=> ~Dead(a.items, l) /\ ~(a.items = "iam-policy" /\ k = "aws")
      BY <2>2 DEF Own
    <3>5. q.scope = <<"aws">> <=> k = "aws" BY <1>1, <1>2, <1>3, <3>1, KindsApart
    <3> QED BY <1>7, <2>2, <3>2, <3>3, <3>4, <3>5 DEF Unanswerable
  <2>3. CASE l.at = "account" /\ InAccount(a, l, b)
    <3>1. /\ q.scope = <<Account>> /\ q.name = l.by /\ q.arn.scope = <<"">>
      <4>1. l.at = "account" /\ l.at # "target" BY <2>3
      <4>2. q.scope = <<Account>> BY <4>1, QueriesAre
      <4>3. q.name = l.by /\ q.arn.scope = <<"">> BY <4>1, QueriesAre
      <4> QED BY <4>2, <4>3
    <3>2. q.scope = ScopeOf("account", r) BY <3>1 DEF ScopeOf
    <3>3. q.scope \notin {<<"aws">>, <<"">>} BY <1>1, <3>2, KindsApart DEF Kinds
    <3>4. CASE l.method = "SEARCH" /\ l.by = <<"arn">> /\ Dead(a.items, l) /\ b.kind # "getlist"
      <4>1. q.arn.scope # q.scope BY <3>1, <3>3
      <4>2. \A t \in SourcesFor(q.type, q.scope) : t \in Sources /\ t.adapter = b
        BY <2>1, AskedAre
      <4>3. \A t \in SourcesFor(q.type, q.scope) : ~Answers(t, q)
        BY <1>4, <3>1, <3>4, <4>1, <4>2, ArnAnswers
      <4> QED BY <1>7, <2>3, <3>4, <4>3 DEF Answered, Unanswerable
    <3>5. CASE /\ l.by # <<"arn">>
               /\ "account" \in b.scopes /\ Takes(b, l) <=> ~Dead(a.items, l)
      <4>1. Answered(q) <=> "account" \in b.scopes /\ Takes(b, l)
        BY <1>1, <1>4, <2>1, <3>1, <3>2, <3>5, PlainAnswered DEF Takes, Kinds
      <4> QED BY <1>7, <2>3, <3>1, <3>3, <3>5, <4>1 DEF Unanswerable
    <3> QED BY <2>3, <3>4, <3>5 DEF InAccount
  <2>4. CASE l.at = "global" /\ Dead(a.items, l)
    <3>1. q.scope = <<"global">> BY <2>4, QueriesAre
    <3> QED BY <1>7, <2>4, <3>1, Nowhere DEF Unanswerable
  <2>5. CASE l.at = "target" /\ There(a, l, b)
    <3> DEFINE x == q.arn.resource
    <3>1. /\ q.arn \in Arns(b.type) /\ q.scope = q.arn.scope
          /\ q.name = IF l.by = <<"resourceID">> THEN After(x) ELSE l.by
      BY <1>4, <2>1, <2>5, QueriesAre
    <3>2. /\ b.items = b.type /\ x \in b.arns
          /\ b.arnScope = "none" => q.scope = <<"">>
          /\ b.arnScope = "account" => q.scope = <<Account>>
          /\ b.arnScope = "own" =>
               \E j \in b.scopes, p \in Regions : q.scope = ScopeOf(j, p)
      BY <3>1, ArnsAre
    <3>3. /\ ArnFound(b, x) /\ b.arnScope = "own" <=> <<b.type, x>> \notin LostArns
          /\ b.arnScope \in {"own", "account", "none"}
          /\ b.arnScope = "account" => b.scopes = {"region"}
      BY <3>2, Catalogue DEF Sound, ArnPlaced
    <3>4. a.items # "iam-policy" BY <2>5 DEF There
    <3>5. CASE l.method = "SEARCH" /\ l.by = <<"arn">> /\ ~Dead(a.items, l)
      <4>1. q.method = "SEARCH" /\ q.name = <<"arn">> BY <1>4, <3>1, <3>5
      <4>2. ~Listed(a.items, q) BY <1>4, <1>5, <3>5, <4>1, ListedIs
      <4>3. Answered(q) <=> ArnFound(b, x) /\ b.arnScope = "own"
        <5>1. CASE b.arnScope = "own"
          <6>1. PICK j \in b.scopes, p \in Regions : q.scope = ScopeOf(j, p)
            BY <3>2, <5>1
          <6> QED BY <2>1, <3>1, <4>1, <5>1, <6>1, ArnAnswered
        <5>2. CASE b.arnScope = "account"
          <6>1. ~Answered(q) BY <2>1, <3>2, <3>3, <5>2, RegionLeftOut
          <6> QED BY <5>2, <6>1
        <5>3. CASE b.arnScope = "none" BY <3>2, <5>3, Nowhere
        <5> QED BY <3>3, <5>1, <5>2, <5>3
      <4> QED BY <2>1, <3>3, <3>4, <4>1, <4>2, <4>3 DEF Unanswerable
    <3>6. ASSUME b.arnScope = "own", q.method = "SEARCH" => q.name # <<"arn">>
          PROVE  Answered(q) <=> \/ q.method = "GET" /\ q.name \in b.get
                                 \/ q.method = "SEARCH" /\ b.custom /\ q.name \in b.search
      <4>1. PICK j \in b.scopes, p \in Regions : q.scope = ScopeOf(j, p) BY <3>2, <3>6
      <4>2. j \in Kinds BY <4>1, ScopesAre
      <4> QED BY <2>1, <3>6, <4>1, <4>2, PlainAnswered
    <3>7. CASE /\ l.by # <<"arn">> /\ l.by # <<"resourceID">>
               /\ \A y \in b.arns : b.arnScope = "own" /\ (Takes(b, l) <=> ~Dead(a.items, l))
      <4>1. q.name = l.by BY <3>1, <3>7
      <4>2. Listed(a.items, q) <=> Dead(a.items, l) BY <1>4, <1>5, <4>1, ListedIs
      <4>3. Answered(q) <=> Takes(b, l) BY <1>4, <3>2, <3>6, <3>7, <4>1 DEF Takes
      <4> QED BY <3>2, <3>4, <3>7, <4>1, <4>2, <4>3 DEF Unanswerable
    <3>8. CASE /\ l.method = "GET" /\ l.by = <<"arn">>
               /\ \A y \in b.arns : b.arnScope = "own" /\ (l.by \in b.get <=> ~Dead(a.items, l))
      <4>1. q.name = l.by BY <3>1, <3>8
      <4>2. Listed(a.items, q) <=> Dead(a.items, l) BY <1>4, <1>5, <4>1, ListedIs
      <4>3. b.arnScope = "own" BY <3>2, <3>8
      <4>4. q.method = "GET" BY <1>4, <3>8
      <4>5. Answered(q) <=> q.name \in b.get BY <3>6, <4>3, <4>4
      <4> QED BY <3>2, <3>4, <3>8, <4>1, <4>2, <4>4, <4>5 DEF Unanswerable
    <3>9. CASE /\ l.method = "GET" /\ l.by = <<"resourceID">>
               /\ \A y \in b.arns : /\ b.arnScope = "own"
                                    /\ After(y) \in b.get
                                         <=> <<a.items, l.to, After(y)>> \notin DeadGets
      <4>1. q.name = After(x) /\ q.method = "GET" BY <1>4, <3>1, <3>9
      <4>2. Listed(a.items, q) <=> <<a.items, l.to, After(x)>> \in DeadGets
        BY <1>4, <4>1 DEF Listed
      <4>3. Answered(q) <=> After(x) \in b.get BY <3>2, <3>6, <3>9, <4>1
      <4> QED BY <3>2, <3>4, <3>9, <4>1, <4>2, <4>3 DEF Unanswerable
    <3> QED BY <2>5, <3>5, <3>7, <3>8, <3>9 DEF There
  <2> QED BY <1>9, <2>2, <2>3, <2>4, <2>5 DEF Matches
<1> QED BY <1>1, <1>6, <1>8, <1>9, Catalogue DEF Fits
-----------------------------------------------------------------------------
\* Every item of the walk is one that a source has in one of its scopes ...
At(i) == \E s \in Sources : \E scope \in s.scopes : i = Item(s, scope)

\* ... and every query was asked for such an item: by a link of it, for itself again,
\* or by an ARN of its type.
LinkAsked(s, scope) ==
  \E l \in s.adapter.links : via = Via(s.adapter.items, l) /\ query \in Queries(l, scope)

AgainAsked(s, scope) ==
  /\ via = Via("again", NoLink)
  /\ query = Query(s.adapter.items, "GET", scope, s.adapter.unique, NoArn)

ArnAsked(s, scope) ==
  /\ via = Via("arn", NoLink)
  /\ \E arn \in Arns(s.adapter.items) :
       /\ arn.resource # UnknownShape
       /\ query = Query(s.adapter.items, "SEARCH", scope, <<"arn">>, arn)

Asked == \E s \in Sources : \E scope \in s.scopes :
           LinkAsked(s, scope) \/ AgainAsked(s, scope) \/ ArnAsked(s, scope)

Unasked == via = Via("", NoLink) /\ query = NoQuery

\* The item the walk is at is the answer to the last query, and "unanswered" is said
\* of a query that no source answers.
WalkInv ==
  /\ phase \in {"start", "item", "asked", "unanswered"}
  /\ phase = "start" => Unasked
  /\ phase # "start" => At(item)
  /\ phase = "item" => \/ Unasked
                       \/ /\ Asked
                          /\ \E t \in SourcesFor(query.type, query.scope) :
                               Answers(t, query) /\ item = Item(t, query.scope)
  /\ phase \in {"asked", "unanswered"} => Asked
  /\ phase = "unanswered" => ~Answered(query)

\* The adapter that an item's type names is the one it came from.
LEMMA AdapterOfItem ==
  ASSUME NEW s \in Sources, NEW scope
  PROVE  /\ AdapterOf(Item(s, scope)) = s.adapter
         /\ Item(s, scope).type = s.adapter.items /\ Item(s, scope).scope = scope
<1>1. s.adapter \in Adapters BY SourceIs
<1>2. Item(s, scope).type = s.adapter.items /\ Item(s, scope).scope = scope BY DEF Item
<1>3. \A a \in Adapters : a.items = Item(s, scope).type => a = s.adapter
  BY <1>1, <1>2, ItemsApart
<1> QED BY <1>1, <1>2, <1>3 DEF AdapterOf

\* The walk starts with no query asked.
LEMMA WalkInit == Init => WalkInv
BY DEF Init, WalkInv, Unasked

\* No step, the whole of an operation of the engine, breaks the invariant.
LEMMA WalkStep == WalkInv /\ [Next]_vars => WalkInv'
<1> SUFFICES ASSUME WalkInv, [Next]_vars PROVE WalkInv' OBVIOUS
<1>1. CASE Discover
  <2>1. At(item') BY <1>1 DEF Discover, At
  <2>2. Unasked' BY <1>1 DEF Discover, WalkInv, Unasked
  <2> QED BY <1>1, <2>1, <2>2 DEF Discover, WalkInv, At
<1>2. CASE Follow
  <2>1. PICK s \in Sources : \E scope \in s.scopes : item = Item(s, scope)
    BY <1>2 DEF Follow, WalkInv, At
  <2>2. PICK scope \in s.scopes : item = Item(s, scope) BY <2>1
  <2>3. LinkAsked(s, scope)' BY <1>2, <2>2, AdapterOfItem DEF Follow, LinkAsked
  <2>4. Asked' BY <2>2, <2>3 DEF Asked
  <2> QED BY <1>2, <2>4 DEF Follow, WalkInv, At
<1>3. CASE AskAgain
  <2>1. PICK s \in Sources : \E scope \in s.scopes : item = Item(s, scope)
    BY <1>3 DEF AskAgain, WalkInv, At
  <2>2. PICK scope \in s.scopes : item = Item(s, scope) BY <2>1
  <2>3. AgainAsked(s, scope)' BY <1>3, <2>2, AdapterOfItem DEF AskAgain, AgainAsked
  <2>4. Asked' BY <2>2, <2>3 DEF Asked
  <2> QED BY <1>3, <2>4 DEF AskAgain, WalkInv, At
<1>4. CASE AskByArn
  <2>1. PICK s \in Sources : \E scope \in s.scopes : item = Item(s, scope)
    BY <1>4 DEF AskByArn, WalkInv, At
  <2>2. PICK scope \in s.scopes : item = Item(s, scope) BY <2>1
  <2>3. ArnAsked(s, scope)' BY <1>4, <2>2, AdapterOfItem DEF AskByArn, ArnAsked
  <2>4. Asked' BY <2>2, <2>3 DEF Asked
  <2> QED BY <1>4, <2>4 DEF AskByArn, WalkInv, At
<1>5. CASE Answer
  <2>1. PICK t \in SourcesFor(query.type, query.scope) :
          Answers(t, query) /\ item' = Item(t, query.scope)
    BY <1>5 DEF Answer
  <2>2. t \in Sources /\ query.scope \in t.scopes BY DEF SourcesFor
  <2>3. At(item') BY <2>1, <2>2 DEF At
  <2>4. Asked BY <1>5 DEF Answer, WalkInv
  <2>5. Asked' BY <1>5, <2>4 DEF Answer, Asked, LinkAsked, AgainAsked, ArnAsked
  <2> QED BY <1>5, <2>1, <2>3, <2>5 DEF Answer, WalkInv, At
<1>6. CASE NoAnswer
  <2>1. ~Answered(query) BY <1>6 DEF NoAnswer, Answered
  <2>2. Asked BY <1>6 DEF NoAnswer, WalkInv
  <2>3. Asked' BY <1>6, <2>2 DEF NoAnswer, Asked, LinkAsked, AgainAsked, ArnAsked
  <2> QED BY <1>6, <2>1, <2>3 DEF NoAnswer, WalkInv, At
<1>7. CASE UNCHANGED vars
  BY <1>7 DEF vars, WalkInv, Unasked, At, Asked, LinkAsked, AgainAsked, ArnAsked
<1> QED BY <1>1, <1>2, <1>3, <1>4, <1>5, <1>6, <1>7 DEF Next

\* The invariant holds in every state the walk reaches.
THEOREM Walk == Spec => []WalkInv
BY WalkInit, WalkStep, PTL DEF Spec

\* What a query was asked by can be told from the state.
LEMMA AskedBy ==
  ASSUME NEW s \in Sources, NEW scope \in s.scopes
  PROVE  /\ s.adapter \in Adapters /\ s.adapter.items \in Types /\ scope \in Scopes
         /\ s.adapter.items \notin {"", "again", "arn"}
         /\ LinkAsked(s, scope) =>
              /\ via.by = s.adapter.items /\ via.link # NoLink
              /\ via.link \in s.adapter.links /\ query \in Queries(via.link, scope)
              /\ query.method # ""
         /\ AgainAsked(s, scope) =>
              via.by = "again" /\ via.link = NoLink /\ query.method # ""
         /\ ArnAsked(s, scope) =>
              via.by = "arn" /\ via.link = NoLink /\ query.method # ""
<1>1. s.adapter \in Adapters BY SourceIs
<1>2. /\ s.adapter.items \in Types /\ s.adapter.items \notin {"", "again", "arn"}
      /\ scope \in Scopes
  BY <1>1, ItemsApart DEF Types, Scopes
<1>3. ASSUME LinkAsked(s, scope)
      PROVE  /\ via.by = s.adapter.items /\ via.link # NoLink
             /\ via.link \in s.adapter.links /\ query \in Queries(via.link, scope)
             /\ query.method # ""
  <2>1. PICK l \in s.adapter.links : /\ via = Via(s.adapter.items, l)
                                     /\ query \in Queries(l, scope)
    BY <1>3 DEF LinkAsked
  <2>2. via.by = s.adapter.items /\ via.link = l BY <2>1 DEF Via
  <2>3. /\ l.method \in {"GET", "SEARCH"}
        /\ l.at \in {"own", "target", "account", "global"}
    BY <1>1, Catalogue DEF Fits
  <2>4. NoLink.at = "" BY DEF NoLink, Link
  <2>5. query.method = l.method BY <2>1, QueriesAre
  <2> QED BY <2>1, <2>2, <2>3, <2>4, <2>5
<1>4. AgainAsked(s, scope) => via.by = "again" /\ via.link = NoLink /\ query.method # ""
  BY DEF AgainAsked, Via, Query
<1>5. ArnAsked(s, scope) => via.by = "arn" /\ via.link = NoLink /\ query.method # ""
  BY DEF ArnAsked, Via, Query
<1> QED BY <1>1, <1>2, <1>3, <1>4, <1>5

\* Where nothing has been asked, nothing asked for it.
LEMMA UnaskedIs == Unasked => via.by = "" /\ via.link = NoLink /\ "" \notin Types
<1>1. "" \notin Types BY ItemsApart DEF Types
<1>2. Via("", NoLink).by = "" /\ Via("", NoLink).link = NoLink BY DEF Via
<1> QED BY <1>1, <1>2 DEF Unasked

\* Every item has the type and a scope of a source, and every query is asked on
\* behalf of one, whatever the regions and the account are.
THEOREM DiscoveryTypes == Spec => []TypeOK
<1> SUFFICES WalkInv => TypeOK BY Walk, PTL
<1> SUFFICES ASSUME WalkInv PROVE TypeOK OBVIOUS
<1>1. phase # "start" => item.type \in Types /\ item.scope \in Scopes
  <2> SUFFICES ASSUME NEW s \in Sources, NEW scope \in s.scopes, item = Item(s, scope)
               PROVE  item.type \in Types /\ item.scope \in Scopes
    BY DEF WalkInv, At
  <2>1. s.adapter.items \in Types /\ scope \in Scopes BY AskedBy
  <2>2. item.type = s.adapter.items /\ item.scope = scope BY AdapterOfItem
  <2> QED BY <2>1, <2>2
<1>2. Asked => /\ query.method # "" /\ via.by # ""
               /\ via.by \in Types \cup {"", "again", "arn"}
               /\ via.by \in Types <=> via.link # NoLink
  <2>1. "again" \notin Types /\ "arn" \notin Types BY ItemsApart DEF Types
  <2>2. SUFFICES ASSUME NEW s \in Sources, NEW scope \in s.scopes,
                        LinkAsked(s, scope) \/ AgainAsked(s, scope) \/ ArnAsked(s, scope)
                 PROVE  /\ query.method # "" /\ via.by # ""
                        /\ via.by \in Types \cup {"", "again", "arn"}
                        /\ via.by \in Types <=> via.link # NoLink
    BY DEF Asked
  <2> QED BY <2>1, <2>2, AskedBy
<1>3. NoQuery.method = "" BY DEF NoQuery, Query
<1>4. Unasked \/ Asked BY DEF WalkInv
<1> QED BY <1>1, <1>2, <1>3, <1>4, UnaskedIs DEF WalkInv, TypeOK

\* A query goes to one source, or to one of each region: AskedOnce is Counted, of the
\* type and scope of the query.
THEOREM DiscoveryAskedOnce == Spec => []AskedOnce
<1>1. AskedOnce BY Counted DEF AskedOnce
<1>2. Spec => []WalkInv BY Walk
<1> QED BY <1>1, PTL

\* A link to a type the program has is answered unless it is listed, for any account
\* and any regions.
THEOREM DiscoveryLinkAnswered == Spec => []LinkAnswered
<1> SUFFICES WalkInv => LinkAnswered BY Walk, PTL
<1> SUFFICES ASSUME WalkInv, Followed
             PROVE  phase = "unanswered" <=>
                      \/ /\ query.method = "SEARCH" /\ query.name = <<"arn">>
                         /\ <<query.type, query.arn.resource>> \in LostArns
                      \/ <<via.by, query.type, query.name>> \in
                           (IF query.method = "GET" THEN DeadGets ELSE DeadSearches)
                      \/ FromAws
  BY DEF LinkAnswered
<1>1. /\ phase \in {"item", "unanswered"} /\ query.type \in Types
      /\ via.by \in Types /\ query.arn.resource # UnknownShape
  BY DEF Followed, Settled
<1>2. Asked BY <1>1, UnaskedIs DEF WalkInv
<1>3. "again" \notin Types /\ "arn" \notin Types BY ItemsApart DEF Types
<1>4. PICK s \in Sources : \E scope \in s.scopes :
        LinkAsked(s, scope) \/ AgainAsked(s, scope) \/ ArnAsked(s, scope)
  BY <1>2 DEF Asked
<1>5. PICK scope \in s.scopes :
        LinkAsked(s, scope) \/ AgainAsked(s, scope) \/ ArnAsked(s, scope)
  BY <1>4
<1>6. LinkAsked(s, scope) BY <1>1, <1>3, <1>5, AskedBy
<1>7. /\ via.by = s.adapter.items
      /\ via.link \in s.adapter.links /\ query \in Queries(via.link, scope)
  BY <1>6, AskedBy
<1>8. ~Answered(query) <=> Unanswerable(via.by, query) BY <1>1, <1>7, FollowedAnswered
<1>9. phase = "unanswered" <=> ~Answered(query)
  BY <1>1, <1>2, UnaskedIs DEF WalkInv, Answered
<1>10. FromAws <=> via.by = "iam-policy" /\ query.scope = <<"aws">>
  BY DEF FromAws, FormatScope
<1> QED BY <1>8, <1>9, <1>10 DEF Unanswerable, Listed

\* An item is found again by its unique attribute in its scope unless its type is
\* listed.
THEOREM DiscoveryFoundAgain == Spec => []FoundAgain
<1> SUFFICES WalkInv => FoundAgain BY Walk, PTL
<1> SUFFICES ASSUME WalkInv, Settled, via.by = "again"
             PROVE  phase = "unanswered" <=> query.type \in NotFoundAgain
  BY DEF FoundAgain
<1>1. phase \in {"item", "unanswered"} BY DEF Settled
<1>2. Asked BY <1>1, UnaskedIs DEF WalkInv
<1>3. PICK s \in Sources : \E scope \in s.scopes :
        LinkAsked(s, scope) \/ AgainAsked(s, scope) \/ ArnAsked(s, scope)
  BY <1>2 DEF Asked
<1>4. PICK scope \in s.scopes :
        LinkAsked(s, scope) \/ AgainAsked(s, scope) \/ ArnAsked(s, scope)
  BY <1>3
<1> DEFINE a == s.adapter
<1>5. AgainAsked(s, scope) BY <1>4, AskedBy
<1>6. /\ query.type = a.items /\ query.method = "GET"
      /\ query.scope = scope /\ query.name = a.unique
  BY <1>5 DEF AgainAsked, Query
<1>7. phase = "unanswered" <=> ~Answered(query)
  BY <1>1, <1>2, UnaskedIs DEF WalkInv, Answered
<1>8. a \in Adapters /\ s.region \in Regions BY SourceIs
<1>9. CASE a.items = a.type
  <2>1. PICK k \in a.scopes : scope = ScopeOf(k, s.region) BY SourceIs
  <2>2. k \in Kinds BY <1>8, <2>1, ScopesAre
  <2>3. Answered(query) <=> a.unique \in a.get
    BY <1>6, <1>8, <1>9, <2>1, <2>2, PlainAnswered
  <2>4. a.unique \in a.get <=> a.type \notin NotFoundAgain BY <1>8, <1>9, Catalogue DEF Sound
  <2> QED BY <1>6, <1>7, <1>9, <2>3, <2>4
<1>10. CASE a.items # a.type
  <2>1. a.items = "networkmanager-site" BY <1>8, <1>10, ItemsApart
  <2>2. ~Answered(query)
    <3>1. \A b \in Adapters : b.type # query.type BY <1>6, <2>1, Catalogue DEF NotTypes
    <3> QED BY <3>1, Nowhere
  <2>3. "networkmanager-site" \in NotFoundAgain BY DEF NotFoundAgain
  <2> QED BY <1>6, <1>7, <2>1, <2>2, <2>3
<1> QED BY <1>9, <1>10

\* What a search for an ARN of an item's own type has asked.
LEMMA ArnAskedIs ==
  ASSUME WalkInv, Settled, via.by = "arn"
  PROVE  /\ phase = "unanswered" <=> ~Answered(query)
         /\ \E a \in Adapters : \E k \in a.scopes : \E r \in Regions :
              /\ a.items = a.type /\ query.type = a.type
              /\ query.method = "SEARCH" /\ query.name = <<"arn">>
              /\ query.scope = ScopeOf(k, r) /\ query.arn.resource \in a.arns
              /\ a.arnScope = "none" => query.arn.scope = <<"">>
              /\ a.arnScope = "account" => query.arn.scope = <<Account>>
              /\ a.arnScope = "own" => \E j \in a.scopes, p \in Regions :
                                         query.arn.scope = ScopeOf(j, p)
<1>1. phase \in {"item", "unanswered"} BY DEF Settled
<1>2. Asked BY <1>1, UnaskedIs DEF WalkInv
<1>3. PICK s \in Sources : \E scope \in s.scopes :
        LinkAsked(s, scope) \/ AgainAsked(s, scope) \/ ArnAsked(s, scope)
  BY <1>2 DEF Asked
<1>4. PICK scope \in s.scopes :
        LinkAsked(s, scope) \/ AgainAsked(s, scope) \/ ArnAsked(s, scope)
  BY <1>3
<1> DEFINE a == s.adapter
<1>5. ArnAsked(s, scope) BY <1>4, AskedBy
<1>6. PICK arn \in Arns(a.items) :
        /\ arn.resource # UnknownShape
        /\ query = Query(a.items, "SEARCH", scope, <<"arn">>, arn)
  BY <1>5 DEF ArnAsked
<1>7. /\ query.type = a.items /\ query.method = "SEARCH" /\ query.scope = scope
      /\ query.name = <<"arn">> /\ query.arn = arn
  BY <1>6 DEF Query
<1>8. phase = "unanswered" <=> ~Answered(query)
  BY <1>1, <1>2, UnaskedIs DEF WalkInv, Answered
<1>9. a \in Adapters /\ s.region \in Regions BY SourceIs
<1>10. /\ arn.resource \in a.arns
       /\ a.arnScope = "none" => arn.scope = <<"">>
       /\ a.arnScope = "account" => arn.scope = <<Account>>
       /\ a.arnScope = "own" =>
            \E j \in a.scopes, p \in Regions : arn.scope = ScopeOf(j, p)
  BY <1>6, <1>9, ArnsAre
<1>11. a.items = a.type BY <1>9, <1>10, Catalogue DEF Sound
<1>12. PICK k \in a.scopes : scope = ScopeOf(k, s.region) BY SourceIs
<1> QED BY <1>7, <1>8, <1>9, <1>10, <1>11, <1>12

\* No source finds the resource of an ARN that is neither of the scope of the request
\* nor of one that sources of the type have.
LEMMA NotOfScope ==
  ASSUME NEW a \in Adapters, NEW q, q.type = a.type, q.method = "SEARCH", q.name = <<"arn">>,
         q.arn.scope # q.scope,
         \A k \in a.scopes : \A r \in Regions : q.arn.scope # ScopeOf(k, r)
  PROVE  ~Answered(q)
<1> SUFFICES ASSUME NEW t \in SourcesFor(q.type, q.scope) PROVE ~Answers(t, q)
  BY DEF Answered
<1>1. t \in Sources /\ t.adapter = a BY AskedAre
<1>2. t.region \in Regions /\ t.scopes = {ScopeOf(j, t.region) : j \in a.scopes}
  BY <1>1, SourceIs
<1>3. q.arn.scope \notin t.scopes BY <1>2
<1> QED BY <1>1, <1>3, ArnAnswers

\* Among the scopes an adapter has, an ARN that names the scope of the request or that
\* without its region names the scope of the request.
LEMMA OfScopeIs ==
  ASSUME NEW a \in Adapters, NEW k \in a.scopes, NEW j \in a.scopes,
         NEW r \in Regions, NEW p \in Regions,
         ScopeOf(j, p) = <<Head(ScopeOf(k, r))>>
  PROVE  ScopeOf(j, p) = ScopeOf(k, r)
<1>1. k \in Kinds /\ j \in Kinds BY ScopesAre
<1>2. a.scopes \in {{"region"}, {"account"}, {"account", "aws"}} BY Catalogue DEF Sound
<1>3. CASE k = "region"
  <2>1. j # "account" BY <1>2, <1>3
  <2>2. Head(ScopeOf(k, r)) = Account BY <1>3 DEF ScopeOf
  <2>3. ScopeOf(j, p) # <<Account>> BY <1>1, <2>1, KindsApart
  <2> QED BY <2>2, <2>3
<1>4. CASE k # "region"
  <2>1. <<Head(ScopeOf(k, r))>> = ScopeOf(k, r) BY <1>1, <1>4 DEF ScopeOf, Kinds
  <2> QED BY <2>1
<1> QED BY <1>3, <1>4

\* A search for an ARN finds the resource in its scope unless the ARN is listed.
THEOREM DiscoveryFoundByArn == Spec => []FoundByArn
<1> SUFFICES WalkInv => FoundByArn BY Walk, PTL
<1> SUFFICES ASSUME WalkInv, Settled, via.by = "arn",
                    query.arn.scope \in {query.scope, <<Head(query.scope)>>, <<"">>}
             PROVE  phase = "unanswered" <=> <<query.type, query.arn.resource>> \in LostArns
  BY DEF FoundByArn, OfScope, FormatScope
<1>1. PICK a \in Adapters : \E k \in a.scopes : \E r \in Regions :
        /\ a.items = a.type /\ query.type = a.type
        /\ query.method = "SEARCH" /\ query.name = <<"arn">>
        /\ query.scope = ScopeOf(k, r) /\ query.arn.resource \in a.arns
        /\ a.arnScope = "none" => query.arn.scope = <<"">>
        /\ a.arnScope = "account" => query.arn.scope = <<Account>>
        /\ a.arnScope = "own" =>
             \E j \in a.scopes, p \in Regions : query.arn.scope = ScopeOf(j, p)
  BY ArnAskedIs
<1>2. PICK k \in a.scopes, r \in Regions : query.scope = ScopeOf(k, r) BY <1>1
<1>3. \A j \in a.scopes : j \in Kinds BY <1>2, ScopesAre
<1>4. /\ ArnFound(a, query.arn.resource) /\ a.arnScope = "own"
           <=> <<query.type, query.arn.resource>> \notin LostArns
      /\ a.arnScope \in {"own", "account", "none"}
      /\ a.arnScope = "account" => a.scopes = {"region"}
  BY <1>1, Catalogue DEF Sound, ArnPlaced
<1>5. CASE a.arnScope = "own"
  <2>1. PICK j \in a.scopes, p \in Regions : query.arn.scope = ScopeOf(j, p) BY <1>1, <1>5
  <2>2. query.arn.scope # <<"">> BY <1>3, <2>1, KindsApart
  <2>3. ScopeOf(j, p) = ScopeOf(k, r) \/ ScopeOf(j, p) = <<Head(ScopeOf(k, r))>>
    BY <1>2, <2>1, <2>2
  <2>4. ScopeOf(j, p) = ScopeOf(k, r) BY <2>3, OfScopeIs, ZenonT(60)
  <2>5. query.arn.scope = query.scope BY <1>2, <2>1, <2>4
  <2>6. Answered(query) <=> ArnFound(a, query.arn.resource)
    BY <1>1, <1>2, <2>5, ArnAnswered
  <2> QED BY <1>4, <1>5, <2>6, ArnAskedIs
<1>6. CASE a.arnScope = "account"
  <2>1. query.arn.scope = <<Account>> /\ a.scopes = {"region"} BY <1>1, <1>4, <1>6
  <2>2. \A j \in a.scopes : \A p \in Regions : ScopeOf(j, p) # <<Account>>
    BY <1>3, <2>1, KindsApart
  <2>3. query.arn.scope # query.scope BY <1>2, <2>1, <2>2
  <2>4. ~Answered(query) BY <1>1, <2>1, <2>2, <2>3, NotOfScope
  <2> QED BY <1>4, <1>6, <2>4, ArnAskedIs
<1>7. CASE a.arnScope = "none"
  <2>1. query.arn.scope = <<"">> BY <1>1, <1>7
  <2>2. \A j \in a.scopes : \A p \in Regions : ScopeOf(j, p) # <<"">>
    BY <1>3, KindsApart
  <2>3. query.arn.scope # query.scope BY <1>2, <2>1, <2>2
  <2>4. ~Answered(query) BY <1>1, <2>1, <2>2, <2>3, NotOfScope
  <2> QED BY <1>4, <1>7, <2>4, ArnAskedIs
<1> QED BY <1>4, <1>5, <1>6, <1>7

\* A search for an ARN of another scope never answers with a resource of the scope of
\* the request, but for the type whose sources have two scopes.
THEOREM DiscoveryOtherScopeRefused == Spec => []OtherScopeRefused
<1> SUFFICES WalkInv => OtherScopeRefused BY Walk, PTL
<1> SUFFICES ASSUME WalkInv, Settled, via.by = "arn", query.arn.scope # query.scope,
                    query.type # "iam-policy"
             PROVE  phase = "unanswered"
  BY DEF OtherScopeRefused
<1>1. PICK a \in Adapters :
        /\ query.type = a.type /\ query.method = "SEARCH" /\ query.name = <<"arn">>
        /\ query.arn.resource \in a.arns
  BY ArnAskedIs
<1>2. ASSUME NEW t \in SourcesFor(query.type, query.scope) PROVE ~Answers(t, query)
  <2>1. t \in Sources /\ t.adapter = a /\ query.scope \in t.scopes BY <1>1, AskedAre
  <2>2. \E k : a.scopes = {k} BY <1>1, Catalogue DEF Sound
  <2>3. PICK k : a.scopes = {k} BY <2>2
  <2>4. t.scopes = {ScopeOf(k, t.region)} BY <2>1, <2>3, SourceIs
  <2>5. query.arn.scope \notin t.scopes BY <2>1, <2>4
  <2> QED BY <1>1, <2>1, <2>5, ArnAnswers
<1>3. ~Answered(query) BY <1>2 DEF Answered
<1> QED BY <1>3, ArnAskedIs

\* Where two types link to each other, their adapters say the same of how a change
\* travels, but for those listed.
THEOREM DiscoveryBlastMirrored == Spec => []BlastMirrored
<1> SUFFICES WalkInv => BlastMirrored BY Walk, PTL
<1> DEFINE back == {link \in AdapterOf(item).links : link.to = via.by}
<1> SUFFICES ASSUME WalkInv, phase = "item", via.by \in Types, back # {},
                    {via.by, item.type} \notin Disagreeing
             PROVE  \E link \in back : link.blast = Mirror(via.link.blast)
  BY DEF BlastMirrored
<1>1. Asked /\ \E t \in SourcesFor(query.type, query.scope) : item = Item(t, query.scope)
  BY UnaskedIs DEF WalkInv
<1>2. "again" \notin Types /\ "arn" \notin Types BY ItemsApart DEF Types
<1>3. PICK s \in Sources : \E scope \in s.scopes :
        LinkAsked(s, scope) \/ AgainAsked(s, scope) \/ ArnAsked(s, scope)
  BY <1>1 DEF Asked
<1>4. PICK scope \in s.scopes :
        LinkAsked(s, scope) \/ AgainAsked(s, scope) \/ ArnAsked(s, scope)
  BY <1>3
<1>5. LinkAsked(s, scope) BY <1>2, <1>4, AskedBy
<1>6. /\ via.by = s.adapter.items /\ s.adapter \in Adapters
      /\ via.link \in s.adapter.links /\ query \in Queries(via.link, scope)
  BY <1>5, AskedBy
<1>7. PICK t \in SourcesFor(query.type, query.scope) : item = Item(t, query.scope) BY <1>1
<1>8. t \in Sources /\ t.adapter.type = query.type BY DEF SourcesFor
<1>9. t.adapter \in Adapters BY <1>8, SourceIs
<1>10. AdapterOf(item) = t.adapter /\ item.type = t.adapter.items
  BY <1>7, <1>8, AdapterOfItem
<1>11. via.link.to = t.adapter.type BY <1>6, <1>8, QueriesAre
<1>12. PICK k \in t.adapter.links : k.to = s.adapter.items BY <1>6, <1>10
<1>13. {s.adapter.items, t.adapter.items} \notin Disagreeing BY <1>6, <1>10
<1>14. Agree(s.adapter, {t.adapter}) BY <1>6, <1>9, Catalogue
<1>15. \E link \in t.adapter.links : /\ link.to = s.adapter.items
                                     /\ link.blast = Mirror(via.link.blast)
  BY <1>6, <1>11, <1>12, <1>13, <1>14 DEF Agree
<1> QED BY <1>6, <1>10, <1>15
=============================================================================
