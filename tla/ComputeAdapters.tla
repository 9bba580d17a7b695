-------------------------- MODULE ComputeAdapters --------------------------
(***************************************************************************)
(* The adapters of sources/ec2, sources/autoscaling and sources/efs.       *)
(***************************************************************************)
EXTENDS Adapters

\* The shape most of EC2 has: resources are named by their ids.
Ec2(type, arns, links) == Describe(type, <<"id">>, arns, links)

Address ==
  Describe("ec2-address", <<"publicIp">>, {},
    Net({"ip"}, "both")
    \cup Gets({<<"ec2-instance", "id">>, <<"ec2-network-interface", "id">>}, "both"))

CapacityReservation ==
  Ec2("ec2-capacity-reservation", {<<"capacity-reservation", "id">>},
    Gets({<<"ec2-capacity-reservation-fleet", "id">>}, "in")
    \cup ByArn({"outposts-outpost", "ec2-placement-group"}, "in"))

CapacityReservationFleet ==
  Ec2("ec2-capacity-reservation-fleet", {},
    Gets({<<"ec2-capacity-reservation", "id">>}, "out"))

EgressOnlyInternetGateway ==
  Ec2("ec2-egress-only-internet-gateway", {}, Gets({<<"ec2-vpc", "id">>}, "out"))

IamInstanceProfileAssociation ==
  Ec2("ec2-iam-instance-profile-association", {},
    ByArn({"iam-instance-profile"}, "in") \cup Gets({<<"ec2-instance", "id">>}, "out"))

Image == Ec2("ec2-image", {}, {})

InstanceLinks ==
  Gets({<<"ec2-instance-status", "id">>, <<"ec2-volume", "id">>}, "both")
  \cup Gets({<<"ec2-image", "id">>}, "none")
  \cup Gets({<<"iam-instance-profile", "id">>, <<"ec2-capacity-reservation", "id">>,
             <<"ec2-elastic-gpu", "id">>, <<"ec2-spot-instance-request", "id">>,
             <<"ec2-key-pair", "name">>, <<"ec2-placement-group", "id">>,
             <<"ec2-subnet", "id">>, <<"ec2-vpc", "id">>,
             <<"ec2-security-group", "id">>}, "in")
  \cup ByArn({"iam-instance-profile", "elastic-inference-accelerator",
              "license-manager-license-configuration", "outposts-outpost"}, "in")
  \cup Net({"ip", "dns"}, "both")

Instance == Ec2("ec2-instance", {<<"instance", "id">>}, InstanceLinks)

InstanceEventWindow ==
  Ec2("ec2-instance-event-window", {},
    Gets({<<"ec2-host", "id">>, <<"ec2-instance", "id">>}, "out"))

InstanceStatus ==
  Ec2("ec2-instance-status", {}, Gets({<<"ec2-instance", "id">>}, "both"))

InternetGateway ==
  Ec2("ec2-internet-gateway", {}, Gets({<<"ec2-vpc", "id">>}, "out"))

KeyPair == Describe("ec2-key-pair", <<"name">>, {}, {})

LaunchTemplate == Ec2("ec2-launch-template", {}, {})

LaunchTemplateVersionLinks ==
  Net({"ip"}, "both")
  \cup Gets({<<"ec2-network-interface", "id">>, <<"ec2-capacity-reservation", "id">>,
             <<"ec2-host", "id">>}, "both")
  \cup Gets({<<"ec2-subnet", "id">>, <<"ec2-security-group", "id">>,
             <<"ec2-image", "id">>, <<"ec2-key-pair", "name">>,
             <<"ec2-snapshot", "id">>, <<"ec2-placement-group", "id">>}, "in")

\* GET wants exactly two sections, as the item's combined attribute has.
LaunchTemplateVersion ==
  Describe("ec2-launch-template-version", <<"id", "version">>, {},
           LaunchTemplateVersionLinks)

NatGateway ==
  Ec2("ec2-nat-gateway", {},
    Gets({<<"ec2-network-interface", "id">>}, "both") \cup Net({"ip"}, "both")
    \cup Gets({<<"ec2-subnet", "id">>}, "out") \cup Gets({<<"ec2-vpc", "id">>}, "in"))

NetworkAcl ==
  Ec2("ec2-network-acl", {},
    Gets({<<"ec2-subnet", "id">>, <<"ec2-vpc", "id">>}, "out"))

NetworkInterface ==
  Ec2("ec2-network-interface", {},
    Gets({<<"ec2-instance", "id">>}, "both") \cup Net({"ip", "dns"}, "both")
    \cup Gets({<<"ec2-security-group", "id">>, <<"ec2-subnet", "id">>,
               <<"ec2-vpc", "id">>}, "in"))

NetworkInterfacePermission ==
  Ec2("ec2-network-interface-permission", {},
    Gets({<<"ec2-network-interface", "id">>}, "both"))

PlacementGroup == Ec2("ec2-placement-group", {<<"placement-group", "id">>}, {})

ReservedInstance == Ec2("ec2-reserved-instance", {}, {})

\* The gateway associated with a table may be a virtual private gateway as well;
\* routes are told apart by the prefix of the gateway's id.
RouteTableLinks ==
  Gets({<<"ec2-subnet", "id">>, <<"ec2-internet-gateway", "id">>,
        <<"ec2-internet-gateway", "gatewayId">>, <<"ec2-vpc-endpoint", "id">>,
        <<"ec2-carrier-gateway", "id">>, <<"ec2-egress-only-internet-gateway", "id">>,
        <<"ec2-instance", "id">>, <<"ec2-local-gateway", "id">>,
        <<"ec2-nat-gateway", "id">>, <<"ec2-network-interface", "id">>,
        <<"ec2-transit-gateway", "id">>, <<"ec2-vpc-peering-connection", "id">>,
        <<"ec2-vpc", "id">>}, "both")

RouteTable == Ec2("ec2-route-table", {}, RouteTableLinks)

\* Groups of another account are asked for in that account, in the same region.
LinkedSecurityGroups == GetsThere({<<"ec2-security-group", "id">>}, "both")

SecurityGroup ==
  Searching(Ec2("ec2-security-group", {},
              Gets({<<"ec2-vpc", "id">>}, "in") \cup LinkedSecurityGroups),
            {<<"name">>})

Snapshot == Ec2("ec2-snapshot", {}, Gets({<<"ec2-volume", "id">>}, "both"))

Subnet == Ec2("ec2-subnet", {<<"subnet", "id">>}, Gets({<<"ec2-vpc", "id">>}, "in"))

\* mutant: an instance is not affected by its volumes
VolumeUnused == Ec2("ec2-volume", {}, Gets({<<"ec2-instance", "id">>}, "in"))

Volume == Ec2("ec2-volume", {}, Gets({<<"ec2-instance", "id">>}, "both"))

VolumeStatus ==
  Ec2("ec2-volume-status", {},
    Gets({<<"ec2-volume", "id">>, <<"ec2-instance", "id">>}, "both"))

Vpc == Ec2("ec2-vpc", {}, {})

VpcPeeringConnection ==
  Ec2("ec2-vpc-peering-connection", {}, GetsThere({<<"ec2-vpc", "id">>}, "in"))

AutoScalingGroupLinks ==
  Gets({<<"ec2-launch-template", "id">>}, "in") \cup ByArn({"iam-role"}, "in")
  \cup ByArn({"elbv2-target-group"}, "out")
  \cup Gets({<<"ec2-instance", "id">>, <<"autoscaling-launch-configuration", "name">>,
             <<"ec2-placement-group", "name">>}, "both")

AutoScalingGroup ==
  Describe("autoscaling-auto-scaling-group", <<"name">>,
           {<<"autoScalingGroup", "uuid", "autoScalingGroupName", "name">>},
           AutoScalingGroupLinks)

AccessPoint ==
  Describe("efs-access-point", <<"id">>, {<<"access-point", "id">>},
           Gets({<<"efs-file-system", "id">>}, "both"))

\* Named by its file system.
BackupPolicy == Describe("efs-backup-policy", <<"id">>, {}, {})

FileSystem ==
  Describe("efs-file-system", <<"id">>, {<<"file-system", "id">>},
           Gets({<<"efs-backup-policy", "id">>}, "in") \cup ByArn({"kms-key"}, "in")
           \cup Searches({<<"efs-mount-target", "fileSystemId">>}, "both"))

MountTarget ==
  Searching(
    Describe("efs-mount-target", <<"id">>, {},
             Gets({<<"efs-file-system", "id">>}, "none") \cup Net({"ip"}, "both")
             \cup Gets({<<"ec2-subnet", "id">>, <<"ec2-vpc", "id">>}, "in")
             \cup Gets({<<"ec2-network-interface", "id">>}, "both")),
    {<<"fileSystemId">>})

\* Named by its source file system.
ReplicationConfiguration ==
  Describe("efs-replication-configuration", <<"id">>, {},
           GetsThere({<<"efs-file-system", "id">>}, "none")
           \cup GetsThere({<<"efs-file-system", "id">>}, "out")
           \cup ByArn({"efs-file-system"}, "in"))

\* The sources cmd/root.go starts: NewSecurityGroupRuleSource is not among them.
ComputeAdapters ==
  {Address, CapacityReservation, CapacityReservationFleet,
   EgressOnlyInternetGateway, IamInstanceProfileAssociation, Image, Instance,
   InstanceEventWindow, InstanceStatus, InternetGateway, KeyPair, LaunchTemplate,
   LaunchTemplateVersion, NatGateway, NetworkAcl, NetworkInterface,
   NetworkInterfacePermission, PlacementGroup, ReservedInstance, RouteTable,
   SecurityGroup, Snapshot, Subnet, Volume, VolumeStatus, Vpc,
   VpcPeeringConnection, AutoScalingGroup, AccessPoint, BackupPolicy, FileSystem,
   MountTarget, ReplicationConfiguration}
=============================================================================
