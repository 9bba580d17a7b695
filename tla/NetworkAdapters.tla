--------------------------- MODULE NetworkAdapters ---------------------------
(***************************************************************************)
(* The adapters of sources/directconnect, sources/networkfirewall,         *)
(* sources/networkmanager and sources/iam.                                 *)
(***************************************************************************)
EXTENDS Adapters

\* A connection, hosted or not.
ConnectionLinks ==
  Gets({<<"directconnect-lag", "id">>}, "both")
  \cup Gets({<<"directconnect-location", "code">>, <<"directconnect-loa", "id">>}, "in")
  \cup Searches({<<"directconnect-virtual-interface", "connectionId">>}, "out")

Connection == Describe("directconnect-connection", <<"id">>, {}, ConnectionLinks)

\* GET takes no notice of the name: it asks for all of them, and answers only if
\* there is just one. Here there may always be more.
AnyName(adapter) == Taking(adapter, {})

CustomerMetadata == AnyName(Describe("directconnect-customer-metadata", <<"name">>, {}, {}))

GatewayAssociationProposal ==
  Describe("directconnect-direct-connect-gateway-association-proposal", <<"id">>, {},
    Gets({<<"directconnect-direct-connect-gateway-association", "gatewayId",
            "associatedGatewayId">>}, "both"))

\* GET takes the gateways, or the one associated, and never the id the items have.
GatewayAssociation ==
  Searching(
    Taking(Describe("directconnect-direct-connect-gateway-association", <<"associationId">>, {},
                    GetsGlobally({<<"directconnect-direct-connect-gateway", "id">>}, "in")
                    \cup Gets({<<"directconnect-virtual-gateway", "id">>}, "in")),
           {<<"gatewayId", "associatedGatewayId">>, <<"associatedGatewayId">>}),
    {<<"gatewayId">>})

GatewayAttachment ==
  Searching(Describe("directconnect-direct-connect-gateway-attachment",
                     <<"gatewayId", "virtualInterfaceId">>, {},
                     GetsGlobally({<<"directconnect-direct-connect-gateway", "id">>}, "in")
                     \cup Gets({<<"directconnect-virtual-interface", "id">>}, "in")),
            {<<"virtualInterfaceId">>})

Gateway ==
  Describe("directconnect-direct-connect-gateway", <<"id">>, {<<"dx-gateway", "id">>}, {})

HostedConnection ==
  Searching(Describe("directconnect-hosted-connection", <<"id">>, {}, ConnectionLinks),
            {<<"parentId">>})

Interconnect ==
  Describe("directconnect-interconnect", <<"id">>, {},
           Searches({<<"directconnect-hosted-connection", "parentId">>}, "both")
           \cup Gets({<<"directconnect-lag", "id">>}, "both")
           \cup Gets({<<"directconnect-loa", "id">>, <<"directconnect-location", "code">>}, "in"))

Lag ==
  Describe("directconnect-lag", <<"id">>, {},
           Gets({<<"directconnect-connection", "id">>}, "both")
           \cup Searches({<<"directconnect-hosted-connection", "parentId">>}, "both")
           \cup Gets({<<"directconnect-location", "code">>}, "in"))

Location == AnyName(Describe("directconnect-location", <<"code">>, {}, {}))

\* Named by its virtual interface.
RouterConfiguration ==
  Describe("directconnect-router-configuration", <<"id">>, {},
           Gets({<<"directconnect-virtual-interface", "id">>}, "both"))

VirtualGateway == AnyName(Describe("directconnect-virtual-gateway", <<"id">>, {}, {}))

VirtualInterfaceLinks ==
  Gets({<<"directconnect-connection", "id">>}, "in")
  \cup GetsGlobally({<<"directconnect-direct-connect-gateway", "id">>}, "in")
  \cup Net({"rdap-ip-network"}, "both")
  \cup Gets({<<"directconnect-direct-connect-gateway-attachment", "gatewayId",
               "virtualInterfaceId">>}, "out")
  \cup Searches({<<"directconnect-direct-connect-gateway-attachment", "virtualInterfaceId">>},
                "out")

VirtualInterface ==
  Searching(Describe("directconnect-virtual-interface", <<"id">>, {}, VirtualInterfaceLinks),
            {<<"connectionId">>})

\* By ARN, or by id in the account itself.
encryptionConfigurationLink == ByArn({"kms-key"}, "in") \cup Gets({<<"kms-key", "id">>}, "in")

\* The firewall's search is a GET by ARN, and so is that of what follows.
NetworkFirewall(type, arns, links) ==
  Searching(AlwaysGet(type, <<"name">>, arns, links), {<<"arn">>})

\* The policy asked for is the document of the firewall's policy.
FirewallLinks ==
  Gets({<<"logs-log-group", "name">>, <<"s3-bucket", "name">>,
        <<"firehose-delivery-stream", "name">>}, "out")
  \cup Gets({<<"iam-policy", "document">>, <<"ec2-subnet", "id">>, <<"ec2-vpc", "id">>}, "in")
  \cup ByArn({"network-firewall-firewall-policy"}, "in") \cup encryptionConfigurationLink

Firewall == NetworkFirewall("network-firewall-firewall", {<<"firewall", "name">>}, FirewallLinks)

FirewallPolicy ==
  NetworkFirewall("network-firewall-firewall-policy", {},
    encryptionConfigurationLink
    \cup ByArn({"network-firewall-rule-group",
                "network-firewall-tls-inspection-configuration"}, "in"))

RuleGroup ==
  NetworkFirewall("network-firewall-rule-group",
    {<<"stateful-rulegroup", "name">>, <<"stateless-rulegroup", "name">>},
    encryptionConfigurationLink \cup ByArn({"sns-topic"}, "out")
    \cup ByArn({"network-firewall-rule-group"}, "none"))

TLSInspectionConfiguration ==
  NetworkFirewall("network-firewall-tls-inspection-configuration",
    {<<"tls-inspection-configuration", "name">>},
    encryptionConfigurationLink
    \cup ByArn({"acm-pca-certificate-authority-certificate", "acm-certificate",
                "acm-pca-certificate-authority"}, "in"))

GlobalNetwork ==
  Global(Describe("networkmanager-global-network",
    <<"id">>, {<<"global-network", "id">>},
    Searches({<<"networkmanager-site", "globalNetworkId">>}, "both")))

\* The source says it has sites, its items that they are a site.
Site ==
  Yielding(Searching(Global(Describe("networkmanager-sites", <<"globalNetworkId", "id">>, {},
                               Gets({<<"networkmanager-global-network", "id">>}, "both"))),
                     {<<"globalNetworkId">>}),
           "networkmanager-site")

VPCAttachment ==
  Global(GetList("networkmanager-vpc-attachment", <<"id">>, {},
                 Gets({<<"networkmanager-core-network", "id">>}, "both")))

Group == Global(GetList("iam-group", <<"name">>, {<<"group", "name">>}, {}))

InstanceProfile ==
  Global(GetList("iam-instance-profile", <<"name">>, {<<"instance-profile", "name">>},
                 ByArn({"iam-role", "iam-policy"}, "in")))

\* Named by its path and name. Those of AWS are in the scope "aws", and name who
\* has them in that scope.
Policy ==
  GlobalToo(Taking(GetList("iam-policy", <<"path", "name">>,
                           {<<"policy", "path", "name">>, <<"policy", "name">>},
                           Gets({<<"iam-group", "name">>, <<"iam-user", "name">>,
                                 <<"iam-role", "name">>}, "out")),
                   {<<"path", "name">>, <<"name">>}))

\* Named by the name without its path.
Role ==
  Global(GetList("iam-role", <<"name">>, {<<"role", "name">>, <<"role", "path", "name">>},
                 ByArn({"iam-policy"}, "in")))

\* The only one of IAM whose source is given a region, which no ARN of IAM names.
User ==
  WithoutRegion(GetList("iam-user", <<"name">>, {<<"User", "name">>},
                        Gets({<<"iam-group", "name">>}, "in")))

NetworkAdapters ==
  {Connection, CustomerMetadata, GatewayAssociationProposal, GatewayAssociation,
   GatewayAttachment, Gateway, HostedConnection, Interconnect, Lag, Location,
   RouterConfiguration, VirtualGateway, VirtualInterface, Firewall, FirewallPolicy,
   RuleGroup, TLSInspectionConfiguration, GlobalNetwork, Site, VPCAttachment, Group,
   InstanceProfile, Policy, Role, User}
=============================================================================
