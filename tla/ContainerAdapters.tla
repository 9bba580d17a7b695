------------------------- MODULE ContainerAdapters -------------------------
(***************************************************************************)
(* The adapters of sources/ecs, sources/eks and sources/lambda.            *)
(***************************************************************************)
EXTENDS Adapters

CapacityProvider ==
  Describe("ecs-capacity-provider", <<"name">>, {<<"capacity-provider", "name">>},
           ByArn({"autoscaling-auto-scaling-group"}, "both"))

EcsClusterLinks ==
  Searches({<<"ecs-container-instance", "cluster">>}, "both")
  \cup Searches({<<"ecs-service", "cluster">>, <<"ecs-task", "cluster">>}, "out")
  \cup Gets({<<"kms-key", "id">>}, "in")
  \cup Gets({<<"logs-log-group", "name">>, <<"ecs-capacity-provider", "name">>}, "both")
  \cup GetsInAccount({<<"s3-bucket", "name">>}, "both")

EcsCluster ==
  AlwaysGet("ecs-cluster", <<"name">>, {<<"cluster", "name">>}, EcsClusterLinks)

\* The unique attribute is the whole resource of the ARN, and the search by
\* cluster wants ARNs of two parts where there are three: it finds nothing.
ContainerInstance ==
  Searching(
    KnownAs(AlwaysGet("ecs-container-instance", <<"cluster", "id">>,
                      {<<"container-instance", "cluster", "id">>},
                      Gets({<<"ec2-instance", "id">>}, "both")),
            <<"container-instance", "cluster", "id">>),
    {})

EcsServiceLinks ==
  ByArn({"ecs-cluster", "ecs-task-definition"}, "in")
  \cup ByArn({"elbv2-target-group", "servicediscovery-service"}, "both")
  \cup Gets({<<"ecs-capacity-provider", "name">>, <<"ec2-subnet", "id">>,
             <<"ecs-security-group", "id">>, <<"ec2-security-group", "id">>}, "in")
  \cup Gets({<<"ecs-task-set", "id">>}, "both") \cup Net({"dns"}, "both")

EcsService ==
  Searching(
    KnownAs(AlwaysGet("ecs-service", <<"cluster", "name">>,
                      {<<"service", "cluster", "name">>}, EcsServiceLinks),
            <<"service", "cluster", "name">>),
    {<<"cluster">>})

\* A network interface is asked for by the id of its attachment.
EcsTaskLinks ==
  Gets({<<"ec2-network-interface", "attachmentId">>}, "both")
  \cup ByArn({"ecs-cluster", "ecs-task-definition"}, "in")
  \cup Gets({<<"ecs-container-instance", "cluster", "id">>}, "in")
  \cup Net({"ip"}, "both")

EcsTask ==
  Searching(AlwaysGet("ecs-task", <<"cluster", "id">>, {<<"task", "cluster", "id">>},
                      EcsTaskLinks),
            {<<"cluster">>})

\* A secret is one of Secrets Manager or of SSM, as its ARN says.
SecretLinkedItem == ByArn({"secretsmanager-secret", "ssm-parameter"}, "in")

\* GET takes a family, for its latest revision, or a revision of it.
TaskDefinition ==
  Taking(AlwaysGet("ecs-task-definition", <<"family">>,
                   {<<"task-definition", "family", "revision">>},
                   ByArn({"iam-role"}, "in") \cup SecretLinkedItem),
         {<<"family">>, <<"family", "revision">>})

Addon ==
  Searching(AlwaysGet("eks-addon", <<"cluster", "name">>,
                      {<<"addon", "cluster", "name", "uuid">>}, {}),
            {<<"cluster">>})

EksClusterLinks ==
  Searches({<<"eks-addon", "cluster">>, <<"eks-fargate-profile", "cluster">>,
            <<"eks-nodegroup", "cluster">>}, "both")
  \cup ByArn({"iam-role", "kms-key"}, "in") \cup Net({"http"}, "both")
  \cup Gets({<<"ec2-security-group", "id">>, <<"ec2-subnet", "id">>,
             <<"ec2-vpc", "id">>}, "in")

EksCluster == AlwaysGet("eks-cluster", <<"name">>, {<<"cluster", "name">>}, EksClusterLinks)

\* mutant: the unique attribute is the name without the cluster
FargateProfileByName ==
  KnownAs(SearchingArns(AlwaysGet("eks-fargate-profile", <<"cluster", "name">>, {}, {}),
                        {<<"cluster">>}),
          <<"name">>)

FargateProfile ==
  SearchingArns(AlwaysGet("eks-fargate-profile", <<"cluster", "name">>, {},
                          ByArn({"iam-role"}, "in") \cup Gets({<<"ec2-subnet", "id">>}, "in")),
                {<<"cluster">>})

NodegroupLinks ==
  Gets({<<"ec2-key-pair", "name">>, <<"ec2-security-group", "id">>,
        <<"ec2-subnet", "id">>, <<"ec2-launch-template", "id">>}, "in")
  \cup Gets({<<"autoscaling-auto-scaling-group", "name">>}, "both")

\* GET leaves out what follows the first two parts.
Nodegroup ==
  Taking(SearchingArns(AlwaysGet("eks-nodegroup", <<"cluster", "name">>,
                                 {<<"nodegroup", "cluster", "name", "uuid">>},
                                 NodegroupLinks),
                       {<<"cluster">>}),
         {<<"cluster", "name">>, <<"cluster", "name", "uuid">>})

\* Where the failed or the successful events of a function go.
EventLinkedItem ==
  ByArn({"sns-topic", "sqs-queue", "lambda-function", "events-event-bus"}, "both")

\* Who may call it: the service of the principal gives the type. A bucket is
\* searched for in the account of the condition, as its ARN names none.
LinksFromPolicy ==
  GetsThere({<<"sns-topic", "arn">>}, "in")
  \cup ByArn({"elbv2-target-group", "vpc-lattice-target-group", "logs-log-group",
              "events-rule"}, "in")
  \cup {Link("s3-bucket", "SEARCH", <<"arn">>, "account", "in")}

FunctionLinks ==
  Net({"http"}, "in") \cup Net({"http"}, "both")
  \cup ByArn({"iam-role", "kms-key", "signer-signing-job", "signer-signing-profile"}, "in")
  \cup ByArn({"efs-access-point", "lambda-function"}, "both")
  \cup GetsThere({<<"lambda-layer-version", "name", "version">>}, "both")
  \cup Gets({<<"ec2-security-group", "id">>, <<"ec2-subnet", "id">>}, "in")
  \cup Gets({<<"ec2-vpc", "id">>}, "none")

LambdaFunction ==
  AlwaysGet("lambda-function", <<"name">>, {<<"function", "name">>},
            FunctionLinks \cup EventLinkedItem \cup LinksFromPolicy)

\* Layers are listed only.
Layer ==
  Taking(GetList("lambda-layer", <<"name">>, {},
                 Gets({<<"lambda-layer-version", "name", "version">>}, "both")),
         {})

\* The unique attribute is formatted with the pointer to the version.
LayerVersion ==
  KnownAs(AlwaysGet("lambda-layer-version", <<"name", "version">>, {},
                    ByArn({"signer-signing-job", "signer-signing-profile"}, "in")),
          <<"name", "versionAddress">>)

ContainerAdapters ==
  {CapacityProvider, EcsCluster, ContainerInstance, EcsService, EcsTask,
   TaskDefinition, Addon, EksCluster, FargateProfile, Nodegroup, LambdaFunction,
   Layer, LayerVersion}
=============================================================================
