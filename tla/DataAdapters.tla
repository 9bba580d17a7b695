---------------------------- MODULE DataAdapters ----------------------------
(***************************************************************************)
(* The adapters of sources/rds, sources/dynamodb, sources/sns, sources/sqs *)
(* and sources/cloudwatch.                                                 *)
(***************************************************************************)
EXTENDS Adapters

DBClusterLinks ==
  Gets({<<"rds-db-subnet-group", "name">>, <<"ec2-security-group", "id">>,
        <<"route53-hosted-zone", "id">>, <<"rds-option-group", "name">>}, "in")
  \cup Net({"dns"}, "both") \cup ByArn({"rds-db-cluster"}, "both")
  \cup Gets({<<"rds-db-instance", "id">>, <<"kinesis-stream", "name">>}, "both")
  \cup ByArn({"kms-key", "secretsmanager-secret", "iam-role"}, "in")

DBCluster == Describe("rds-db-cluster", <<"id">>, {<<"cluster", "id">>}, DBClusterLinks)

DBClusterParameterGroup ==
  GetList("rds-db-cluster-parameter-group", <<"name">>, {<<"cluster-pg", "name">>}, {})

DBInstanceLinks ==
  Net({"dns"}, "both")
  \cup Gets({<<"route53-hosted-zone", "id">>, <<"ec2-security-group", "id">>,
             <<"rds-db-parameter-group", "name">>, <<"rds-db-subnet-group", "name">>,
             <<"kms-key", "id">>}, "in")
  \cup Gets({<<"rds-db-cluster", "id">>, <<"kinesis-stream", "name">>}, "both")

\* The rest of them: monitoring, backups, roles and secrets.
DBInstanceServiceLinks ==
  ByArn({"kms-key", "iam-role", "iam-instance-profile", "secretsmanager-secret"}, "in")
  \cup ByArn({"logs-log-stream", "backup-recovery-point",
              "rds-db-instance-automated-backup"}, "both")

DBInstance ==
  Describe("rds-db-instance", <<"id">>, {<<"db", "id">>},
           DBInstanceLinks \cup DBInstanceServiceLinks)

DBParameterGroup == GetList("rds-db-parameter-group", <<"name">>, {<<"pg", "name">>}, {})

DBSubnetGroup ==
  Describe("rds-db-subnet-group", <<"name">>, {<<"subgrp", "name">>},
           Gets({<<"ec2-vpc", "id">>, <<"ec2-subnet", "id">>}, "in")
           \cup ByArn({"outposts-outpost"}, "in"))

OptionGroup == Describe("rds-option-group", <<"name">>, {<<"og", "name">>}, {})

\* GET is not supported; backups are searched for by their table.
Backup ==
  Searching(Taking(AlwaysGet("dynamodb-backup", <<"name">>, {<<"table", "tableName", "backup", "id">>},
                             Gets({<<"dynamodb-table", "name">>}, "both")),
                   {}),
            {<<"tableName">>})

Table ==
  AlwaysGet("dynamodb-table", <<"name">>, {<<"table", "name">>},
            ByArn({"kinesis-stream"}, "both")
            \cup ByArn({"backup-recovery-point", "dynamodb-table", "kms-key"}, "in"))

DataProtectionPolicy ==
  AlwaysGet("sns-data-protection-policy", <<"arn">>, {}, Gets({<<"sns-topic", "arn">>}, "both"))

Endpoint ==
  Searching(AlwaysGet("sns-endpoint", <<"arn">>, {<<"endpoint", "platform", "application", "uuid">>},
                      {}),
            {<<"platformApplicationArn">>})

PlatformApplication ==
  AlwaysGet("sns-platform-application", <<"arn">>, {<<"app", "platform", "name">>},
            Searches({<<"sns-endpoint", "platformApplicationArn">>}, "out"))

Subscription ==
  AlwaysGet("sns-subscription", <<"arn">>, {<<"topic", "id">>},
            Gets({<<"sns-topic", "arn">>}, "in") \cup ByResourceID({"iam-role"}, "in"))

\* The ARN of a topic is what GET takes; its resource has no type.
Topic == AlwaysGet("sns-topic", <<"arn">>, {<<"name">>}, Gets({<<"kms-key", "id">>}, "in"))

Queue == AlwaysGet("sqs-queue", <<"url">>, {<<"name">>}, {})

\* What the dimensions of a metric say it is of. A service is asked for by its
\* name alone, a certificate by its ARN.
SuggestedQuery ==
  Gets({<<"route53-hosted-zone", "id">>, <<"route53-health-check", "id">>,
        <<"lambda-function", "name">>, <<"dynamodb-table", "name">>, <<"ecs-service", "name">>,
        <<"ecs-cluster", "name">>, <<"elb-load-balancer", "name">>, <<"ec2-instance", "id">>,
        <<"autoscaling-auto-scaling-group", "name">>, <<"ec2-image", "id">>,
        <<"rds-db-instance", "id">>, <<"rds-db-cluster", "id">>, <<"ec2-volume", "id">>,
        <<"elbv2-target-group", "name">>, <<"elbv2-load-balancer", "name">>,
        <<"backup-backup-vault", "name">>, <<"ec2-nat-gateway", "id">>,
        <<"acm-certificate", "arn">>, <<"efs-file-system", "id">>}, "out")
  \cup GetsInAccount({<<"s3-bucket", "name">>}, "out")

actionToLink ==
  ByArn({"autoscaling-policy", "sns-topic", "ssm-ops-item", "ssm-incidents-response-plan"}, "out")

\* A search takes a metric.
Alarm ==
  Searching(Describe("cloudwatch-alarm", <<"name">>, {<<"alarm", "name">>},
                     actionToLink \cup ByResourceID({"cloudwatch-alarm"}, "in")
                     \cup SuggestedQuery),
            {<<"metric">>})

DataAdapters ==
  {DBCluster, DBClusterParameterGroup, DBInstance, DBParameterGroup, DBSubnetGroup, OptionGroup,
   Backup, Table, DataProtectionPolicy, Endpoint, PlatformApplication, Subscription, Topic,
   Queue, Alarm}
=============================================================================
