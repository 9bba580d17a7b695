-------------------------- MODULE DeliveryAdapters --------------------------
(***************************************************************************)
(* The adapters of sources/elb, sources/elbv2, sources/route53,            *)
(* sources/cloudfront and sources/s3.                                      *)
(***************************************************************************)
EXTENDS Adapters

\* No link of a classic load balancer says how a change propagates.
ElbLoadBalancerLinks ==
  Net({"dns"}, "none")
  \cup Gets({<<"route53-hosted-zone", "id">>, <<"ec2-subnet", "id">>, <<"ec2-vpc", "id">>,
             <<"ec2-instance", "id">>, <<"elb-instance-health", "loadBalancer", "instance">>,
             <<"ec2-security-group", "id">>}, "none")
  \cup Searches({<<"ec2-security-group", "name">>}, "none")

ElbLoadBalancer == Describe("elb-load-balancer", <<"name">>, {}, ElbLoadBalancerLinks)

\* GET wants the load balancer and the instance, the items know the instance only.
InstanceHealth ==
  KnownAs(Describe("elb-instance-health", <<"loadBalancer", "instance">>, {},
                   Gets({<<"ec2-instance", "id">>}, "both")),
          <<"instance">>)

\* Where an action of a listener or a rule sends requests, or who vouches for them.
ActionToRequests ==
  ByArn({"cognito-idp-user-pool"}, "in") \cup Net({"http"}, "in")
  \cup ByArn({"elbv2-target-group"}, "both") \cup Net({"http"}, "both")

LoadBalancerLinks ==
  Searches({<<"elbv2-target-group", "loadBalancerArn">>,
            <<"elbv2-listener", "loadBalancerArn">>}, "both")
  \cup Net({"dns", "ip"}, "both")
  \cup Gets({<<"route53-hosted-zone", "id">>, <<"ec2-vpc", "id">>, <<"ec2-subnet", "id">>,
             <<"ec2-security-group", "id">>, <<"ec2-coip-pool", "id">>}, "in")
  \cup Gets({<<"ec2-address", "allocationId">>}, "both")

LoadBalancer ==
  Describe("elbv2-load-balancer", <<"name">>, {<<"loadbalancer", "app", "name", "id">>},
           LoadBalancerLinks)

ListenerLinks ==
  ByArn({"elbv2-load-balancer"}, "both")
  \cup {Link("elbv2-rule", "SEARCH", <<"listenerArn">>, "target", "both")}
  \cup ByArn({"acm-certificate"}, "in") \cup ActionToRequests

Listener ==
  Searching(Describe("elbv2-listener", <<"arn">>,
                     {<<"listener", "app", "name", "id", "listenerId">>}, ListenerLinks),
            {<<"loadBalancerArn">>})

Rule ==
  Searching(Describe("elbv2-rule", <<"arn">>,
                     {<<"listener-rule", "app", "name", "id", "listenerId", "ruleId">>},
                     ActionToRequests),
            {<<"listenerArn">>})

\* A search by the ARN of a group or of a load balancer.
TargetGroup ==
  Searching(Describe("elbv2-target-group", <<"name">>, {<<"targetgroup", "name", "id">>},
                     Searches({<<"elbv2-target-health", "targetGroupArn">>}, "both")
                     \cup Gets({<<"ec2-vpc", "id">>}, "in")
                     \cup ByArn({"elbv2-load-balancer"}, "both")),
            {<<"arn">>, <<"loadBalancerArn">>})

\* A target is a function, a load balancer, an address or an instance, by its id.
TargetHealthLinks ==
  ByArn({"lambda-function", "elbv2-load-balancer"}, "both") \cup Net({"ip"}, "both")
  \cup Gets({<<"ec2-instance", "id">>}, "both")

TargetHealth ==
  Searching(Describe("elbv2-target-health", <<"targetGroupArn", "id", "zone", "port">>, {},
                     TargetHealthLinks),
            {<<"targetGroupArn">>})

HealthCheck ==
  GetList("route53-health-check", <<"id">>, {}, Searches({<<"cloudwatch-alarm", "metric">>}, "both"))

HostedZone ==
  GetList("route53-hosted-zone", <<"id">>, {},
          Searches({<<"route53-resource-record-set", "hostedZoneId">>}, "in"))

\* GET is not supported.
ResourceRecordSet ==
  Searching(Taking(GetList("route53-resource-record-set", <<"name">>, {}, Net({"dns"}, "both")),
                   {}),
            {<<"hostedZoneId">>})

CachePolicy == GlobalToo(GetList("cloudfront-cache-policy", <<"id">>, {}, {}))

ContinuousDeploymentPolicy ==
  GlobalToo(GetList("cloudfront-continuous-deployment-policy", <<"id">>, {}, Net({"dns"}, "both")))

\* What one cache behaviour of a distribution names.
CacheBehaviorLinks ==
  Gets({<<"cloudfront-cache-policy", "id">>, <<"cloudfront-field-level-encryption", "id">>,
        <<"cloudfront-origin-request-policy", "id">>,
        <<"cloudfront-response-headers-policy", "id">>, <<"cloudfront-key-group", "id">>}, "in")
  \cup ByArn({"cloudfront-realtime-log-config"}, "in")
  \cup ByArn({"cloudfront-function", "lambda-function"}, "both")

\* The default behaviour asks for its log config by GET of the ARN.
DefaultCacheBehaviorLinks ==
  (CacheBehaviorLinks \ ByArn({"cloudfront-realtime-log-config"}, "in"))
  \cup GetsThere({<<"cloudfront-realtime-log-config", "arn">>}, "in")

OriginLinks ==
  Net({"dns"}, "both") \cup GetsInAccount({<<"s3-bucket", "name">>}, "both")
  \cup Gets({<<"cloudfront-origin-access-control", "id">>,
             <<"cloudfront-cloud-front-origin-access-identity", "id">>}, "in")

\* A web ACL is one of WAFv2 if it is given by an ARN.
ViewerCertificateLinks ==
  Net({"dns"}, "both") \cup ByArn({"acm-certificate", "wafv2-web-acl"}, "in")
  \cup Gets({<<"iam-server-certificate", "id">>, <<"waf-web-acl", "id">>}, "in")

DistributionLinks ==
  Net({"dns"}, "both") \cup Gets({<<"cloudfront-key-group", "id">>}, "in")
  \cup Gets({<<"cloudfront-continuous-deployment-policy", "id">>}, "both")
  \cup CacheBehaviorLinks \cup OriginLinks \cup DefaultCacheBehaviorLinks
  \cup ViewerCertificateLinks

Distribution ==
  Global(AlwaysGet("cloudfront-distribution", <<"id">>, {<<"distribution", "id">>},
                   DistributionLinks))

CloudFrontFunction ==
  Global(GetList("cloudfront-function", <<"name">>, {<<"function", "name">>}, {}))

KeyGroup == Global(GetList("cloudfront-key-group", <<"id">>, {}, {}))

OriginAccessControl == Global(GetList("cloudfront-origin-access-control", <<"id">>, {}, {}))

OriginRequestPolicy == Global(GetList("cloudfront-origin-request-policy", <<"id">>, {}, {}))

ResponseHeadersPolicy == Global(GetList("cloudfront-response-headers-policy", <<"id">>, {}, {}))

RealtimeLogConfigs ==
  Global(GetList("cloudfront-realtime-log-config", <<"name">>, {<<"realtime-log-config", "name">>},
                 ByArn({"iam-role"}, "in") \cup ByArn({"kinesis-stream"}, "both")))

StreamingDistribution ==
  Global(AlwaysGet("cloudfront-streaming-distribution", <<"id">>,
                   {<<"streaming-distribution", "id">>},
                   Net({"dns"}, "both")
                   \cup Gets({<<"cloudfront-cloud-front-origin-access-identity", "id">>}, "in")))

\* Where notifications and logs go, and where inventories and analyses are stored.
BucketLinks ==
  Net({"http"}, "both")
  \cup ByArn({"lambda-function", "sqs-queue", "sns-topic", "s3-bucket"}, "both")
  \cup Gets({<<"s3-bucket", "name">>}, "both")

\* A source of its own, not one of the three. The ARN of a bucket names neither
\* account nor region, and has no type before the name.
Bucket ==
  Global([Adapter("s3-bucket", "s3", {"account"}, <<"name">>, {<<"name">>}, BucketLinks)
            EXCEPT !.arnScope = "none"])

\* The sources that are added for the first region alone.
GlobalAdapters ==
  {CachePolicy, ContinuousDeploymentPolicy, Distribution, CloudFrontFunction, KeyGroup,
   OriginAccessControl, OriginRequestPolicy, ResponseHeadersPolicy, RealtimeLogConfigs,
   StreamingDistribution, Bucket}

DeliveryAdapters ==
  {ElbLoadBalancer, InstanceHealth, LoadBalancer, Listener, Rule, TargetGroup, TargetHealth,
   HealthCheck, HostedZone, ResourceRecordSet} \cup GlobalAdapters
=============================================================================
