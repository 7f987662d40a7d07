---------------------------- MODULE ResourceTypes ----------------------------
(***************************************************************************)
(* What arn/arn.go knows of the resource types that `grafiti parse' prints *)
(* and `grafiti tag' tags.                                                 *)
(***************************************************************************)

\* MapResourceTypeToARN: types whose ARN is put together from the name, the region
\* and the account, or read from the event (trails).
HasARN ==
  { "Certificate", "Trail", "Pipeline",
    "AMI", "CustomerGateway", "DHCPOptions", "Host", "Instance", "InternetGateway",
    "KeyPair", "NetworkACL", "NetworkInterface", "PlacementGroup", "RouteTable",
    "SecurityGroup", "Snapshot", "Subnet", "Volume", "VPC", "VPCPeeringConnection",
    "VPNConnection", "VPNGateway", "LoadBalancer",
    "IAMGroup", "IAMMfaDevice", "IAMOpenIDConnectProvider", "IAMSamlProvider",
    "IAMServerCertificate",
    "RedshiftCluster", "RedshiftClusterParameterGroup",
    "RedshiftClusterSecurityGroup", "RedshiftClusterSubnetGroup",
    "DBCluster", "DBClusterParameterGroup", "DBClusterSnapshot", "DBInstance",
    "DBOptionGroup", "DBParameterGroup", "DBSecurityGroup", "DBSnapshot",
    "DBSubnetGroup", "DBEventSubscription",
    "HostedZone", "S3Bucket" }

\* The type whose ARN AWS has to be asked for: it holds an id that is not the name.
AsksForARN == {"AutoScalingGroup"}

UntaggableResourceTypes ==
  { "LaunchConfiguration", "ScalingPolicy", "ScheduledAction", "IAMInstanceProfile",
    "IAMUser", "IAMRole", "IAMPolicy", "IAMGroup", "IAMMfaDevice", "IAMAccountAlias" }

RGTAUnsupportedResourceTypes == {"HostedZone", "AutoScalingGroup"}
=============================================================================
