------------------------------ MODULE Deleters ------------------------------
(***************************************************************************)
(* The ResourceDeleter implementations of package deleter, as data.        *)
(*                                                                         *)
(* Every DeleteResources method is the same loop with different choices;   *)
(* a deleter is the record of the choices it makes, and DeleteRun gives    *)
(* the loop.  The choices are:                                             *)
(*   selects    "names": the loop runs over ResourceNames as they are;     *)
(*              "filter": over what a Describe call, filtered by those     *)
(*              names, returns; "each": one Describe call per name         *)
(*   hides      what the listing leaves out: resources with such a mark    *)
(*   kids       types deleted as part of the resource, in this order       *)
(*   kidStates  states of the kids for which a call is made                *)
(*   order      "itemByItem": the kids of a resource, then the resource;   *)
(*              "kidsFirst": the kids of every resource before any resource*)
(*   asksKids   kids come from a listing of their own, one per resource    *)
(*   kidError   what a failed kid does to a run that stops at errors:      *)
(*              "return" the error or go on with the "nextItem"            *)
(*   batch      one call deletes everything that was listed                *)
(*   waits      "no", "terminated" (EC2 waiter) or "polled" (own loop)     *)
(*   dryRun     "flag": the request carries DryRun; "local": no request is *)
(*              made; "unchecked": neither                                 *)
(*   tolerates  a .NotFound error counts as done                           *)
(* Resource types have the short names of their ARN constants.  S3Bucket   *)
(* and HostedZone, whose DeleteResources is not this loop, are not here.   *)
(***************************************************************************)
EXTENDS Sequences

\* With the elastic IPs before their associations.
DeleteOrderSwapped ==
  << "VPC", "VPNGateway", "SecurityGroup", "RouteTable", "Subnet", "Volume",
     "CustomerGateway", "VPNConnection", "NetworkACL", "NetworkInterface",
     "InternetGateway", "IAMUser", "IAMRole", "IAMInstanceProfile",
     "LaunchConfiguration", "EIPAssociation", "EIP", "NatGateway",
     "LoadBalancer", "AutoScalingGroup", "Instance", "RouteTableAssociation",
     "HostedZone", "S3Bucket" >>

DeleteOrder ==
  << "VPC", "VPNGateway", "SecurityGroup", "RouteTable", "Subnet", "Volume",
     "CustomerGateway", "VPNConnection", "NetworkACL", "NetworkInterface",
     "InternetGateway", "IAMUser", "IAMRole", "IAMInstanceProfile",
     "LaunchConfiguration", "EIP", "EIPAssociation", "NatGateway",
     "LoadBalancer", "AutoScalingGroup", "Instance", "RouteTableAssociation",
     "HostedZone", "S3Bucket" >>

(***************************************************************************)
(* The two common forms.                                                   *)
(***************************************************************************)
DeletesNames ==
  [ selects |-> "names", hides |-> {}, kids |-> << >>, kidStates |-> {"live", "going"},
    order |-> "itemByItem", asksKids |-> FALSE, kidError |-> "return",
    batch |-> FALSE, waits |-> "no", dryRun |-> "flag", tolerates |-> FALSE ]

DeletesListed(hidden) == [DeletesNames EXCEPT !.selects = "filter", !.hides = hidden]

(***************************************************************************)
(* EC2                                                                     *)
(***************************************************************************)
CustomerGatewayDeleter == DeletesListed({"deleting"})

EIPDeleter == DeletesNames

EIPAssociationDeleter == [DeletesNames EXCEPT !.tolerates = TRUE]

\* An interface whose attachment is not being undone is passed over (not in a
\* dry run), so only attachments that are already "detaching" are detached.
NetworkInterfaceDeleter ==
  [DeletesListed({"in use"}) EXCEPT !.kids = <<"NetworkInterfaceAttachment">>]

NetworkInterfaceAttachmentDeleter == DeletesNames

\* The entry deleter is built without entries, so it never makes a call.
NetworkACLDeleter == DeletesListed({"default"})

InstanceDeleter ==
  [DeletesListed({"deleting"}) EXCEPT !.batch = TRUE, !.waits = "terminated"]

InternetGatewayDeleter ==
  [DeletesListed({}) EXCEPT
     !.kids = <<"InternetGatewayAttachment">>, !.order = "kidsFirst"]

InternetGatewayAttachmentDeleter == DeletesNames

NatGatewayDeleterUnawaited ==
  [DeletesListed({"deleting"}) EXCEPT !.dryRun = "local"]

NatGatewayDeleter ==
  [DeletesListed({"deleting"}) EXCEPT !.waits = "polled", !.dryRun = "local"]

RouteTableDeleter ==
  [DeletesListed({"main"}) EXCEPT !.kids = <<"Route">>, !.order = "kidsFirst"]

RouteDeleter == DeletesNames

RouteTableAssociationDeleter == DeletesNames

SecurityGroupDeleterOfAll ==
  [DeletesListed({}) EXCEPT
     !.kids = <<"SecurityGroupIngress", "SecurityGroupEgress">>, !.order = "kidsFirst"]

SecurityGroupDeleter ==
  [DeletesListed({"default"}) EXCEPT
     !.kids = <<"SecurityGroupIngress", "SecurityGroupEgress">>,
     !.order = "kidsFirst"]

SecurityGroupIngressDeleter == DeletesNames

SecurityGroupEgressDeleter == DeletesNames

SubnetDeleter == DeletesListed({"default"})

VolumeDeleter == DeletesListed({"attached"})

VPCDeleter ==
  [DeletesListed({"default"}) EXCEPT !.kids = <<"VPCCIDRAssociation">>]

VPCCIDRAssociationDeleter == [DeletesNames EXCEPT !.dryRun = "local"]

VPNConnectionDeleter ==
  [DeletesListed({"deleting"}) EXCEPT
     !.kids = <<"VPNConnectionRoute">>, !.kidStates = {"live"}]

\* DeleteVpnConnectionRoute has no DryRun parameter and nothing else is tested.
VPNConnectionRouteDeleter == [DeletesNames EXCEPT !.dryRun = "unchecked"]

VPNGatewayDeleter ==
  [DeletesListed({"deleting"}) EXCEPT
     !.kids = <<"VPNGatewayAttachment">>, !.kidStates = {"live"}]

VPNGatewayAttachmentDeleter == DeletesNames

(***************************************************************************)
(* Auto scaling, load balancing                                            *)
(***************************************************************************)
AutoScalingGroupDeleterUnchecked == [DeletesNames EXCEPT !.dryRun = "unchecked"]

AutoScalingGroupDeleter == [DeletesNames EXCEPT !.dryRun = "local"]

LaunchConfigurationDeleter == [DeletesNames EXCEPT !.dryRun = "local"]

LoadBalancerDeleter ==
  [DeletesListed({}) EXCEPT !.selects = "each", !.dryRun = "local"]

(***************************************************************************)
(* IAM                                                                     *)
(***************************************************************************)
IAMInstanceProfileDeleter ==
  [DeletesListed({}) EXCEPT
     !.kids = <<"IAMRoleMembership">>, !.order = "kidsFirst", !.dryRun = "local"]

IAMRoleMembershipDeleter == [DeletesNames EXCEPT !.dryRun = "local"]

IAMRoleDeleter ==
  [DeletesListed({}) EXCEPT
     !.kids = <<"IAMRolePolicy">>, !.asksKids = TRUE, !.kidError = "nextItem",
     !.dryRun = "local"]

IAMRolePolicyDeleter == [DeletesNames EXCEPT !.dryRun = "local"]

(***************************************************************************)
(* InitResourceDeleter: the deleter of each type.                          *)
(***************************************************************************)
InitResourceDeleter ==
  [ AutoScalingGroup           |-> AutoScalingGroupDeleter,
    LaunchConfiguration        |-> LaunchConfigurationDeleter,
    CustomerGateway            |-> CustomerGatewayDeleter,
    EIP                        |-> EIPDeleter,
    EIPAssociation             |-> EIPAssociationDeleter,
    Instance                   |-> InstanceDeleter,
    InternetGatewayAttachment  |-> InternetGatewayAttachmentDeleter,
    InternetGateway            |-> InternetGatewayDeleter,
    NatGateway                 |-> NatGatewayDeleter,
    NetworkACL                 |-> NetworkACLDeleter,
    NetworkInterface           |-> NetworkInterfaceDeleter,
    NetworkInterfaceAttachment |-> NetworkInterfaceAttachmentDeleter,
    RouteTableAssociation      |-> RouteTableAssociationDeleter,
    RouteTable                 |-> RouteTableDeleter,
    Route                      |-> RouteDeleter,
    SecurityGroup              |-> SecurityGroupDeleter,
    SecurityGroupIngress       |-> SecurityGroupIngressDeleter,
    SecurityGroupEgress        |-> SecurityGroupEgressDeleter,
    Subnet                     |-> SubnetDeleter,
    Volume                     |-> VolumeDeleter,
    VPCCIDRAssociation         |-> VPCCIDRAssociationDeleter,
    VPC                        |-> VPCDeleter,
    VPNGateway                 |-> VPNGatewayDeleter,
    VPNGatewayAttachment       |-> VPNGatewayAttachmentDeleter,
    VPNConnection              |-> VPNConnectionDeleter,
    VPNConnectionRoute         |-> VPNConnectionRouteDeleter,
    LoadBalancer               |-> LoadBalancerDeleter,
    IAMInstanceProfile         |-> IAMInstanceProfileDeleter,
    IAMRoleMembership          |-> IAMRoleMembershipDeleter,
    IAMRole                    |-> IAMRoleDeleter,
    IAMRolePolicy              |-> IAMRolePolicyDeleter ]
=============================================================================
