----------------------------- MODULE MCDepGraph -----------------------------
(***************************************************************************)
(* Small accounts for DepGraph, written as in MCDeleteRun: one row of      *)
(* TLC's constants for each object, and what AWS links to it.              *)
(***************************************************************************)
EXTENDS DepGraph, TLC

Table == INSTANCE Deleters
MCDeleter == Table!InitResourceDeleter
MCDelOrder == Table!DeleteOrder
MCType == DOMAIN MCDeleter
\* The deleters know most of these by their states "deleting" and "detaching", but
\* wait for instances and NAT gateways only.
MCAsync ==
  {"Instance", "NatGateway", "AutoScalingGroup", "CustomerGateway", "VPNGateway",
   "VPNGatewayAttachment", "VPNConnection", "VPNConnectionRoute",
   "NetworkInterfaceAttachment"}
MCUnawaited == MCAsync \ {"Instance", "NatGateway"}
MCRetryable ==
  {"VPC", "Subnet", "SecurityGroup", "RouteTable", "NetworkACL", "InternetGateway",
   "InternetGatewayAttachment"}
RealConfigs == [DryRun : {FALSE}, IgnoreErrors : BOOLEAN]

Row(type, parent, marks, blockers, cascade, linked) ==
  [type |-> type, parent |-> parent, marks |-> marks, blockers |-> blockers,
   cascade |-> cascade, linked |-> linked]

Thing(type, blockers, linked) == Row(type, "none", {}, blockers, {}, linked)
Part(type, parent) == Row(type, parent, {}, {}, {}, {})
Default(type, linked) == Row(type, "none", {"default"}, {}, {}, linked)

Column(account, f) == [o \in DOMAIN account |-> account[o][f]]

Tagged(account, objects) ==
  [t \in MCType |-> {<<o, 1>> : o \in {p \in objects : account[p].type = t}}]

(***************************************************************************)
(* A VPC that has an instance with a profile and an interface with an      *)
(* address, a route table with an association, a VPN gateway with a        *)
(* connection, and a default group; the default VPC with an instance; an   *)
(* auto scaling group.  Tagged are the VPCs (the default one by mistake)   *)
(* and the group, or the VPC and the other instance, or an instance and    *)
(* the group.                                                              *)
(***************************************************************************)
Account ==
  [ vpc  |-> Thing("VPC", {"i", "eni", "rt", "sg", "vga"},
                   {"i", "eni", "rt", "sg", "dsg", "vgw"}),
    dvpc |-> Default("VPC", {"di"}),
    di   |-> Thing("Instance", {}, {}),
    i    |-> Row("Instance", "none", {}, {}, {"enia"}, {"eni", "prof"}),
    eni  |-> Thing("NetworkInterface", {"enia"}, {"eip", "eipa"}),
    enia |-> Part("NetworkInterfaceAttachment", "eni"),
    eip  |-> Thing("EIP", {"eipa"}, {}),
    eipa |-> Thing("EIPAssociation", {}, {}),
    prof |-> Thing("IAMInstanceProfile", {"mem"}, {"role"}),
    mem  |-> Part("IAMRoleMembership", "prof"),
    role |-> Thing("IAMRole", {"mem"}, {}),
    rt   |-> Thing("RouteTable", {"rta"}, {"rta"}),
    rta  |-> Thing("RouteTableAssociation", {}, {}),
    sg   |-> Thing("SecurityGroup", {"eni"}, {}),
    dsg  |-> Default("SecurityGroup", {}),
    vgw  |-> Thing("VPNGateway", {"vga", "vc"}, {"vc"}),
    vga  |-> Part("VPNGatewayAttachment", "vgw"),
    vc   |-> Thing("VPNConnection", {}, {}),
    asg  |-> Thing("AutoScalingGroup", {}, {"lc"}),
    lc   |-> Thing("LaunchConfiguration", {"asg"}, {"prof"}) ]
AccountObject == DOMAIN Account
AccountTypeOf == Column(Account, "type")
AccountParentOf == Column(Account, "parent")
AccountMarks == Column(Account, "marks")
AccountBlockers == Column(Account, "blockers")
AccountCascade == Column(Account, "cascade")
AccountReplaces == [o \in DOMAIN Account |-> "none"]
AccountLinked == Column(Account, "linked")
AccountResMaps ==
  {Tagged(Account, {"vpc", "dvpc", "asg"}), Tagged(Account, {"vpc", "di"}),
   Tagged(Account, {"i", "asg"})}

(***************************************************************************)
(* Two tagged groups that share a launch configuration.                    *)
(***************************************************************************)
Shared ==
  [ asg1 |-> Thing("AutoScalingGroup", {}, {"lc"}),
    asg2 |-> Thing("AutoScalingGroup", {}, {"lc"}),
    lc   |-> Thing("LaunchConfiguration", {}, {}),
    vpc  |-> Thing("VPC", {}, {}) ]
SharedObject == DOMAIN Shared
SharedTypeOf == Column(Shared, "type")
SharedParentOf == Column(Shared, "parent")
SharedMarks == Column(Shared, "marks")
SharedBlockers == Column(Shared, "blockers")
SharedCascade == Column(Shared, "cascade")
SharedReplaces == [o \in DOMAIN Shared |-> "none"]
SharedLinked == Column(Shared, "linked")
SharedResMaps == {Tagged(Shared, {"asg1", "asg2", "vpc"})}
=============================================================================
