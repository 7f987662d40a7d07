----------------------------- MODULE MCDeleteRun -----------------------------
(***************************************************************************)
(* Small accounts for DeleteRun.  An account is a set of objects given by  *)
(* one row each.                                                           *)
(***************************************************************************)
EXTENDS DeleteRunIsSafe, TLC

Table == INSTANCE Deleters
MCDeleter == Table!InitResourceDeleter
MCDelOrder == Table!DeleteOrder
MCType == DOMAIN MCDeleter
\* The deleters know most of these by their states "deleting" and "detaching", but
\* wait for instances and NAT gateways only.
MCAsync ==
  {"Instance", "NatGateway", "AutoScalingGroup", "CustomerGateway", "VPNGateway",
   "VPNGatewayAttachment", "VPNConnection", "VPNConnectionRoute",
   "NetworkInterfaceAttachment"}
MCUnawaited == MCAsync \ {"Instance", "NatGateway"}
MCRetryable ==
  {"VPC", "Subnet", "SecurityGroup", "RouteTable", "NetworkACL", "InternetGateway",
   "InternetGatewayAttachment"}

AllConfigs == [DryRun : BOOLEAN, IgnoreErrors : BOOLEAN]
RealConfigs == {c \in AllConfigs : ~c.DryRun}

Row(type, parent, marks, blockers, cascade, replaces) ==
  [type |-> type, parent |-> parent, marks |-> marks, blockers |-> blockers,
   cascade |-> cascade, replaces |-> replaces]

Thing(type, blockers) == Row(type, "none", {}, blockers, {}, "none")
Part(type, parent, blockers) == Row(type, parent, {}, blockers, {}, "none")
Default(type) == Row(type, "none", {"default"}, {}, {}, "none")

Column(account, f) == [o \in DOMAIN account |-> account[o][f]]

NamesFrom(account, objects, twice) ==
  [t \in MCType |->
     {<<o, 1>> : o \in {p \in objects : account[p].type = t}} \cup
     {<<o, 2>> : o \in {p \in twice : account[p].type = t}}]

(***************************************************************************)
(* A tagged VPC with --all-deps: an instance, a public subnet, an internet *)
(* gateway, two groups of which one refers to the other, and the default   *)
(* group with a rule of its own.                                           *)
(***************************************************************************)
VpcAccount ==
  [ vpc  |-> Thing("VPC", {"sn", "sg1", "sg2", "igwa"}),
    sn   |-> Thing("Subnet", {"i"}),
    i    |-> Thing("Instance", {}),
    sg1  |-> Thing("SecurityGroup", {"i"}),
    in1  |-> Part("SecurityGroupIngress", "sg1", {}),
    sg2  |-> Thing("SecurityGroup", {"in1"}),
    dsg  |-> Default("SecurityGroup"),
    din  |-> Part("SecurityGroupIngress", "dsg", {}),
    igw  |-> Thing("InternetGateway", {"igwa"}),
    igwa |-> Part("InternetGatewayAttachment", "igw", {"i"}) ]
VpcResMaps ==
  { NamesFrom(VpcAccount, {"vpc", "sn", "i", "sg1", "sg2", "dsg", "igw"}, {}) }

(***************************************************************************)
(* A VPN and a NAT gateway: the connection has a static route, the gateway *)
(* an attachment, and the address of the NAT gateway is associated.        *)
(***************************************************************************)
VpnAccount ==
  [ vgw  |-> Thing("VPNGateway", {"vga", "vc"}),
    vga  |-> Part("VPNGatewayAttachment", "vgw", {}),
    vc   |-> Thing("VPNConnection", {}),
    vr   |-> Part("VPNConnectionRoute", "vc", {}),
    cgw  |-> Thing("CustomerGateway", {"vc"}),
    ngw  |-> Thing("NatGateway", {}),
    eipa |-> Thing("EIPAssociation", {"ngw"}),
    eip  |-> Thing("EIP", {"eipa"}) ]
VpnObject == DOMAIN VpnAccount
VpnTypeOf == Column(VpnAccount, "type")
VpnParentOf == Column(VpnAccount, "parent")
VpnMarks == Column(VpnAccount, "marks")
VpnBlockers == Column(VpnAccount, "blockers")
VpnCascade == Column(VpnAccount, "cascade")
VpnReplaces == Column(VpnAccount, "replaces")
VpnResMaps ==
  { NamesFrom(VpnAccount, {"vgw", "vc", "cgw", "ngw", "eipa", "eip"}, {}) }

(***************************************************************************)
(* Both in one account; a run is given the one or the other.               *)
(***************************************************************************)
NetAccount == VpcAccount @@ VpnAccount
NetObject == DOMAIN NetAccount
NetTypeOf == Column(NetAccount, "type")
NetParentOf == Column(NetAccount, "parent")
NetMarks == Column(NetAccount, "marks")
NetBlockers == Column(NetAccount, "blockers")
NetCascade == Column(NetAccount, "cascade")
NetReplaces == Column(NetAccount, "replaces")
NetResMaps == VpcResMaps \cup VpnResMaps

(***************************************************************************)
(* An auto scaling group with one instance, which it replaces when it is   *)
(* terminated first; the instance has a volume, a second interface and a   *)
(* profile whose role has a policy.                                        *)
(***************************************************************************)
AsgAccount ==
  [ asg  |-> Row("AutoScalingGroup", "none", {}, {}, {"i1", "i2"}, "none"),
    i1   |-> Row("Instance", "none", {}, {}, {"enia"}, "i2"),
    i2   |-> Thing("Instance", {}),
    lc   |-> Thing("LaunchConfiguration", {"asg"}),
    lb   |-> Thing("LoadBalancer", {}),
    vol  |-> Thing("Volume", {"i1"}),
    eni  |-> Thing("NetworkInterface", {"enia"}),
    enia |-> Part("NetworkInterfaceAttachment", "eni", {}),
    prof |-> Thing("IAMInstanceProfile", {"mem"}),
    mem  |-> Part("IAMRoleMembership", "prof", {}),
    role |-> Thing("IAMRole", {"mem", "pol"}),
    pol  |-> Part("IAMRolePolicy", "role", {}) ]
AsgObject == DOMAIN AsgAccount
AsgTypeOf == Column(AsgAccount, "type")
AsgParentOf == Column(AsgAccount, "parent")
AsgMarks == Column(AsgAccount, "marks")
AsgBlockers == Column(AsgAccount, "blockers")
AsgCascade == Column(AsgAccount, "cascade")
AsgReplaces == Column(AsgAccount, "replaces")
AsgResMaps ==
  { NamesFrom(AsgAccount, {"asg", "i1", "lc", "lb", "vol", "eni", "prof", "role"}, {}) }

=============================================================================
