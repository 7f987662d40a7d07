----------------------------- MODULE MCFilterRun -----------------------------
(***************************************************************************)
(* A small account for FilterRun: a load balancer, an instance, two auto   *)
(* scaling groups and two hosted zones.  Two tags to be ignored, in any     *)
(* two inputs or with malformed ones between them; parse output in any     *)
(* order, with values that are not tagged resources.                       *)
(***************************************************************************)
EXTENDS FilterRun

CONSTANTS f1, f2,                                          \* filters
          balancer, instance, asg, asg2, zone1, zone2      \* resources

MCType == {"LoadBalancer", "Instance", "AutoScalingGroup", "HostedZone"}

MCTypeOf ==
  [r \in Resource |->
     CASE r = balancer       -> "LoadBalancer"
       [] r = instance       -> "Instance"
       [] r \in {asg, asg2}  -> "AutoScalingGroup"
       [] OTHER              -> "HostedZone"]

MCServiceOf ==
  [t \in MCType |->
     CASE t = "LoadBalancer"     -> "elasticloadbalancing"
       [] t = "Instance"         -> "ec2"
       [] t = "AutoScalingGroup" -> "autoscaling"
       [] t = "HostedZone"       -> "route53"]

MCCarries ==
  [r \in Resource |->
     CASE r \in {balancer, asg2, zone1} -> {f1, f2}
       [] r \in {instance, asg}         -> {f1}
       [] r = zone2                     -> {f2}]

Filters(F) == [kind |-> "filters", filters |-> F]
Bad(kind) == [kind |-> kind, filters |-> {}]

TwoInputs == {<<Filters(F), Filters(G)>> : F, G \in SUBSET {f1, f2}}
MalformedStreams ==
  {<<Filters({f1}), Bad("mistyped"), Filters({f2})>>, <<Bad("broken")>>,
   <<Filters({f2}), Bad("broken")>>}
AllStreams == TwoInputs \cup MalformedStreams
OneInput == {<<Filters({f2})>>}

Tagged(r) == [kind |-> "tagged", resource |-> r]
Other(kind) == [kind |-> kind, resource |-> Nothing]

MCParseOutputs ==
  {<<Tagged(zone1), Tagged(asg), Tagged(instance), Tagged(zone2), Tagged(balancer),
    Tagged(asg2)>>,
   <<Tagged(instance), Other("mistyped"), Other("untagged"), Tagged(zone2)>>,
   <<Tagged(asg), Other("broken"), Tagged(balancer)>>}
OneOutput == {<<Tagged(instance)>>}

AnyType == {{}}
SomeTypes == {{}, {"Instance"}, {"AutoScalingGroup"}}
=============================================================================
