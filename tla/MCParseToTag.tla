---------------------------- MODULE MCParseToTag ----------------------------
(***************************************************************************)
(* Three events: one names a VPC and a group, one the group, a subnet and  *)
(* an IAM group the filter leaves out, one a NAT gateway and a bucket.  In *)
(* a log file the second is of a kind rawEventMap does not know, and the   *)
(* last is the failed creation of a VPC.  The VPC and the bucket fill a    *)
(* request, so that tag may end with an error while parse is printing.     *)
(***************************************************************************)
EXTENDS ParseToTag

MCTypeIn ==
  [ vpc |-> "VPC", lost |-> "VPC", asg |-> "AutoScalingGroup", nat |-> "NatGateway",
    group |-> "IAMGroup", sn |-> "Subnet", bucket |-> "S3Bucket" ]
MCResource == DOMAIN MCTypeIn
MCClassOf == [r \in MCResource |-> ClassOfPrinted(r)]

MCResourcesOf ==
  [ e1 |-> {"vpc", "asg"}, e2 |-> {"asg", "group", "sn"}, e3 |-> {"nat", "bucket"} ]
MCIdentified == [ e1 |-> "asg", e2 |-> NoResource, e3 |-> "lost" ]
MCEvent == DOMAIN MCResourcesOf
MCFiltered == { <<"e2", "group">> }
MCTagsOf ==
  [e \in MCEvent |-> [k \in Key |-> IF e = "e2" THEN "v2" ELSE "v1"]]
MCTagSets == {MCTagsOf[e] : e \in MCEvent}

MCSetups ==
  [source : {"api"}, types : {<< >>, <<"VPC", "AutoScalingGroup">>}, valid : {TRUE}]
    \cup [source : {"file"}, types : {<< >>}, valid : BOOLEAN]
AllConfigs == [dryRun : BOOLEAN, ignoreErrors : BOOLEAN]
=============================================================================
