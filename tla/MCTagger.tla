------------------------------- MODULE MCTagger -------------------------------
(***************************************************************************)
(* Small streams for Tagger: two ARNs, two groups, a hosted zone, a        *)
(* resource that cannot be tagged; one key with two values.  With limits   *)
(* of two, buckets of either kind fill, are cleared and fill again.        *)
(***************************************************************************)
EXTENDS Tagger

CONSTANTS arn1, arn2, arn3, asg1, asg2, zone, eni,  \* resources
          k1,                                       \* keys
          v1, v2                                    \* values

MCClassOf ==
  [r \in Resource |->
     CASE r \in {arn1, arn2, arn3} -> "rgta"
       [] r \in {asg1, asg2}       -> "AutoScalingGroup"
       [] r = zone                 -> "HostedZone"
       [] OTHER                    -> "untaggable"]

MCTagSets == {[k \in Key |-> v1], [k \in Key |-> v2]}
WithNoTags == MCTagSets \cup {NoTags}

AllConfigs == [dryRun : BOOLEAN, ignoreErrors : BOOLEAN]
=============================================================================
