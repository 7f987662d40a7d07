------------------------------- MODULE Stores -------------------------------
(***************************************************************************)
(* deleteARNs over the two types whose deleters look after contents of     *)
(* their own: S3 buckets first, then hosted zones.                         *)
(***************************************************************************)
EXTENDS S3Bucket, HostedZone

vars == <<loopVars, bucketVars, zoneVars>>

Init == LoopInit /\ BucketInit /\ ZoneInit

Program ==
  \/ BucketProgram /\ UNCHANGED zoneVars
  \/ ZoneProgram /\ UNCHANGED bucketVars

Environment ==
  \/ BucketEnvironment /\ UNCHANGED zoneVars
  \/ ZoneEnvironment /\ UNCHANGED bucketVars

Terminated == exit # "running" /\ UNCHANGED vars

Next == Program \/ Environment \/ Terminated

Spec == Init /\ [][Next]_vars

\* The process runs and every AWS call returns.
FairSpec == Spec /\ WF_vars(Program)

(***************************************************************************)
(* Correctness                                                             *)
(***************************************************************************)
TypeOK ==
  /\ LoopTypeOK /\ BucketTypeOK /\ ZoneTypeOK
  /\ log \subseteq (Bucket \cup (Bucket \X Key) \cup Given \cup Record)
                   \X {"deleted", "failed"}

Failed(o) == <<o, "failed">> \in log

\* Errors of single objects are dropped (s3.go:74) and so is what a listing that
\* failed did not show (route53.go:62), yet nothing is left behind unnoticed: of
\* a run that ends well every bucket and zone is gone, is reported as failed or,
\* a bucket, could not be listed.
LeftBehindIsReported ==
  exit = "nil" /\ ~cfg.DryRun =>
    /\ \A b \in stores : Failed(b) \/ b \in unlisted
    /\ \A z \in Given \cap hosted : Failed(z)

HasDelegation(z) == \E r \in Delegations \cap records : ZoneOf[r] = z

\* Only record sets of the zones given are deleted, and those of public zones
\* with a name that a zone given had: never another record of an unrelated zone.
\* A dry run deletes none.
OnlyRecordsOfGivenNames ==
  \A r \in removed :
    /\ ~cfg.DryRun
    /\ \/ ZoneOf[r] \in Given
       \/ ZoneOf[r] \notin Private /\ NameOf[r] \in wanted

\* "Delete any record sets created in a public hosted zone" (route53.go:70): a run
\* that stops at errors and ends well leaves none of the names in a public zone.
NoNameLeftBehind ==
  exit = "nil" /\ ~cfg.DryRun /\ ~cfg.IgnoreErrors =>
    \A r \in records \ Delegations : ZoneOf[r] \notin Private => NameOf[r] \notin wanted

\* When no request fails and nobody else changes anything, buckets and zones are
\* all deleted, in any order, but for zones with a delegation: its NS record set
\* is not listed (route53.go:340) and keeps the zone from being deleted.
UndisturbedRunSucceeds ==
  faults = 0 /\ (\A z \in Given : ~HasDelegation(z)) =>
    /\ exit # "error"
    /\ exit = "nil" /\ ~cfg.DryRun => stores = {} /\ Given \cap hosted = {}

\* The run ends, whatever fails, or lists a bucket of more than a page for ever.
Ends == <>(exit # "running") \/ <>[]IsListedForEver
=============================================================================
