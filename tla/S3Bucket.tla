------------------------------ MODULE S3Bucket ------------------------------
(***************************************************************************)
(* S3BucketDeleter.DeleteResources (deleter/s3.go): for one bucket after   *)
(* the other, list its objects, delete them in one request, delete the     *)
(* bucket.  Others may put and remove objects meanwhile, single objects    *)
(* may refuse to be deleted, and S3 deletes no bucket that is not empty.   *)
(***************************************************************************)
EXTENDS StoreLoop

CONSTANTS
  Bucket,      \* the buckets that are to be deleted
  NoBucket,
  Key,         \* keys of objects: numbers, for the order S3 lists them in
  PageSize,    \* most objects in one answer (1000)
  MaxKeys,     \* most keys S3 takes in one DeleteObjects request (1000)
  Contents     \* what the buckets may hold when the run begins

ASSUME BucketAssumption ==
  /\ NoBucket \notin Bucket /\ Key \subseteq Nat /\ IsFiniteSet(Key)
  /\ PageSize \in Nat \ {0} /\ MaxKeys \in Nat \ {0}
  /\ Contents \subseteq [Bucket -> SUBSET Key]

VARIABLES
  buckets,   \* ResourceNames not reached yet
  bucket,    \* the one the loop is at
  bStep,     \* "next", "list", "objects" or "bucket"
  keys,      \* ObjectIdentifiers of objDel
  size,      \* how many they are, duplicates included, up to MaxKeys + 1
  contents,  \* the objects of each bucket, in S3
  stores,    \* the buckets that exist, in S3
  unlisted   \* history: buckets whose listing failed

bucketVars == <<buckets, bucket, bStep, keys, size, contents, stores, unlisted>>

AtBucket(step) == IsTurn("S3Bucket") /\ bStep = step

(***************************************************************************)
(* S3                                                                      *)
(***************************************************************************)
FirstPage(K) == {k \in K : Cardinality({j \in K : j < k}) < PageSize}

IsTruncated(K) == Cardinality(K) > PageSize

Without(K) == [contents EXCEPT ![bucket] = @ \ K]

BucketInit ==
  /\ buckets = Bucket /\ bucket = NoBucket /\ bStep = "next"
  /\ keys = {} /\ size = 0 /\ unlisted = {}
  /\ contents \in Contents /\ stores = Bucket

(***************************************************************************)
(* The loop over the buckets.                                              *)
(***************************************************************************)
NextBucket(b) ==
  /\ AtBucket("next") /\ b \in buckets
  /\ buckets' = buckets \ {b} /\ bucket' = b
  /\ bStep' = "list" /\ keys' = {} /\ size' = 0
  /\ UNCHANGED <<loopVars, contents, stores, unlisted>>

LastBucket ==
  /\ AtBucket("next") /\ buckets = {}
  /\ turn' = "HostedZone"
  /\ UNCHANGED <<bucketVars, cfg, exit, log, faults>>

(***************************************************************************)
(* RequestS3ObjectsFromBucket.  The token of the next request is the one   *)
(* of this request, so every request is for the first page.                *)
(***************************************************************************)
RequestObjects ==
  /\ AtBucket("list") /\ bucket \in stores
  /\ LET page == FirstPage(contents[bucket])
         sum  == size + Cardinality(page) IN
     /\ keys' = keys \cup page
     /\ size' = IF sum > MaxKeys THEN MaxKeys + 1 ELSE sum
  /\ bStep' = IF IsTruncated(contents[bucket]) THEN "list" ELSE "objects"
  /\ UNCHANGED <<loopVars, buckets, bucket, contents, stores, unlisted>>

\* The bucket is passed over without a log entry, whatever IgnoreErrors is.
RequestObjectsFails ==
  /\ AtBucket("list")
  /\ Disturb \/ (bucket \notin stores /\ UNCHANGED faults)
  /\ bStep' = "next" /\ unlisted' = unlisted \cup {bucket}
  /\ UNCHANGED <<cfg, turn, exit, log, buckets, bucket, keys, size, contents, stores>>

(***************************************************************************)
(* S3ObjectDeleter.DeleteResources                                         *)
(***************************************************************************)
\* Nothing to delete, or a dry run.
NoObjectsRequested == keys = {} \/ cfg.DryRun

SkipObjects ==
  /\ AtBucket("objects") /\ NoObjectsRequested
  /\ bStep' = "bucket"
  /\ UNCHANGED <<loopVars, buckets, bucket, keys, size, contents, stores, unlisted>>

\* The answer has lists of what was deleted and of what was not; only the first
\* is looked at.
DeleteObjects ==
  /\ AtBucket("objects") /\ ~NoObjectsRequested
  /\ bucket \in stores /\ size <= MaxKeys
  /\ \E refused \in SUBSET keys :
       /\ IF refused = {} THEN UNCHANGED faults ELSE Disturb
       /\ contents' = Without(keys \ refused)
       /\ LogAll({bucket} \X (keys \ refused), "deleted")
  /\ bStep' = "bucket"
  /\ UNCHANGED <<cfg, turn, exit, buckets, bucket, keys, size, stores, unlisted>>

LeaveBucket(step) ==
  IF cfg.IgnoreErrors THEN bStep' = step /\ UNCHANGED exit
  ELSE exit' = "error" /\ UNCHANGED bStep

\* Too many keys, or any other error; the request may have been carried out.
DeleteObjectsFails ==
  /\ AtBucket("objects") /\ ~NoObjectsRequested
  /\ \/ /\ size > MaxKeys \/ bucket \notin stores
        /\ UNCHANGED <<faults, contents>>
     \/ Disturb /\ contents' \in {contents, Without(keys)}
  /\ LogAll({bucket} \X keys, "failed")
  /\ LeaveBucket("bucket")
  /\ UNCHANGED <<cfg, turn, buckets, bucket, keys, size, stores, unlisted>>

(***************************************************************************)
(* DeleteBucket                                                            *)
(***************************************************************************)
DryRunBucket ==
  /\ AtBucket("bucket") /\ cfg.DryRun
  /\ bStep' = "next"
  /\ UNCHANGED <<loopVars, buckets, bucket, keys, size, contents, stores, unlisted>>

DeleteBucket ==
  /\ AtBucket("bucket") /\ ~cfg.DryRun
  /\ bucket \in stores /\ contents[bucket] = {}
  /\ stores' = stores \ {bucket}
  /\ LogAll({bucket}, "deleted")
  /\ bStep' = "next"
  /\ UNCHANGED <<cfg, turn, exit, faults, buckets, bucket, keys, size, contents, unlisted>>

DeleteBucketFails ==
  /\ AtBucket("bucket") /\ ~cfg.DryRun
  /\ \/ /\ bucket \notin stores \/ contents[bucket] # {}
        /\ UNCHANGED <<faults, stores>>
     \/ /\ Disturb
        /\ UNCHANGED stores \/ (contents[bucket] = {} /\ stores' = stores \ {bucket})
  /\ LogAll({bucket}, "failed")
  /\ LeaveBucket("next")
  /\ UNCHANGED <<cfg, turn, buckets, bucket, keys, size, contents, unlisted>>

(***************************************************************************)
(* Other users of the buckets.                                             *)
(***************************************************************************)
OthersPut(b, k) ==
  /\ Disturb
  /\ b \in stores /\ k \notin contents[b]
  /\ contents' = [contents EXCEPT ![b] = @ \cup {k}]
  /\ UNCHANGED <<cfg, turn, exit, log, buckets, bucket, bStep, keys, size, stores, unlisted>>

OthersRemove(b, k) ==
  /\ Disturb
  /\ b \in stores /\ k \in contents[b]
  /\ contents' = [contents EXCEPT ![b] = @ \ {k}]
  /\ UNCHANGED <<cfg, turn, exit, log, buckets, bucket, bStep, keys, size, stores, unlisted>>

OthersDeleteBucket(b) ==
  /\ Disturb
  /\ b \in stores /\ contents[b] = {}
  /\ stores' = stores \ {b}
  /\ UNCHANGED <<cfg, turn, exit, log, buckets, bucket, bStep, keys, size, contents, unlisted>>

BucketProgram ==
  \/ \E b \in Bucket : NextBucket(b)
  \/ LastBucket \/ RequestObjects \/ RequestObjectsFails
  \/ SkipObjects \/ DeleteObjects \/ DeleteObjectsFails
  \/ DryRunBucket \/ DeleteBucket \/ DeleteBucketFails

\* What others do before this deleter runs makes another beginning.
BucketEnvironment ==
  /\ IsTurn("S3Bucket")
  /\ \E b \in Bucket :
       \/ OthersDeleteBucket(b)
       \/ \E k \in Key : OthersPut(b, k) \/ OthersRemove(b, k)

BucketTypeOK ==
  /\ buckets \subseteq Bucket /\ bucket \in Bucket \cup {NoBucket}
  /\ bStep \in {"next", "list", "objects", "bucket"}
  /\ keys \subseteq Key /\ size \in 0..(MaxKeys + 1)
  /\ contents \in [Bucket -> SUBSET Key] /\ stores \subseteq Bucket
  /\ unlisted \subseteq Bucket

\* The listing follows no token: as long as a bucket holds more than one page its
\* first page is listed again.
IsListedForEver == AtBucket("list") /\ IsTruncated(contents[bucket])
=============================================================================
