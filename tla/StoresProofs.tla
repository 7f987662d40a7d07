----------------------------- MODULE StoresProofs -----------------------------
(***************************************************************************)
(* Proofs about the deleters of S3 buckets and hosted zones: what they may *)
(* delete, what they may leave behind, and when they must succeed.         *)
(***************************************************************************)
EXTENDS Stores, FiniteSetTheorems, TLAPS

(***************************************************************************)
(* The parts of the invariant.                                             *)
(***************************************************************************)

\* Where the loops over the names are: one deleter runs after the other, and a
\* step within the loop has the name it is for.
BucketsInTurn ==
  /\ bStep # "next" => turn = "S3Bucket" /\ bucket \in Bucket
  /\ turn # "S3Bucket" => buckets = {}

ZonesInTurn ==
  /\ zStep # "next" => turn = "HostedZone" /\ zone \in Given
  /\ turn = "none" => zones = {}
  /\ turn = "none" <=> exit = "nil"

\* The loop over the public zones has what it looks for: record sets of the
\* names that were in the zone.
InPublicZones ==
  /\ zStep = "strays" => public \in Zone \ Private
  /\ zStep # "strays" => strays = {}
  /\ \A r \in strays : NameOf[r] \in NamesOf(recordSets)
  /\ zStep \in {"public", "strays"} => NamesOf(recordSets) \subseteq wanted

\* What still exists has its turn to come, or was reported.
BucketsDue ==
  ~cfg.DryRun =>
    \A b \in stores : \/ b \in buckets
                      \/ bStep # "next" /\ b = bucket
                      \/ Failed(b) \/ b \in unlisted

ZonesDue ==
  ~cfg.DryRun =>
    \A z \in Given \cap hosted : \/ z \in zones
                                 \/ zStep # "next" /\ z = zone
                                 \/ Failed(z)

StoresInv ==
  /\ TypeOK
  /\ BucketsInTurn /\ ZonesInTurn /\ BucketsDue /\ ZonesDue
  /\ InPublicZones /\ OnlyRecordsOfGivenNames

(***************************************************************************)
(* The invariant of runs that stop at errors.                              *)
(***************************************************************************)

\* Route 53 deletes no zone that has record sets.
RecordsAreHosted == \A r \in records : ZoneOf[r] \in hosted

\* A record set of a name that is wanted is in a public zone the loop has yet to
\* look into, or in the batch to be deleted.
NamesDue ==
  exit # "error" /\ ~cfg.DryRun /\ ~cfg.IgnoreErrors =>
    \A r \in records \ Delegations :
      ZoneOf[r] \notin Private /\ NameOf[r] \in wanted =>
        /\ zStep \in {"public", "strays"} /\ NameOf[r] \in NamesOf(recordSets)
        /\ ZoneOf[r] \in publics \/ r \in strays

NamesInv == StoresInv /\ RecordsAreHosted /\ NamesDue

(***************************************************************************)
(* The invariant of runs in which nothing fails.                           *)
(***************************************************************************)
Undisturbed == faults = 0 /\ \A z \in Given : ~HasDelegation(z)

\* NS record sets are never in a batch.
NoDelegations == (recordSets \cup strays) \cap Delegations = {}

\* The bucket the loop is at is listed, emptied and then deleted.
BucketIsEmptied ==
  /\ buckets \subseteq stores
  /\ bStep # "next" => bucket \in stores \ buckets
  /\ bStep = "list" /\ ~IsTruncated(contents[bucket]) => keys = {} /\ size = 0
  /\ bStep = "objects" => contents[bucket] \subseteq keys /\ size <= MaxKeys
  /\ bStep = "bucket" /\ ~cfg.DryRun => contents[bucket] = {}
  /\ ~cfg.DryRun => \A b \in stores : b \in buckets \/ (bStep # "next" /\ b = bucket)

\* So is the zone.
ZoneIsEmptied ==
  /\ zones \subseteq hosted
  /\ zStep # "next" => zone \in hosted \ zones
  /\ zStep = "delete" => recordSets = RecordSetsOf(zone)
  /\ publics \subseteq hosted /\ (zStep \notin {"public", "strays"} => publics = {})
  /\ strays \subseteq {r \in records : ZoneOf[r] = public}
  /\ zStep \in {"all", "public", "strays", "zone"} /\ ~cfg.DryRun =>
       \A r \in records : ZoneOf[r] # zone
  /\ ~cfg.DryRun => \A z \in Given \cap hosted : z \in zones \/ (zStep # "next" /\ z = zone)

AllGoesWell == Undisturbed => exit # "error" /\ BucketIsEmptied /\ ZoneIsEmptied

UndisturbedInv == StoresInv /\ NoDelegations /\ AllGoesWell

(***************************************************************************)
(* Pages of keys.                                                          *)
(***************************************************************************)

\* A page is part of what is listed, and all of it if the answer is not truncated.
LEMMA Pages ==
  ASSUME NEW K \in SUBSET Key
  PROVE  /\ FirstPage(K) \subseteq K /\ Cardinality(FirstPage(K)) \in Nat
         /\ ~IsTruncated(K) => FirstPage(K) = K /\ Cardinality(K) <= PageSize
<1>1. IsFiniteSet(K) /\ Cardinality(K) \in Nat
  BY BucketAssumption, FS_Subset, FS_CardinalityType DEF BucketAssumption
<1>2. FirstPage(K) \subseteq K
  BY DEF FirstPage
<1>3. Cardinality(FirstPage(K)) \in Nat
  BY <1>1, <1>2, FS_Subset, FS_CardinalityType
<1>4. ASSUME ~IsTruncated(K), NEW k \in K
      PROVE  Cardinality({j \in K : j < k}) < PageSize
  <2> DEFINE before == {j \in K : j < k}
  <2>1. before \subseteq K /\ before # K
    <3>1. k \in Nat /\ ~(k < k)
      BY BucketAssumption DEF BucketAssumption
    <3> QED
      BY <3>1
  <2>2. /\ Cardinality(before) \in Nat /\ Cardinality(before) <= Cardinality(K)
        /\ Cardinality(before) # Cardinality(K)
    <3> HIDE DEF before
    <3> QED
      BY <1>1, <2>1, FS_Subset, FS_CardinalityType
  <2>3. Cardinality(K) <= PageSize /\ PageSize \in Nat
    BY <1>1, <1>4, BucketAssumption DEF IsTruncated, BucketAssumption
  <2> HIDE DEF before
  <2>4. Cardinality(before) < PageSize
    BY <1>1, <2>2, <2>3
  <2> QED
    BY <2>4 DEF before
<1>5. ~IsTruncated(K) => FirstPage(K) = K /\ Cardinality(K) <= PageSize
  <2>1. ~IsTruncated(K) => FirstPage(K) = K
    BY <1>4 DEF FirstPage
  <2>2. ~IsTruncated(K) => Cardinality(K) <= PageSize
    BY <1>1, BucketAssumption DEF IsTruncated, BucketAssumption
  <2> QED
    BY <2>1, <2>2
<1> QED
  BY <1>2, <1>3, <1>5

(***************************************************************************)
(* What the steps of a deleter leave alone.                                *)
(***************************************************************************)

\* While buckets are deleted the zones wait for their turn.
LEMMA BucketEffects ==
  ASSUME StoresInv, BucketProgram \/ BucketEnvironment
  PROVE  /\ cfg' = cfg /\ turn = "S3Bucket" /\ exit = "running" /\ exit' \in {"running", "error"}
         /\ \/ turn' = turn
            \/ /\ turn' = "HostedZone" /\ buckets = {} /\ bStep = "next"
               /\ UNCHANGED <<bucketVars, exit, log, faults>>
         /\ faults' = faults \/ (faults < MaxFaults /\ faults' = faults + 1)
<1>1. ASSUME BucketEnvironment
      PROVE  /\ IsTurn("S3Bucket") /\ UNCHANGED <<cfg, turn, exit>>
             /\ faults < MaxFaults /\ faults' = faults + 1
  BY <1>1 DEF BucketEnvironment, OthersDeleteBucket, OthersPut, OthersRemove, Disturb
<1>2. ASSUME BucketProgram, ~LastBucket
      PROVE  /\ IsTurn("S3Bucket") /\ cfg' = cfg /\ turn' = turn /\ exit' \in {exit, "error"}
             /\ faults' = faults \/ (faults < MaxFaults /\ faults' = faults + 1)
  BY <1>2 DEF BucketProgram, AtBucket, loopVars, Disturb, NextBucket, RequestObjects,
              RequestObjectsFails, SkipObjects, DeleteObjects, DeleteObjectsFails, LeaveBucket,
              DryRunBucket, DeleteBucket, DeleteBucketFails
<1>3. CASE LastBucket
  BY <1>3 DEF LastBucket, AtBucket, IsTurn, bucketVars
<1> QED
  BY <1>1, <1>2, <1>3 DEF IsTurn

\* While zones are deleted nothing happens to the buckets.
LEMMA ZoneEffects ==
  ASSUME StoresInv, ZoneProgram \/ ZoneEnvironment
  PROVE  /\ cfg' = cfg /\ turn = "HostedZone" /\ exit = "running"
         /\ \/ turn' = turn /\ exit' \in {"running", "error"}
            \/ /\ turn' = "none" /\ exit' = "nil" /\ zones = {} /\ zStep = "next"
               /\ UNCHANGED <<zoneVars, log, faults>>
         /\ faults' = faults \/ (faults < MaxFaults /\ faults' = faults + 1)
<1>1. ASSUME ZoneEnvironment
      PROVE  /\ IsTurn("HostedZone") /\ UNCHANGED <<cfg, turn, exit>>
             /\ faults < MaxFaults /\ faults' = faults + 1
  BY <1>1 DEF ZoneEnvironment, OthersRemoveRecord, OthersDeleteZone, Disturb
<1>2. ASSUME ZoneProgram, ~LastZone
      PROVE  /\ IsTurn("HostedZone") /\ cfg' = cfg /\ turn' = turn /\ exit' \in {exit, "error"}
             /\ faults' = faults \/ (faults < MaxFaults /\ faults' = faults + 1)
  BY <1>2 DEF ZoneProgram, AtZone, IsBatch, loopVars, Disturb, NextZone, RequestRecords,
              Requested, RequestRecordsFails, SkipBatch, ChangeRecords, ChangeRecordsFails,
              RequestZones, RequestZonesFails, Cached, RequestPublicRecords,
              RequestPublicRecordsFails, Collected, LastPublic, DryRunZone, DeleteZone,
              DeleteZoneFails
<1>3. CASE LastZone
  BY <1>3 DEF LastZone, AtZone, IsTurn, zoneVars
<1> QED
  BY <1>1, <1>2, <1>3 DEF IsTurn

(***************************************************************************)
(* The invariant holds at first, and each step preserves it.               *)
(***************************************************************************)
LEMMA StoresInit == Init => StoresInv
<1> SUFFICES ASSUME Init PROVE StoresInv
  OBVIOUS
<1> USE DEF Init, LoopInit, BucketInit, ZoneInit
<1>1. TypeOK
  BY LoopAssumption, BucketAssumption, ZoneAssumption
     DEF TypeOK, LoopTypeOK, BucketTypeOK, ZoneTypeOK, LoopAssumption, BucketAssumption,
         ZoneAssumption
<1>2. BucketsInTurn /\ ZonesInTurn /\ InPublicZones
  BY DEF BucketsInTurn, ZonesInTurn, InPublicZones
<1>3. OnlyRecordsOfGivenNames
  BY DEF OnlyRecordsOfGivenNames
<1>4. BucketsDue /\ ZonesDue
  BY DEF BucketsDue, ZonesDue
<1> QED
  BY <1>1, <1>2, <1>3, <1>4 DEF StoresInv

\* The deleter of buckets keeps to its types.
LEMMA BucketTypes ==
  ASSUME StoresInv, BucketProgram \/ BucketEnvironment
  PROVE  BucketTypeOK' /\ log' \subseteq (Bucket \cup (Bucket \X Key) \cup Given \cup Record)
                                             \X {"deleted", "failed"}
<1> USE DEF StoresInv, TypeOK, BucketTypeOK, BucketsInTurn, AtBucket, IsTurn
<1>1. ASSUME NEW b \in Bucket, NextBucket(b)
      PROVE  BucketTypeOK' /\ log' = log
  BY <1>1, BucketAssumption DEF NextBucket, loopVars, BucketAssumption
<1>2. CASE LastBucket
  BY <1>2 DEF LastBucket, bucketVars
<1>3. CASE RequestObjects
  <2>1. contents[bucket] \in SUBSET Key
    BY <1>3 DEF RequestObjects
  <2>2. /\ FirstPage(contents[bucket]) \subseteq Key
        /\ Cardinality(FirstPage(contents[bucket])) \in Nat
    BY <2>1, Pages
  <2> QED
    BY <1>3, <2>2, BucketAssumption DEF RequestObjects, loopVars, BucketAssumption
<1>4. CASE RequestObjectsFails
  BY <1>4 DEF RequestObjectsFails
<1>5. CASE SkipObjects
  BY <1>5 DEF SkipObjects, loopVars
<1>6. CASE DeleteObjects
  BY <1>6 DEF DeleteObjects, Without, LogAll
<1>7. CASE DeleteObjectsFails
  BY <1>7 DEF DeleteObjectsFails, Without, LogAll, LeaveBucket
<1>8. CASE DryRunBucket
  BY <1>8 DEF DryRunBucket, loopVars
<1>9. CASE DeleteBucket
  BY <1>9 DEF DeleteBucket, LogAll
<1>10. CASE DeleteBucketFails
  BY <1>10 DEF DeleteBucketFails, LogAll, LeaveBucket
<1>11. CASE BucketEnvironment
  BY <1>11 DEF BucketEnvironment, OthersDeleteBucket, OthersPut, OthersRemove
<1> QED
  BY <1>1, <1>2, <1>3, <1>4, <1>5, <1>6, <1>7, <1>8, <1>9, <1>10, <1>11 DEF BucketProgram

\* So does the deleter of zones.
LEMMA ZoneTypes ==
  ASSUME StoresInv, ZoneProgram \/ ZoneEnvironment
  PROVE  ZoneTypeOK' /\ log' \subseteq (Bucket \cup (Bucket \X Key) \cup Given \cup Record)
                                             \X {"deleted", "failed"}
<1> USE DEF StoresInv, TypeOK, ZoneTypeOK, ZonesInTurn, AtZone, IsTurn
<1>1. ASSUME NEW z \in Zone, NextZone(z)
      PROVE  ZoneTypeOK' /\ log' = log
  BY <1>1 DEF NextZone, loopVars
<1>2. CASE LastZone
  BY <1>2 DEF LastZone, zoneVars
<1>3. CASE RequestRecords
  BY <1>3 DEF RequestRecords, Requested, RecordSetsOf
<1>4. CASE RequestRecordsFails
  BY <1>4 DEF RequestRecordsFails, Requested, RecordSetsOf, zoneVars
<1>5. CASE SkipBatch
  BY <1>5 DEF SkipBatch, AfterBatch, IsBatch, loopVars
<1>6. CASE ChangeRecords
  BY <1>6 DEF ChangeRecords, CarryOut, AfterBatch, IsBatch, Batch, LogAll
<1>7. CASE ChangeRecordsFails
  BY <1>7 DEF ChangeRecordsFails, CarryOut, AfterBatch, IsBatch, Batch, LogAll
<1>8. ASSUME NEW zs \in SUBSET hosted, AtZone("all"), Cached(zs)
      PROVE  ZoneTypeOK' /\ log' = log
  BY <1>8 DEF Cached, PublicAmong, NamesOf
<1>9. CASE RequestZones
  BY <1>8, <1>9 DEF RequestZones
<1>10. CASE RequestZonesFails
  BY <1>8, <1>10 DEF RequestZonesFails, zoneVars
<1>11. ASSUME NEW z \in Zone, NEW sets \in SUBSET RecordSetsOf(z), z \in publics,
              AtZone("public"), Collected(z, sets)
       PROVE  ZoneTypeOK' /\ log' = log
  BY <1>11 DEF Collected, Strays, RecordSetsOf
<1>12. ASSUME NEW z \in Zone, RequestPublicRecords(z)
       PROVE  ZoneTypeOK' /\ log' = log
  BY <1>11, <1>12 DEF RequestPublicRecords
<1>13. ASSUME NEW z \in Zone, RequestPublicRecordsFails(z)
       PROVE  ZoneTypeOK' /\ log' = log
  BY <1>11, <1>13 DEF RequestPublicRecordsFails, zoneVars
<1>14. CASE LastPublic
  BY <1>14 DEF LastPublic, loopVars
<1>15. CASE DryRunZone
  BY <1>15 DEF DryRunZone, loopVars
<1>16. CASE DeleteZone
  BY <1>16 DEF DeleteZone, AfterZone, LogAll
<1>17. CASE DeleteZoneFails
  BY <1>17 DEF DeleteZoneFails, AfterZone, LogAll
<1>18. CASE ZoneEnvironment
  BY <1>18 DEF ZoneEnvironment, OthersRemoveRecord, OthersDeleteZone
<1> QED
  BY <1>1, <1>2, <1>3, <1>4, <1>5, <1>6, <1>7, <1>9, <1>10, <1>12, <1>13, <1>14, <1>15, <1>16,
     <1>17, <1>18 DEF ZoneProgram

\* Log entries stay.
LEMMA LogStays ==
  ASSUME BucketProgram \/ BucketEnvironment \/ ZoneProgram \/ ZoneEnvironment
  PROVE  log \subseteq log'
<1>1. BucketProgram \/ BucketEnvironment => log \subseteq log'
  BY DEF BucketProgram, BucketEnvironment, loopVars, LogAll, NextBucket, LastBucket,
         RequestObjects, RequestObjectsFails, SkipObjects, DeleteObjects, DeleteObjectsFails,
         DryRunBucket, DeleteBucket, DeleteBucketFails, OthersDeleteBucket, OthersPut,
         OthersRemove
<1>2. ZoneProgram \/ ZoneEnvironment => log \subseteq log'
  BY DEF ZoneProgram, ZoneEnvironment, loopVars, LogAll, NextZone, LastZone, RequestRecords,
         Requested, RequestRecordsFails, SkipBatch, ChangeRecords, ChangeRecordsFails,
         RequestZones, RequestZonesFails, Cached, RequestPublicRecords,
         RequestPublicRecordsFails, Collected, LastPublic, DryRunZone, DeleteZone,
         DeleteZoneFails, AfterZone, OthersRemoveRecord, OthersDeleteZone
<1> QED
  BY <1>1, <1>2

\* The loop over the buckets, and what is left of them.
LEMMA BucketTurns ==
  ASSUME StoresInv, BucketProgram \/ BucketEnvironment
  PROVE  BucketsInTurn' /\ BucketsDue'
<1>1. turn = "S3Bucket" /\ cfg' = cfg /\ TypeOK /\ log \subseteq log'
  BY BucketEffects, LogStays DEF StoresInv
<1> USE DEF StoresInv, BucketsInTurn, BucketsDue, Failed, AtBucket, IsTurn
<1>2. ASSUME NEW b \in Bucket, NextBucket(b)
      PROVE  BucketsInTurn' /\ BucketsDue'
  BY <1>1, <1>2 DEF NextBucket, loopVars
<1>3. CASE LastBucket
  BY <1>1, <1>3 DEF LastBucket, bucketVars
<1>4. CASE RequestObjects
  BY <1>1, <1>4 DEF RequestObjects, loopVars
<1>5. CASE RequestObjectsFails
  BY <1>1, <1>5 DEF RequestObjectsFails
<1>6. CASE SkipObjects
  BY <1>1, <1>6 DEF SkipObjects, loopVars
<1>7. CASE DeleteObjects
  BY <1>1, <1>7 DEF DeleteObjects
<1>8. CASE DeleteObjectsFails
  BY <1>1, <1>8 DEF DeleteObjectsFails, LeaveBucket
<1>9. CASE DryRunBucket
  BY <1>1, <1>9 DEF DryRunBucket, loopVars
<1>10. CASE DeleteBucket
  BY <1>1, <1>10 DEF DeleteBucket
<1>11. CASE DeleteBucketFails
  BY <1>1, <1>11 DEF DeleteBucketFails, LeaveBucket, LogAll
<1>12. CASE BucketEnvironment
  BY <1>1, <1>12 DEF BucketEnvironment, OthersDeleteBucket, OthersPut, OthersRemove
<1> QED
  BY <1>2, <1>3, <1>4, <1>5, <1>6, <1>7, <1>8, <1>9, <1>10, <1>11, <1>12 DEF BucketProgram

LEMMA BucketStep ==
  ASSUME StoresInv, BucketProgram \/ BucketEnvironment, UNCHANGED zoneVars
  PROVE  StoresInv'
<1>1. TypeOK'
  <2>1. LoopTypeOK'
    BY BucketEffects, LoopAssumption DEF StoresInv, TypeOK, LoopTypeOK, LoopAssumption
  <2>2. ZoneTypeOK'
    BY DEF StoresInv, TypeOK, ZoneTypeOK, zoneVars
  <2> QED
    BY <2>1, <2>2, BucketTypes DEF TypeOK
<1>2. ZonesInTurn'
  BY BucketEffects DEF StoresInv, ZonesInTurn, zoneVars
<1>3. InPublicZones'
  BY DEF StoresInv, InPublicZones, NamesOf, zoneVars
<1>4. OnlyRecordsOfGivenNames'
  BY BucketEffects DEF StoresInv, OnlyRecordsOfGivenNames, zoneVars
<1>5. ZonesDue'
  <2>1. cfg' = cfg /\ log \subseteq log'
    BY BucketEffects, LogStays
  <2> QED
    BY <2>1 DEF StoresInv, ZonesDue, Failed, zoneVars
<1> QED
  BY <1>1, <1>2, <1>3, <1>4, <1>5, BucketTurns DEF StoresInv

\* The loop over the zones, and what is left of them.
LEMMA ZoneTurns ==
  ASSUME StoresInv, ZoneProgram \/ ZoneEnvironment
  PROVE  ZonesInTurn' /\ ZonesDue'
<1>1. /\ turn = "HostedZone" /\ exit = "running" /\ cfg' = cfg /\ TypeOK /\ log \subseteq log'
      /\ turn' = "none" <=> exit' = "nil"
  BY ZoneEffects, LogStays DEF StoresInv
<1> USE DEF StoresInv, TypeOK, ZoneTypeOK, ZonesInTurn, ZonesDue, Failed, AtZone, IsTurn
<1>2. ASSUME NEW z \in Zone, NextZone(z)
      PROVE  ZonesInTurn' /\ ZonesDue'
  BY <1>1, <1>2 DEF NextZone, loopVars
<1>3. CASE LastZone
  BY <1>1, <1>3 DEF LastZone, zoneVars
<1>4. CASE RequestRecords
  BY <1>1, <1>4 DEF RequestRecords, Requested
<1>5. CASE RequestRecordsFails
  BY <1>1, <1>5 DEF RequestRecordsFails, Requested, zoneVars
<1>6. CASE SkipBatch
  BY <1>1, <1>6 DEF SkipBatch, AfterBatch, IsBatch, loopVars
<1>7. CASE ChangeRecords
  BY <1>1, <1>7 DEF ChangeRecords, AfterBatch, IsBatch
<1>8. CASE ChangeRecordsFails
  BY <1>1, <1>8 DEF ChangeRecordsFails, AfterBatch, IsBatch
<1>9. CASE RequestZones
  BY <1>1, <1>9 DEF RequestZones, Cached
<1>10. CASE RequestZonesFails
  BY <1>1, <1>10 DEF RequestZonesFails, Cached, zoneVars
<1>11. ASSUME NEW z \in Zone, RequestPublicRecords(z) \/ RequestPublicRecordsFails(z)
       PROVE  ZonesInTurn' /\ ZonesDue'
  BY <1>1, <1>11 DEF RequestPublicRecords, RequestPublicRecordsFails, Collected, zoneVars
<1>12. CASE LastPublic
  BY <1>1, <1>12 DEF LastPublic, loopVars
<1>13. CASE DryRunZone
  BY <1>1, <1>13 DEF DryRunZone, loopVars
<1>14. CASE DeleteZone
  BY <1>1, <1>14 DEF DeleteZone, AfterZone
<1>15. CASE DeleteZoneFails
  BY <1>1, <1>15 DEF DeleteZoneFails, AfterZone, LogAll
<1>16. CASE ZoneEnvironment
  BY <1>1, <1>16 DEF ZoneEnvironment, OthersRemoveRecord, OthersDeleteZone
<1> QED
  BY <1>2, <1>3, <1>4, <1>5, <1>6, <1>7, <1>8, <1>9, <1>10, <1>11, <1>12, <1>13, <1>14, <1>15,
     <1>16 DEF ZoneProgram

\* Strays are of the names in recordSets, which are wanted, and in a public zone.
LEMMA StraysStep ==
  ASSUME StoresInv, ZoneProgram \/ ZoneEnvironment
  PROVE  InPublicZones'
<1> USE DEF StoresInv, TypeOK, ZoneTypeOK, InPublicZones, NamesOf, AtZone
<1>1. ASSUME NEW z \in Zone, NextZone(z)
      PROVE  InPublicZones'
  BY <1>1 DEF NextZone
<1>2. CASE LastZone
  BY <1>2 DEF LastZone, zoneVars
<1>3. CASE RequestRecords
  BY <1>3 DEF RequestRecords, Requested
<1>4. CASE RequestRecordsFails
  BY <1>4 DEF RequestRecordsFails, Requested, zoneVars
<1>5. CASE SkipBatch
  BY <1>5 DEF SkipBatch, AfterBatch, IsBatch
<1>6. CASE ChangeRecords
  BY <1>6 DEF ChangeRecords, AfterBatch, IsBatch
<1>7. CASE ChangeRecordsFails
  BY <1>7 DEF ChangeRecordsFails, AfterBatch, IsBatch
<1>8. CASE RequestZones
  BY <1>8 DEF RequestZones, Cached
<1>9. CASE RequestZonesFails
  BY <1>9 DEF RequestZonesFails, Cached, zoneVars
<1>10. ASSUME NEW z \in Zone, RequestPublicRecords(z) \/ RequestPublicRecordsFails(z)
       PROVE  InPublicZones'
  BY <1>10 DEF RequestPublicRecords, RequestPublicRecordsFails, Collected, Strays, zoneVars
<1>11. CASE LastPublic
  BY <1>11 DEF LastPublic
<1>12. CASE DryRunZone
  BY <1>12 DEF DryRunZone
<1>13. CASE DeleteZone
  BY <1>13 DEF DeleteZone, AfterZone
<1>14. CASE DeleteZoneFails
  BY <1>14 DEF DeleteZoneFails, AfterZone
<1>15. CASE ZoneEnvironment
  BY <1>15 DEF ZoneEnvironment, OthersRemoveRecord, OthersDeleteZone
<1> QED
  BY <1>1, <1>2, <1>3, <1>4, <1>5, <1>6, <1>7, <1>8, <1>9, <1>10, <1>11, <1>12, <1>13, <1>14,
     <1>15 DEF ZoneProgram

\* A batch is of record sets of the zone given, or of strays.
LEMMA RemovedStep ==
  ASSUME StoresInv, ZoneProgram \/ ZoneEnvironment
  PROVE  OnlyRecordsOfGivenNames' /\ wanted \subseteq wanted'
<1>1. wanted \subseteq wanted'
  BY DEF ZoneProgram, ZoneEnvironment, NextZone, LastZone, RequestRecords, Requested,
         RequestRecordsFails, SkipBatch, ChangeRecords, ChangeRecordsFails, RequestZones,
         RequestZonesFails, Cached, RequestPublicRecords, RequestPublicRecordsFails, Collected,
         LastPublic, DryRunZone, DeleteZone, DeleteZoneFails, OthersRemoveRecord,
         OthersDeleteZone, zoneVars
<1>2. removed' = removed \/ (IsBatch /\ ~cfg.DryRun /\ IsAcceptable /\ removed' = removed \cup Batch)
  BY DEF ZoneProgram, ZoneEnvironment, NextZone, LastZone, RequestRecords, Requested,
         RequestRecordsFails, SkipBatch, ChangeRecords, ChangeRecordsFails, CarryOut, RequestZones,
         RequestZonesFails, Cached, RequestPublicRecords, RequestPublicRecordsFails, Collected,
         LastPublic, DryRunZone, DeleteZone, DeleteZoneFails, OthersRemoveRecord,
         OthersDeleteZone, zoneVars
<1>3. cfg' = cfg
  BY ZoneEffects
<1>4. CASE removed' = removed
  BY <1>1, <1>3, <1>4 DEF StoresInv, OnlyRecordsOfGivenNames
<1>5. ASSUME IsBatch, IsAcceptable, NEW r \in Batch
      PROVE  ZoneOf[r] \in Given \/ (ZoneOf[r] \notin Private /\ NameOf[r] \in wanted)
  <2>1. ZoneOf[r] = ZoneOfBatch
    BY <1>5 DEF IsAcceptable
  <2>2. CASE zStep = "delete"
    BY <2>1, <2>2 DEF ZoneOfBatch, StoresInv, ZonesInTurn
  <2>3. CASE zStep = "strays"
    BY <1>5, <2>1, <2>3 DEF ZoneOfBatch, Batch, StoresInv, InPublicZones
  <2> QED
    BY <1>5, <2>2, <2>3 DEF IsBatch, AtZone
<1>6. CASE IsBatch /\ ~cfg.DryRun /\ IsAcceptable /\ removed' = removed \cup Batch
  BY <1>1, <1>3, <1>5, <1>6 DEF StoresInv, OnlyRecordsOfGivenNames
<1> QED
  BY <1>1, <1>2, <1>4, <1>6

LEMMA ZoneStep ==
  ASSUME StoresInv, ZoneProgram \/ ZoneEnvironment, UNCHANGED bucketVars
  PROVE  StoresInv'
<1>1. TypeOK'
  <2>1. LoopTypeOK'
    BY ZoneEffects, LoopAssumption DEF StoresInv, TypeOK, LoopTypeOK, LoopAssumption
  <2>2. BucketTypeOK'
    BY DEF StoresInv, TypeOK, BucketTypeOK, bucketVars
  <2> QED
    BY <2>1, <2>2, ZoneTypes DEF TypeOK
<1>2. BucketsInTurn'
  BY ZoneEffects DEF StoresInv, BucketsInTurn, bucketVars
<1>3. BucketsDue'
  <2>1. cfg' = cfg /\ log \subseteq log'
    BY ZoneEffects, LogStays
  <2> QED
    BY <2>1 DEF StoresInv, BucketsDue, Failed, bucketVars
<1> QED
  BY <1>1, <1>2, <1>3, ZoneTurns, StraysStep, RemovedStep DEF StoresInv

LEMMA StoresStep == StoresInv /\ [Next]_vars => StoresInv'
<1> SUFFICES ASSUME StoresInv, [Next]_vars PROVE StoresInv'
  OBVIOUS
<1>1. CASE UNCHANGED vars
  BY <1>1 DEF vars, loopVars, bucketVars, zoneVars, StoresInv, TypeOK, LoopTypeOK, BucketTypeOK,
              ZoneTypeOK, BucketsInTurn, ZonesInTurn, BucketsDue, ZonesDue, Failed, InPublicZones,
              NamesOf, OnlyRecordsOfGivenNames
<1> QED
  BY <1>1, BucketStep, ZoneStep DEF Next, Program, Environment, Terminated

\* A run ends well only when nothing is left to do.
LEMMA DoneMeansReported == StoresInv => LeftBehindIsReported
  BY DEF StoresInv, BucketsInTurn, ZonesInTurn, BucketsDue, ZonesDue, LeftBehindIsReported

(***************************************************************************)
(* Runs that stop at errors.                                               *)
(***************************************************************************)
LEMMA NamesInit == Init => NamesInv
  BY StoresInit, ZoneAssumption
     DEF Init, ZoneInit, NamesInv, RecordsAreHosted, NamesDue, ZoneAssumption

\* Zones are deleted only when they are empty, and no record set is added.
LEMMA HostedStep ==
  ASSUME StoresInv, RecordsAreHosted, ZoneProgram \/ ZoneEnvironment
  PROVE  RecordsAreHosted' /\ records' \subseteq records
<1>1. /\ records' \subseteq records
      /\ \/ hosted' = hosted
         \/ \E z : hosted' = hosted \ {z} /\ records' = records /\ \A r \in records : ZoneOf[r] # z
  BY DEF ZoneProgram, ZoneEnvironment, NextZone, LastZone, RequestRecords, Requested,
         RequestRecordsFails, SkipBatch, ChangeRecords, ChangeRecordsFails, CarryOut, RequestZones,
         RequestZonesFails, Cached, RequestPublicRecords, RequestPublicRecordsFails, Collected,
         LastPublic, DryRunZone, DeleteZone, DeleteZoneFails, IsEmptyZone, OthersRemoveRecord,
         OthersDeleteZone, zoneVars
<1> QED
  BY <1>1 DEF RecordsAreHosted

\* No name that is wanted is lost sight of.
LEMMA NamesDueStep ==
  ASSUME NamesInv, ZoneProgram \/ ZoneEnvironment
  PROVE  NamesDue'
<1>1. cfg' = cfg /\ exit = "running" /\ records' \subseteq records
  BY ZoneEffects, HostedStep DEF NamesInv
<1> SUFFICES ASSUME exit' # "error", ~cfg.DryRun, ~cfg.IgnoreErrors,
                    NEW r \in records' \ Delegations, ZoneOf[r] \notin Private,
                    NameOf[r] \in wanted'
             PROVE  /\ zStep' \in {"public", "strays"} /\ NameOf[r] \in NamesOf(recordSets')
                    /\ ZoneOf[r] \in publics' \/ r \in strays'
  BY <1>1 DEF NamesDue, NamesOf
<1> USE <1>1 DEF NamesInv, NamesDue, AtZone, IsTurn
<1>2. ASSUME NEW z \in Zone, NextZone(z)
      PROVE  FALSE
  BY <1>2 DEF NextZone
<1>3. CASE LastZone
  BY <1>3 DEF LastZone, zoneVars
<1>4. CASE RequestRecords
  BY <1>4 DEF RequestRecords, Requested
<1>5. CASE RequestRecordsFails
  BY <1>5 DEF RequestRecordsFails
<1>6. CASE SkipBatch
  BY <1>6 DEF SkipBatch, AfterBatch, IsBatch, Batch
<1>7. CASE ChangeRecords
  BY <1>7 DEF ChangeRecords, CarryOut, AfterBatch, IsBatch, Batch
<1>8. CASE ChangeRecordsFails
  BY <1>8 DEF ChangeRecordsFails
<1>9. CASE RequestZones
  BY <1>9 DEF RequestZones, Cached, PublicAmong, RecordsAreHosted
<1>10. CASE RequestZonesFails
  BY <1>10 DEF RequestZonesFails
<1>11. ASSUME NEW z \in Zone, RequestPublicRecords(z)
       PROVE  /\ zStep' \in {"public", "strays"} /\ NameOf[r] \in NamesOf(recordSets')
              /\ ZoneOf[r] \in publics' \/ r \in strays'
  BY <1>11 DEF RequestPublicRecords, Collected, Strays, RecordSetsOf
<1>12. ASSUME NEW z \in Zone, RequestPublicRecordsFails(z)
       PROVE  FALSE
  BY <1>12 DEF RequestPublicRecordsFails
<1>13. CASE LastPublic
  <2>1. strays = {} /\ publics = {} /\ wanted' = wanted
    BY <1>13 DEF LastPublic, StoresInv, InPublicZones
  <2> QED
    BY <2>1
<1>14. CASE DryRunZone
  BY <1>14 DEF DryRunZone
<1>15. CASE DeleteZone
  BY <1>15 DEF DeleteZone, AfterZone
<1>16. CASE DeleteZoneFails
  BY <1>16 DEF DeleteZoneFails
<1>17. CASE ZoneEnvironment
  BY <1>17 DEF ZoneEnvironment, OthersRemoveRecord, OthersDeleteZone
<1> QED
  BY <1>2, <1>3, <1>4, <1>5, <1>6, <1>7, <1>8, <1>9, <1>10, <1>11, <1>12, <1>13, <1>14, <1>15,
     <1>16, <1>17 DEF ZoneProgram

LEMMA NamesStep == NamesInv /\ [Next]_vars => NamesInv'
<1> SUFFICES ASSUME NamesInv, [Next]_vars PROVE RecordsAreHosted' /\ NamesDue'
  BY StoresStep DEF NamesInv
<1>1. CASE UNCHANGED vars
  BY <1>1 DEF vars, loopVars, zoneVars, NamesInv, RecordsAreHosted, NamesDue, NamesOf
<1>2. CASE (BucketProgram \/ BucketEnvironment) /\ UNCHANGED zoneVars
  <2>1. cfg' = cfg /\ exit = "running"
    BY <1>2, BucketEffects DEF NamesInv
  <2> QED
    BY <1>2, <2>1 DEF zoneVars, NamesInv, RecordsAreHosted, NamesDue, NamesOf
<1>3. CASE ZoneProgram \/ ZoneEnvironment
  BY <1>3, HostedStep, NamesDueStep DEF NamesInv
<1> QED
  BY <1>1, <1>2, <1>3 DEF Next, Program, Environment, Terminated

(***************************************************************************)
(* Runs in which nothing fails.                                            *)
(***************************************************************************)

\* S3 takes as many keys in one request as it gives in one answer.
AnswersFit == PageSize <= MaxKeys

LEMMA UndisturbedInit == Init => UndisturbedInv
<1> SUFFICES ASSUME Init PROVE NoDelegations /\ AllGoesWell
  BY StoresInit DEF UndisturbedInv
<1> USE DEF Init, LoopInit, BucketInit, ZoneInit
<1>1. NoDelegations
  BY DEF NoDelegations
<1>2. BucketIsEmptied /\ ZoneIsEmptied
  BY ZoneAssumption DEF BucketIsEmptied, ZoneIsEmptied, ZoneAssumption
<1> QED
  BY <1>1, <1>2 DEF AllGoesWell

\* NS record sets are not listed.
LEMMA NoDelegationsStep ==
  ASSUME StoresInv, NoDelegations, ZoneProgram \/ ZoneEnvironment
  PROVE  NoDelegations'
<1>1. /\ recordSets' \subseteq recordSets \/ \E z : recordSets' \subseteq RecordSetsOf(z)
      /\ strays' \subseteq strays \/ \E z : strays' \subseteq strays \cup RecordSetsOf(z)
  BY DEF ZoneProgram, ZoneEnvironment, NextZone, LastZone, RequestRecords, Requested,
         RequestRecordsFails, SkipBatch, ChangeRecords, ChangeRecordsFails, AfterBatch, RequestZones,
         RequestZonesFails, Cached, RequestPublicRecords, RequestPublicRecordsFails, Collected, Strays,
         LastPublic, DryRunZone, DeleteZone, DeleteZoneFails, OthersRemoveRecord,
         OthersDeleteZone, zoneVars
<1> QED
  BY <1>1 DEF NoDelegations, RecordSetsOf

\* A run that is undisturbed was so before: it removes no delegation itself.
LEMMA UndisturbedBefore ==
  ASSUME UndisturbedInv, Next, Undisturbed'
  PROVE  Undisturbed /\ faults' = faults
<1>1. faults \in Nat /\ faults' = 0
  BY LoopAssumption DEF UndisturbedInv, StoresInv, TypeOK, LoopTypeOK, LoopAssumption, Undisturbed
<1>2. faults = 0
  <2>1. BucketProgram \/ BucketEnvironment => faults' = faults \/ faults' = faults + 1
    BY BucketEffects DEF UndisturbedInv
  <2>2. ZoneProgram \/ ZoneEnvironment => faults' = faults \/ faults' = faults + 1
    BY ZoneEffects DEF UndisturbedInv
  <2>3. UNCHANGED vars => faults' = faults
    BY DEF vars, loopVars
  <2> QED
    BY <1>1, <2>1, <2>2, <2>3 DEF Next, Program, Environment, Terminated
<1>3. Delegations \cap records \subseteq records'
  <2>1. BucketProgram \/ BucketEnvironment => cfg' = cfg
    BY BucketEffects DEF UndisturbedInv
  <2>2. CASE UNCHANGED zoneVars
    BY <2>2 DEF zoneVars
  <2>3. CASE ZoneEnvironment
    BY <1>1, <1>2, <2>3 DEF ZoneEnvironment, OthersRemoveRecord, OthersDeleteZone, Disturb
  <2>4. CASE ZoneProgram
    <3>1. records' = records \/ records' = records \ Batch
      BY <2>4
         DEF ZoneProgram, NextZone, LastZone, RequestRecords, Requested, RequestRecordsFails,
             SkipBatch, ChangeRecords, ChangeRecordsFails, CarryOut, RequestZones,
             RequestZonesFails, Cached, RequestPublicRecords, RequestPublicRecordsFails,
             Collected, LastPublic, DryRunZone, DeleteZone, DeleteZoneFails, zoneVars
    <3> QED
      BY <3>1 DEF UndisturbedInv, NoDelegations, Batch
  <2> QED
    BY <2>2, <2>3, <2>4 DEF Next, Program, Environment, Terminated, vars
<1> QED
  BY <1>1, <1>2, <1>3 DEF Undisturbed, HasDelegation

\* A bucket that nobody else uses is listed at once and emptied.
LEMMA EmptyingBucket ==
  ASSUME AnswersFit, UndisturbedInv, Undisturbed, faults' = faults,
         BucketProgram \/ BucketEnvironment
  PROVE  exit' # "error" /\ BucketIsEmptied'
<1>1. /\ exit = "running" /\ cfg' = cfg /\ turn = "S3Bucket" /\ TypeOK /\ BucketsInTurn
      /\ BucketIsEmptied
  BY BucketEffects DEF UndisturbedInv, StoresInv, AllGoesWell
<1>2. ~Disturb
  BY LoopAssumption DEF Disturb, UndisturbedInv, StoresInv, TypeOK, LoopTypeOK, LoopAssumption
<1> USE <1>1, <1>2 DEF BucketIsEmptied, AtBucket, TypeOK, BucketTypeOK, BucketsInTurn, IsTurn
<1>3. ASSUME NEW b \in Bucket, NextBucket(b)
      PROVE  exit' # "error" /\ BucketIsEmptied'
  BY <1>3 DEF NextBucket, loopVars
<1>4. CASE LastBucket
  BY <1>4 DEF LastBucket, bucketVars
<1>5. CASE RequestObjects
  <2> DEFINE K == contents[bucket]
  <2>1. K \in SUBSET Key
    BY <1>5 DEF RequestObjects
  <2>2. ASSUME ~IsTruncated(K) PROVE K \subseteq keys' /\ size' <= MaxKeys
    <3>1. /\ FirstPage(K) = K /\ Cardinality(K) <= PageSize
          /\ Cardinality(K) \in Nat
      BY <2>1, <2>2, Pages
    <3>2. keys = {} /\ size = 0
      BY <1>5, <2>2 DEF RequestObjects
    <3> QED
      BY <1>5, <3>1, <3>2, BucketAssumption DEF RequestObjects, AnswersFit, BucketAssumption
  <2>3. IsTruncated(K) => bStep' = "list"
    BY <1>5 DEF RequestObjects
  <2>4. ~IsTruncated(K) => bStep' = "objects"
    BY <1>5 DEF RequestObjects
  <2>5. UNCHANGED <<loopVars, buckets, bucket, contents, stores>> /\ bStep = "list"
    BY <1>5 DEF RequestObjects
  <2>6. IsTruncated(contents[bucket])' <=> IsTruncated(contents[bucket])
    BY <2>5 DEF IsTruncated
  <2> QED
    BY <2>2, <2>3, <2>4, <2>5, <2>6 DEF loopVars
<1>6. CASE RequestObjectsFails
  BY <1>6 DEF RequestObjectsFails
<1>7. CASE SkipObjects
  BY <1>7 DEF SkipObjects, NoObjectsRequested, loopVars
<1>8. CASE DeleteObjects
  <2>1. contents' = Without(keys)
    BY <1>8 DEF DeleteObjects
  <2>2. contents'[bucket] = {}
    BY <1>8, <2>1 DEF DeleteObjects, Without
  <2> QED
    BY <1>8, <2>2 DEF DeleteObjects
<1>9. CASE DeleteObjectsFails
  <2>1. size <= MaxKeys /\ bucket \in stores
    BY <1>9 DEF DeleteObjectsFails
  <2>2. ~(size > MaxKeys)
    BY <2>1, BucketAssumption DEF BucketAssumption
  <2> QED
    BY <1>9, <2>1, <2>2 DEF DeleteObjectsFails
<1>10. CASE DryRunBucket
  BY <1>10 DEF DryRunBucket, loopVars
<1>11. CASE DeleteBucket
  BY <1>11 DEF DeleteBucket
<1>12. CASE DeleteBucketFails
  BY <1>12 DEF DeleteBucketFails
<1>13. CASE BucketEnvironment
  BY <1>13 DEF BucketEnvironment, OthersDeleteBucket, OthersPut, OthersRemove
<1> QED
  BY <1>3, <1>4, <1>5, <1>6, <1>7, <1>8, <1>9, <1>10, <1>11, <1>12, <1>13 DEF BucketProgram

\* A zone that nobody else uses is emptied.
LEMMA EmptyingZone ==
  ASSUME UndisturbedInv, Undisturbed, faults' = faults, ZoneProgram \/ ZoneEnvironment
  PROVE  exit' # "error" /\ ZoneIsEmptied'
<1>1. /\ exit = "running" /\ cfg' = cfg /\ turn = "HostedZone" /\ TypeOK /\ ZonesInTurn
      /\ InPublicZones /\ ZoneIsEmptied
  BY ZoneEffects DEF UndisturbedInv, StoresInv, AllGoesWell
<1>2. ~Disturb
  BY LoopAssumption DEF Disturb, UndisturbedInv, StoresInv, TypeOK, LoopTypeOK, LoopAssumption
<1>3. \A z \in Given : \A r \in records : ZoneOf[r] = z => r \in RecordSetsOf(z)
  BY DEF Undisturbed, HasDelegation, RecordSetsOf
<1> USE <1>1, <1>2 DEF ZoneIsEmptied, AtZone, TypeOK, ZoneTypeOK, ZonesInTurn, IsTurn
<1>4. ASSUME NEW z \in Zone, NextZone(z)
      PROVE  exit' # "error" /\ ZoneIsEmptied'
  BY <1>4 DEF NextZone, loopVars
<1>5. CASE LastZone
  BY <1>5 DEF LastZone, zoneVars, RecordSetsOf
<1>6. CASE RequestRecords
  BY <1>6 DEF RequestRecords, Requested, RecordSetsOf
<1>7. CASE RequestRecordsFails
  BY <1>7 DEF RequestRecordsFails
<1>8. CASE SkipBatch
  <2>1. /\ UNCHANGED <<loopVars, zones, zone, publics, public, hosted, records>>
        /\ strays' = {} /\ (Batch = {} \/ cfg.DryRun)
        /\ \/ zStep = "delete" /\ zStep' = "all" /\ Batch = recordSets
           \/ zStep = "strays" /\ zStep' = "public"
    BY <1>8 DEF SkipBatch, AfterBatch, IsBatch, Batch
  <2>2. ~cfg.DryRun => \A r \in records : ZoneOf[r] # zone
    BY <1>3, <2>1
  <2> QED
    BY <2>1, <2>2 DEF loopVars
<1>9. CASE ChangeRecords
  <2>1. /\ UNCHANGED <<cfg, turn, exit, zones, zone, publics, public, hosted>>
        /\ strays' = {} /\ records' = records \ Batch
        /\ \/ zStep = "delete" /\ zStep' = "all" /\ Batch = recordSets
           \/ zStep = "strays" /\ zStep' = "public"
    BY <1>9 DEF ChangeRecords, CarryOut, AfterBatch, IsBatch, Batch
  <2>2. ~cfg.DryRun => \A r \in records' : ZoneOf[r] # zone
    BY <1>3, <2>1
  <2> QED
    BY <2>1, <2>2
<1>10. CASE ChangeRecordsFails
  <2>1. ~IsAcceptable /\ IsBatch
    BY <1>10 DEF ChangeRecordsFails
  <2>2. zStep = "delete" => IsAcceptable
    BY DEF IsAcceptable, Batch, ZoneOfBatch, RecordSetsOf
  <2>3. zStep = "strays" => IsAcceptable
    BY DEF IsAcceptable, Batch, ZoneOfBatch
  <2> QED
    BY <2>1, <2>2, <2>3 DEF IsBatch
<1>11. CASE RequestZones
  BY <1>11 DEF RequestZones, Cached, PublicAmong
<1>12. CASE RequestZonesFails
  BY <1>12 DEF RequestZonesFails
<1>13. ASSUME NEW z \in Zone, RequestPublicRecords(z)
       PROVE  exit' # "error" /\ ZoneIsEmptied'
  <2>1. /\ zStep = "public" /\ zStep' = "strays" /\ public' = z /\ publics' \subseteq publics
        /\ strays' \subseteq RecordSetsOf(z)
        /\ UNCHANGED <<cfg, exit, turn, zones, zone, hosted, records>>
    BY <1>13 DEF RequestPublicRecords, Collected, Strays, InPublicZones
  <2> QED
    BY <2>1 DEF RecordSetsOf
<1>14. ASSUME NEW z \in Zone, RequestPublicRecordsFails(z)
       PROVE  FALSE
  BY <1>14 DEF RequestPublicRecordsFails
<1>15. CASE LastPublic
  BY <1>15 DEF LastPublic, loopVars
<1>16. CASE DryRunZone
  BY <1>16 DEF DryRunZone, loopVars
<1>17. CASE DeleteZone
  BY <1>17 DEF DeleteZone, AfterZone, InPublicZones
<1>18. CASE DeleteZoneFails
  BY <1>18 DEF DeleteZoneFails, IsEmptyZone
<1>19. CASE ZoneEnvironment
  BY <1>19 DEF ZoneEnvironment, OthersRemoveRecord, OthersDeleteZone
<1> QED
  BY <1>4, <1>5, <1>6, <1>7, <1>8, <1>9, <1>10, <1>11, <1>12, <1>13, <1>14, <1>15, <1>16, <1>17,
     <1>18, <1>19 DEF ZoneProgram

LEMMA UndisturbedStep ==
  ASSUME AnswersFit
  PROVE  UndisturbedInv /\ [Next]_vars => UndisturbedInv'
<1> SUFFICES ASSUME UndisturbedInv, [Next]_vars PROVE NoDelegations' /\ AllGoesWell'
  BY StoresStep DEF UndisturbedInv
<1>1. CASE UNCHANGED vars
  BY <1>1 DEF vars, loopVars, bucketVars, zoneVars, UndisturbedInv, NoDelegations, AllGoesWell,
              Undisturbed, HasDelegation, BucketIsEmptied, IsTruncated, ZoneIsEmptied, RecordSetsOf
<1>2. CASE (BucketProgram \/ BucketEnvironment) /\ UNCHANGED zoneVars
  <2>1. NoDelegations'
    BY <1>2 DEF zoneVars, UndisturbedInv, NoDelegations
  <2>2. ASSUME Undisturbed'
        PROVE  exit' # "error" /\ BucketIsEmptied' /\ ZoneIsEmptied'
    <3>1. Undisturbed /\ faults' = faults
      BY <1>2, <2>2, UndisturbedBefore DEF Next, Program, Environment
    <3>2. exit' # "error" /\ BucketIsEmptied'
      BY <1>2, <3>1, EmptyingBucket
    <3>3. cfg' = cfg /\ ZoneIsEmptied
      BY <1>2, <3>1, BucketEffects DEF UndisturbedInv, AllGoesWell
    <3>4. ZoneIsEmptied'
      BY <1>2, <3>3 DEF ZoneIsEmptied, RecordSetsOf, zoneVars
    <3> QED
      BY <3>2, <3>4
  <2> QED
    BY <2>1, <2>2 DEF AllGoesWell
<1>3. CASE (ZoneProgram \/ ZoneEnvironment) /\ UNCHANGED bucketVars
  <2>1. NoDelegations'
    BY <1>3, NoDelegationsStep DEF UndisturbedInv
  <2>2. ASSUME Undisturbed'
        PROVE  exit' # "error" /\ BucketIsEmptied' /\ ZoneIsEmptied'
    <3>1. Undisturbed /\ faults' = faults
      BY <1>3, <2>2, UndisturbedBefore DEF Next, Program, Environment
    <3>2. exit' # "error" /\ ZoneIsEmptied'
      BY <1>3, <3>1, EmptyingZone
    <3>3. cfg' = cfg /\ BucketIsEmptied
      BY <1>3, <3>1, ZoneEffects DEF UndisturbedInv, AllGoesWell
    <3>4. BucketIsEmptied'
      BY <1>3, <3>3 DEF BucketIsEmptied, IsTruncated, bucketVars
    <3> QED
      BY <3>2, <3>4
  <2> QED
    BY <2>1, <2>2 DEF AllGoesWell
<1> QED
  BY <1>1, <1>2, <1>3 DEF Next, Program, Environment, Terminated

LEMMA UndisturbedMeansSuccess == UndisturbedInv => UndisturbedRunSucceeds
  BY DEF UndisturbedInv, StoresInv, BucketsInTurn, ZonesInTurn, AllGoesWell, Undisturbed,
         BucketIsEmptied, ZoneIsEmptied, UndisturbedRunSucceeds

(***************************************************************************)
(* The theorems.                                                           *)
(***************************************************************************)

\* The deleters of buckets and zones keep to the types of their variables.
THEOREM StoresTypes == Spec => []TypeOK
<1>1. StoresInv => TypeOK
  BY DEF StoresInv
<1> QED
  BY StoresInit, StoresStep, <1>1, PTL DEF Spec

\* No record set of an unrelated zone is deleted unless it is public and has a name
\* of a zone that is to be deleted.
THEOREM OnlyRecordsOfGivenNamesHolds == Spec => []OnlyRecordsOfGivenNames
<1>1. StoresInv => OnlyRecordsOfGivenNames
  BY DEF StoresInv
<1> QED
  BY StoresInit, StoresStep, <1>1, PTL DEF Spec

\* Whatever fails or others change, no bucket or zone is left behind unnoticed by a
\* run that ends well, but a bucket that could not be listed.
THEOREM LeftBehindIsReportedHolds == Spec => []LeftBehindIsReported
BY StoresInit, StoresStep, DoneMeansReported, PTL DEF Spec

\* A run that stops at errors and ends well leaves none of the names in a public zone.
THEOREM NoNameLeftBehindHolds == Spec => []NoNameLeftBehind
<1>1. NamesInv => NoNameLeftBehind
  BY DEF NamesInv, StoresInv, ZonesInTurn, NamesDue, NoNameLeftBehind
<1> QED
  BY NamesInit, NamesStep, <1>1, PTL DEF Spec

\* Unless something fails or others change something, everything is deleted.
THEOREM UndisturbedRunSucceedsHolds ==
  ASSUME AnswersFit
  PROVE  Spec => []UndisturbedRunSucceeds
BY UndisturbedInit, UndisturbedStep, UndisturbedMeansSuccess, PTL DEF Spec
=============================================================================
