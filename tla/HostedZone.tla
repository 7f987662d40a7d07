----------------------------- MODULE HostedZone -----------------------------
(***************************************************************************)
(* Route53HostedZoneDeleter.DeleteResources (deleter/route53.go): for one  *)
(* zone after the other, list its record sets and delete them in one       *)
(* batch, delete the record sets of the same names from every public zone  *)
(* of the account, delete the zone.  Route 53 carries out a batch as a     *)
(* whole or not at all, and deletes no zone with records of its own.       *)
(***************************************************************************)
EXTENDS StoreLoop

CONSTANTS
  Zone,         \* the zones of the account
  Given,        \* those that are to be deleted
  Private,      \* the private ones
  NoZone,
  Record,       \* record sets, but the NS and SOA sets a zone is created with
  ZoneOf,       \* the zone of each
  NameOf,       \* the name of each
  Delegations,  \* the NS sets among them
  Records       \* those there may be when the run begins

ASSUME ZoneAssumption ==
  /\ NoZone \notin Zone /\ Given \subseteq Zone /\ Private \subseteq Zone
  /\ ZoneOf \in [Record -> Zone] /\ DOMAIN NameOf = Record
  /\ Delegations \subseteq Record /\ Records \subseteq SUBSET Record

VARIABLES
  zones,      \* ResourceNames not reached yet
  zone,       \* the one the loop is at
  zStep,      \* "next", "records", "delete", "all", "public", "strays" or "zone"
  recordSets, \* ResourceRecordSets of recordSetDeleter
  publics,    \* cachedPublicHostedZones not reached yet
  public,     \* the one that loop is at: HostedZoneID of recordSetDel
  strays,     \* ResourceRecordSets of recordSetDel
  hosted,     \* the zones that exist, in Route 53
  records,    \* the record sets that exist
  wanted,     \* history: names of the record sets looked for in public zones
  removed     \* history: record sets deleted by this run

zoneVars ==
  <<zones, zone, zStep, recordSets, publics, public, strays, hosted, records,
    wanted, removed>>

AtZone(step) == IsTurn("HostedZone") /\ zStep = step

(***************************************************************************)
(* RequestRoute53ResourceRecordSets leaves out NS and SOA record sets.     *)
(***************************************************************************)
RecordSetsOf(z) == {r \in records \ Delegations : ZoneOf[r] = z}

NamesOf(R) == {NameOf[r] : r \in R}

ZoneInit ==
  /\ zones = Given /\ zone = NoZone /\ zStep = "next"
  /\ recordSets = {} /\ publics = {} /\ public = NoZone /\ strays = {}
  /\ hosted = Zone /\ records \in Records
  /\ wanted = {} /\ removed = {}

(***************************************************************************)
(* The loop over the zones.                                                *)
(***************************************************************************)
NextZone(z) ==
  /\ AtZone("next") /\ z \in zones
  /\ zones' = zones \ {z} /\ zone' = z
  /\ zStep' = "records" /\ recordSets' = {}
  /\ UNCHANGED <<loopVars, publics, public, strays, hosted, records, wanted, removed>>

LastZone ==
  /\ AtZone("next") /\ zones = {}
  /\ turn' = "none" /\ exit' = "nil"
  /\ UNCHANGED <<zoneVars, cfg, log, faults>>

Requested(sets) ==
  /\ recordSets' = sets /\ zStep' = "delete"
  /\ UNCHANGED <<cfg, turn, log, zones, zone, publics, public, strays, hosted, records,
                 wanted, removed>>

RequestRecords ==
  /\ AtZone("records") /\ zone \in hosted
  /\ Requested(RecordSetsOf(zone))
  /\ UNCHANGED <<exit, faults>>

\* With IgnoreErrors the method goes on with what was listed before the error.
RequestRecordsFails ==
  /\ AtZone("records")
  /\ Disturb \/ (zone \notin hosted /\ UNCHANGED faults)
  /\ IF cfg.IgnoreErrors
     THEN UNCHANGED exit /\ \E sets \in SUBSET RecordSetsOf(zone) : Requested(sets)
     ELSE /\ exit' = "error"
          /\ UNCHANGED <<cfg, turn, log, zoneVars>>

(***************************************************************************)
(* Route53ResourceRecordSetDeleter.DeleteResources, called for the zone    *)
(* itself and for every public zone.                                       *)
(***************************************************************************)
IsBatch == AtZone("delete") \/ AtZone("strays")
Batch == IF zStep = "delete" THEN recordSets ELSE strays
ZoneOfBatch == IF zStep = "delete" THEN zone ELSE public

AfterBatchKeepingStrays ==
  /\ zStep' = IF zStep = "delete" THEN "all" ELSE "public"
  /\ UNCHANGED strays
AfterFirstBatch ==
  /\ zStep' = IF zStep = "delete" THEN "all" ELSE "zone"
  /\ strays' = {}

\* The loop over the public zones empties its list after every zone.
AfterBatch ==
  /\ zStep' = IF zStep = "delete" THEN "all" ELSE "public"
  /\ strays' = {}

SkipBatch ==
  /\ IsBatch /\ (Batch = {} \/ cfg.DryRun)
  /\ AfterBatch
  /\ UNCHANGED <<loopVars, zones, zone, recordSets, publics, public, hosted, records,
                 wanted, removed>>

IsAcceptable == Batch \subseteq {r \in records : ZoneOf[r] = ZoneOfBatch}

CarryOut == records' = records \ Batch /\ removed' = removed \cup Batch

ChangeRecords ==
  /\ IsBatch /\ Batch # {} /\ ~cfg.DryRun
  /\ IsAcceptable /\ CarryOut
  /\ LogAll(Batch, "deleted")
  /\ AfterBatch
  /\ UNCHANGED <<cfg, turn, exit, faults, zones, zone, recordSets, publics, public,
                 hosted, wanted>>

\* One record set that is gone fails the batch; an answer may be lost.
ChangeRecordsFails ==
  /\ IsBatch /\ Batch # {} /\ ~cfg.DryRun
  /\ \/ ~IsAcceptable /\ UNCHANGED <<faults, records, removed>>
     \/ Disturb /\ (UNCHANGED <<records, removed>> \/ (IsAcceptable /\ CarryOut))
  /\ LogAll(Batch, "failed")
  /\ IF cfg.IgnoreErrors THEN AfterBatch /\ UNCHANGED exit
     ELSE exit' = "error" /\ UNCHANGED <<zStep, strays>>
  /\ UNCHANGED <<cfg, turn, zones, zone, recordSets, publics, public, hosted, wanted>>

(***************************************************************************)
(* deleteRecordSetsFromPublicHostedZones: every zone of the account that   *)
(* is not private, be it related to this one, to be deleted, or this one.  *)
(***************************************************************************)
PublicOrNot(zs) == zs

PublicAmong(zs) == zs \ Private

Cached(zs) ==
  /\ publics' = PublicAmong(zs) /\ zStep' = "public"
  /\ wanted' = wanted \cup NamesOf(recordSets)
  /\ UNCHANGED <<cfg, turn, log, zones, zone, recordSets, public, strays, hosted,
                 records, removed>>

RequestZones ==
  /\ AtZone("all")
  /\ Cached(hosted)
  /\ UNCHANGED <<exit, faults>>

RequestZonesFails ==
  /\ AtZone("all") /\ Disturb
  /\ IF cfg.IgnoreErrors
     THEN UNCHANGED exit /\ \E zs \in SUBSET hosted : Cached(zs)
     ELSE /\ exit' = "error"
          /\ UNCHANGED <<cfg, turn, log, zoneVars>>

StraysOfAnyName(sets) == sets

Strays(sets) == {r \in sets : NameOf[r] \in NamesOf(recordSets)}

Collected(z, sets) ==
  /\ publics' = publics \ {z} /\ public' = z
  /\ strays' = strays \cup Strays(sets) /\ zStep' = "strays"
  /\ UNCHANGED <<cfg, turn, log, zones, zone, recordSets, hosted, records, wanted,
                 removed>>

RequestPublicRecords(z) ==
  /\ AtZone("public") /\ z \in publics /\ z \in hosted
  /\ Collected(z, RecordSetsOf(z))
  /\ UNCHANGED <<exit, faults>>

RequestPublicRecordsFails(z) ==
  /\ AtZone("public") /\ z \in publics
  /\ Disturb \/ (z \notin hosted /\ UNCHANGED faults)
  /\ IF cfg.IgnoreErrors
     THEN UNCHANGED exit /\ \E sets \in SUBSET RecordSetsOf(z) : Collected(z, sets)
     ELSE /\ exit' = "error"
          /\ UNCHANGED <<cfg, turn, log, zoneVars>>

LastPublic ==
  /\ AtZone("public") /\ publics = {}
  /\ zStep' = "zone"
  /\ UNCHANGED <<loopVars, zones, zone, recordSets, publics, public, strays, hosted,
                 records, wanted, removed>>

(***************************************************************************)
(* DeleteHostedZone                                                        *)
(***************************************************************************)
AfterZoneUnlogged(result) == zStep' = "next" /\ UNCHANGED log
AfterZoneDeleted(result) ==
  /\ zStep' = IF result = "deleted" THEN "next" ELSE zStep
  /\ LogAll({zone}, result)

AfterZone(result) == zStep' = "next" /\ LogAll({zone}, result)

DryRunZone ==
  /\ AtZone("zone") /\ cfg.DryRun
  /\ zStep' = "next"
  /\ UNCHANGED <<loopVars, zones, zone, recordSets, publics, public, strays, hosted,
                 records, wanted, removed>>

IsEmptyZone == zone \in hosted /\ \A r \in records : ZoneOf[r] # zone

DeleteZone ==
  /\ AtZone("zone") /\ ~cfg.DryRun
  /\ IsEmptyZone /\ hosted' = hosted \ {zone}
  /\ AfterZone("deleted")
  /\ UNCHANGED <<cfg, turn, exit, faults, zones, zone, recordSets, publics, public,
                 strays, records, wanted, removed>>

DeleteZoneFails ==
  /\ AtZone("zone") /\ ~cfg.DryRun
  /\ \/ ~IsEmptyZone /\ UNCHANGED <<faults, hosted>>
     \/ Disturb /\ (UNCHANGED hosted \/ (IsEmptyZone /\ hosted' = hosted \ {zone}))
  /\ AfterZone("failed")
  /\ IF cfg.IgnoreErrors THEN UNCHANGED exit ELSE exit' = "error"
  /\ UNCHANGED <<cfg, turn, zones, zone, recordSets, publics, public, strays, records,
                 wanted, removed>>

(***************************************************************************)
(* Other users of the zones.                                               *)
(***************************************************************************)
OthersRemoveRecord(r) ==
  /\ Disturb
  /\ r \in records /\ records' = records \ {r}
  /\ UNCHANGED <<cfg, turn, exit, log, zones, zone, zStep, recordSets, publics, public,
                 strays, hosted, wanted, removed>>

OthersDeleteZone(z) ==
  /\ Disturb
  /\ z \in hosted /\ \A r \in records : ZoneOf[r] # z
  /\ hosted' = hosted \ {z}
  /\ UNCHANGED <<cfg, turn, exit, log, zones, zone, zStep, recordSets, publics, public,
                 strays, records, wanted, removed>>

ZoneProgram ==
  \/ \E z \in Zone : NextZone(z)
  \/ LastZone \/ RequestRecords \/ RequestRecordsFails
  \/ SkipBatch \/ ChangeRecords \/ ChangeRecordsFails
  \/ RequestZones \/ RequestZonesFails
  \/ \E z \in Zone : RequestPublicRecords(z) \/ RequestPublicRecordsFails(z)
  \/ LastPublic
  \/ DryRunZone \/ DeleteZone \/ DeleteZoneFails

\* What others do before this deleter runs makes another beginning.
ZoneEnvironment ==
  /\ IsTurn("HostedZone")
  /\ \/ \E r \in Record : OthersRemoveRecord(r)
     \/ \E z \in Zone : OthersDeleteZone(z)

ZoneTypeOK ==
  /\ zones \subseteq Given /\ zone \in Given \cup {NoZone}
  /\ zStep \in {"next", "records", "delete", "all", "public", "strays", "zone"}
  /\ recordSets \subseteq Record /\ strays \subseteq Record
  /\ publics \subseteq Zone \ Private /\ public \in Zone \cup {NoZone}
  /\ hosted \subseteq Zone /\ records \subseteq Record
  /\ wanted \subseteq NamesOf(Record) /\ removed \subseteq Record
=============================================================================
