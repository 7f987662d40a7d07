# Grafiti in TLA+

Specifications of [grafiti](../src/README.md), a command line tool that finds, tags and
deletes AWS resources, with TLC configurations and TLAPS proofs.

Each command of grafiti is sequential. What makes it hard is everything around it: AWS
finishes deletions later, refuses to delete what is depended on, fails requests or
loses their answers, lists in any order and in pages; auto scaling and the owners of
the resources change the same account during a run; maps are walked in random order;
and most errors may be ignored (`--ignore-errors`), after which the command goes on
with what it has.

## The system

| Component | Source (under `src/`) | State | Operations | Hard because | Correct when |
|---|---|---|---|---|---|
| Search by tag | `cmd/grafiti/delete.go` 127-448 | list of ARNs, filters, page tokens | `deleteFromTags`, `getARNsForResource`, `getARNsForUnsupportedResource`, `bucketARNs` | pages, chunks, three APIs with different rules, errors ignored in between | all that was asked for is found, and nothing else |
| Dependency graph | `graph/graph.go` | map from types to deleters | `FillDependencyGraph`, `traverseDependencyGraph` | one pass over fixed rounds, shared dependencies | the map is closed and holds nothing of a default VPC |
| Delete run | `cmd/grafiti/delete.go` 455-520, `deleter/deleter.go` | remaining types, exit | `deleteARNs`, `organizeByDelOrder` | order of deletion, errors, dry run | what blocks goes first, nothing is forgotten |
| Resource deleters | `deleter/ec2.go`, `iam.go`, `elb.go`, `autoscaling.go` | `ResourceNames` | `DeleteResources`, 25 top-level methods and those of parts | asynchronous deletion, parts, defaults, other actors | only what was given is touched |
| NAT gateway polling | `deleter/ec2.go` 1200-1345 | two lists, a timeout | `waitUntilNatGatewaysDeleted` and what it calls | chunks, pages, gateways that go between polls | each is reported once, none as deleted that is not |
| S3, Route 53 deleters | `deleter/s3.go`, `route53.go` | names, keys, record sets | `DeleteResources` | listing while others write, partial answers, several zones with one name | a bucket or zone is emptied, then deleted; other zones keep their records |
| Retryer | `deleter/retryer/retryer.go` | number of retries | `ShouldRetry`, `MaxRetries` | what blocks may never go | retries end |
| Tagger | `cmd/grafiti/tag.go` | buckets of ARNs and names | `tag`, `tagARNBucket`, `tagUnsupportedResourceType` | buckets fill, age and are sent in any order; partial failure | everything read is sent, no request is too large |
| Filter | `cmd/grafiti/filter.go` | set of ARNs to ignore | `initIgnoreTagMap`, `filter` | depends on a complete search | a protected resource is not forwarded, the rest is |
| Parser | `cmd/grafiti/parse.go` | page token | `parseFromFile`, `parseFromCloudTrail`, `parseLookupAttribute`, `printEvent` | pages, one lookup per type, requests while printing | each resource of the window is printed |
| Report | `deleter/deleter.go` 111-148, `delete.go` 484-563 | log file | `PrintLogFileReport` | decodes what it has logged | each failure is reported |
| ARN mapping | `arn/arn.go` | none | `MapARNToRTypeAndRName`, `MapResourceTypeToARN` | string tables | a round trip is the identity |
| Command line | `cmd/grafiti/main.go` | flags, configuration | cobra, viper | - | - |

They form a pipeline. `parse | filter | tag` are three processes joined by JSON
streams. `delete` is one process: search by tag produces ARNs, `bucketARNs` sorts
them by type into deleters, the dependency graph adds to these with `--all-deps`,
`deleteARNs` runs them one after the other, and `--report` reads the log back.
`filter` uses the same search. Nothing is shared between processes but the AWS
account and the streams.

`PROJECT.json` lists the components with what is modelled of each, and the
hazards, each at its line.

## Modules

| Module | Models | Uses |
|---|---|---|
| `Deleters` | every `ResourceDeleter` of EC2, IAM, ELB and auto scaling as a record of the choices its method makes, and `DeleteOrder` | |
| `DeleteRun` | the loop of `deleteARNs` and `DeleteResources`, the retryer, and AWS as environment | the table of `Deleters` as a constant |
| `DeleteRunProofs`, `DeleteRunSafeProofs` | theorems about `DeleteRun` and `SafeDelete` | extend `DeleteRun`, `DeleteRunIsSafe` |
| `SafeDelete` | what a run promises, without anything of how | |
| `DeleteRunIsSafe` | `DeleteRun` implements `SafeDelete` | extends `DeleteRun`, instance of `SafeDelete` |
| `DepGraph` | `--all-deps`: the map is filled, then the run deletes | extends `DeleteRun` |
| `Report` | `--report`: the log of the run is read back | extends `DeleteRun` |
| `NatWait` | the polling of NAT gateways | |
| `NatWaitInRun` | all of `NatWait` is one step `AwaitNatGateways` of `DeleteRun` | extends `NatWait`, instance of `DeleteRun` |
| `StoreLoop` | what the next three share: the loop of `deleteARNs`, configuration, log | |
| `S3Bucket`, `HostedZone` | the deleters that list and delete contents of their own | extend `StoreLoop` |
| `Stores` | both in one run | extends the two |
| `Collect` | search by tag | |
| `FilterRun` | `grafiti filter` | extends `Collect` |
| `ResourceTypes` | what `arn/arn.go` knows of types | |
| `Parse` | `grafiti parse` | extends `ResourceTypes` |
| `Tagger` | `grafiti tag` | |
| `ParseToTag` | the two processes and the pipe | extends `Parse` and `Tagger` |
| `DepGraphProofs`, `TaggerProofs`, `NatWaitProofs`, `FilterRunProofs`, `StoresProofs`, `ParseProofs` | theorems about each | extend `DepGraph`, `Tagger`, `NatWaitInRun`, `FilterRun`, `Stores`, `ParseToTag` |
| `MC...` | small instances for TLC | |

`DeleteRun` and `Deleters` are kept apart because the methods of package `deleter`
are one loop written thirty times: list what is to be deleted, delete its parts,
delete it, log, and on an error continue or return. `Deleters` has what differs,
`DeleteRun` what is common, with the table as a CONSTANT. So the theorems hold
for every table, and a method that differs from the others (a forgotten dry run
flag, a swallowed error) is one field. The S3 and Route 53 deleters are not of this
form (they list and delete contents of their own, with other fault paths) and have
modules of their own.

### DeleteRun

| Code | Model |
|---|---|
| `sorted`, walked backwards | `todo`, `IsNextType`; types not in `DeleteOrder` come first, in any order |
| the running method: its listing, its loops | `cur`, `listed`, `pending` (requests not made yet), `item`, `Precedes` (the order of the loops) |
| `DeleteConfig` | `cfg` |
| log entries | `log`: pairs of a resource and "deleted", "failed" or "absent" |
| `Describe...` at the head of a method | `ListResources`, `ListingFails` |
| one delete request and what follows it | `DryRunRequest`, `Succeed`, `Blocked`, `Fault`, `Absent` |
| `logRequestError`, then `continue` or `return` | `GiveUp`, `Leave` |
| SDK retries with `DeleteRetryer` | `Retry`: each attempt is a step, as AWS may change in between |
| `RequestIAMRolePoliciesFromRoles` in the loop of `IAMRoleDeleter` | `AskKids`, `AskKidsFails` |
| waits for instances and NAT gateways | `AwaitTermination`, `AwaitNatGateways` |
| AWS, auto scaling, owners | `cloud`, `FinishDeletion`, `Relaunch`, `OwnerDeletes` |

An account is a set of objects. Those AWS reports inside others (rules, routes,
attachments, policies) are objects with a `ParentOf`. `Blockers` says what AWS
refuses to delete while something else exists, `Cascade` what AWS deletes on its
own, `Replaces` what auto scaling starts anew. `touched`, `skipped`, `late`, `heldUp`
and `faults` are history and bounds.

`Async` has the types AWS is not done with when it answers: instances, NAT gateways and
auto scaling groups, and all the deleters know in the states "deleting" and "detaching",
which are VPN connections and their routes, customer gateways, VPN gateways and
attachments (ec2.go:19-32 and its callers). grafiti waits for instances and NAT gateways
only; the others are `Unawaited`. The SDK has a waiter for VPN connections
(`WaitUntilVpnConnectionDeleted` in `vendor/`) that is not used.

`SafeDelete` is the promise behind it: what a run was given is settled one by one,
by the run or by others; nothing settled is taken up again; only what may be changed
is changed; the run ends well when all is settled, and with an error only if errors
are not ignored. In the mapping of `DeleteRunIsSafe` a resource is settled when it is
not live, is logged as failed or was dropped without a request.

### DepGraph and Report

`names` and `todo` of `DeleteRun` are the map `resMap`. `at` and `branch` say where
`FillDependencyGraph` is: at which type of which round, and at which of its requests.
`Traversal` has the requests of `traverseDependencyGraph` as records of the choices
that differ (whether an answer is kept after an error, whether it is read off the
owners' records, whether it is added once or for every owner). `Linked` is what AWS
answers. A name may be in the map twice, which is what `Occurrence` is for.

`Report` runs `DeleteRun` to its end and then decodes `log` entry by entry in any
order; `IsDecodable` is what `encoding/json` makes of an entry.

### NatWait

`step`, `chunk` and `unseen` are where the nested loops of polls, chunks and pages
are, `alive` and `deleted` the two lists, `expired` the timeout. The ids are kept from
chunk to chunk, as the code does (`Values`), and a request with more than
`ValuesLimit` of them fails. Gateways disappear between any two requests.
`NatWaitInRun` maps this to a `DeleteRun` over nothing but these gateways: all steps
but the last are stutters, and the last is `AwaitNatGateways`.

### Stores

| Code | Model |
|---|---|
| the two rounds of `deleteARNs` | `turn` of `StoreLoop` |
| `S3BucketDeleter.DeleteResources` | `NextBucket`, `RequestObjects`, `DeleteObjects`, `DeleteBucket` and how each fails |
| `objDel.ObjectIdentifiers` | `keys` |
| objects and buckets in S3 | `contents`, `stores`, and others who put and remove objects |
| `Route53HostedZoneDeleter.DeleteResources` | `NextZone`, `RequestRecords`, the loop over `publics`, the zone |
| `recordSetDeleter`, `recordSetDel` and their lists | `recordSets`, `public`, `strays` |
| record sets and zones in Route 53 | `records`, `hosted`, and others who change them |

A batch of record sets is carried out as a whole or not at all, and `DeleteObjects`
object by object, as the SDK's documentation in `vendor/` says.

### Collect and FilterRun

One step is one request: a page of `GetResources`, a page of `DescribeTags`, one
`DescribeAutoScalingGroups`, one chunk of `ListTagsForResources`. `filters`,
`shown` (the page token), `matched` and `described` are the locals of the running
function; `found` is `arnList`; `pc` says which request is next. Tags and filters
are abstracted to `Carries`: which filters the tags of a resource satisfy. The
documentation of the SDK in `vendor/` says what the APIs match: `GetResources`
joins filters by AND, `DescribeTags` returns tags that match every filter, so two
filters on different keys match nothing.

`FilterRun` is this search over the tags to be ignored, then a loop over the output
of `parse`. `FilterInit` has which file is passed as which argument; a value of the
one kind decoded as the other is an empty value (`AsTagFile`, `AsOutput`).

### Parse, Tagger and the pipe

`setup` is the configuration of `parse`; `lookups`, `unseen` and `page` are where
`parseLookupAttribute` is: the types left to look up, the events not returned yet, the
resources of the page not printed yet. `AskForARN` is the request for the ARN of a
group. `jq` and `gjson` expressions are constants: `TagsOf`, `Filtered`, `Identified`.

`arnBuckets` and `nameBuckets` are the two maps of `tag()`. `pc` goes around
`decode`, `arns`, `names`: reading an input, the loop over the first map, the loop
over the second, both in any order. `EjectARNs` is one `TagResources`; names are
sent one by one (`TagName`). `Tick` is time passing while the command waits for
input. `given`, `wanted`, `sent` and `lost` are history.

In `ParseToTag` they interleave over `pipe`; `ClassOfPrinted` says how `tag` treats
what `parse` prints. `BrokenPipe` ends `parse` when `tag` has ended with an error.

## Runs

Runs that pass:

| Run | Question | Instance | States |
|---|---|---|---|
| `DeleteVpc` | Is a VPC deleted in order, only what was given, all of it but what is held up, and does the run end? | VPC, subnet, instance, internet gateway and attachment, two groups of which one refers to the other in a rule, the default group with a rule; VPN connection with route, NAT gateway and address; one retry, one fault | 28,000 |
| `DeleteAsg` | Is anything forgotten, does the run stop exactly at errors, is the log true, is the promise of `SafeDelete` kept, and does a dry run change nothing? | a group that replaces its instance, instances, launch configuration, load balancer, volume, interface, profile, role with policy | 20,000 |
| `AllDeps` | Is the filled map closed, holds it nothing of a default VPC, and is all of it then deleted, but what is held up? | a VPC with everything linked to it over four links, a default VPC, a group; three choices of what is tagged | 410,000 |
| `NatWait` | Is the polling the one step `DeleteRun` takes it for? | no, one, two or three gateways, chunks and limit of two, pages of one | 6,400 |
| `Stores` | Are buckets and zones emptied and deleted, is what is left reported, and does the run end? | two buckets of up to three objects, pages and requests of two; a private and a public zone, another public zone, one name in all of them | 580,000 |
| `TagStream` | Do buckets stay within limits, is everything read sent, does the command end? | four inputs of two ARNs, two groups, a zone, an interface; two values of one key; buckets of two | 275,000 |
| `FilterStream` | Is exactly what can be found found, whatever fails, and exactly the rest forwarded? | two inputs with any of two filters, or malformed streams; balancer, instance, two groups, two zones; pages and chunks of one; three `resourceTypes` | 310,000 |
| `ParseToTag` | Is every resource of the window printed and tagged with tags of its own events? | three events with seven resources, lookups of two types, of all, and log files | 370,000 |

Bounds, and why they are enough:

* `MaxFaults = 1`, `MaxLookupFaults = 1`: a fault (failed request, foreign deletion,
  vanished group) leads to an error path. Without `--ignore-errors` the first ends the
  command. With it, the properties are about the state one error path leaves to the
  rest of the command; two faults are two such paths. `Retry` and `Fault` share the
  bound so that a lost answer followed by "not found" happens. In `Stores` the bound
  covers what others do as well: one object put between listing and deletion is
  enough to keep a bucket.
* `NumMaxRetries = 1`: enough for AWS to change between two attempts.
* `ArnEject = NameEject = 2`, `MaxInputs = 4`: with two ARNs and two groups a bucket of
  either kind fills in mid-stream, is cleared and fills again; the real limits are 20 and
  10. `ParseToTag` has one group, so its buckets of names are sent at the end of the
  stream only. It reads what `parse` prints, and its `MaxInputs` is never reached.
* `PageSize = ChunkSize = 1` (search), 2 (stores, gateways): every listing of two (or
  three) has two pages; two chunks happen with three gateways.
* `MaxSleeps = 3` of the 20 that fit into five minutes; the clock may expire earlier.
* `MaxAge` caps the clock of a bucket.
* `EmptyPages = FALSE`: a listing gives a token only if something is left. With empty
  pages `NothingMissed` fails, as an empty page ends both searches (delete.go:199, 279);
  the documentation does not say that AWS sends them.
* The lookups of `parse` have no empty page before the last either.

Runs that find a disagreement of the code with its documentation or comments;
`PROJECT.json` quotes the lines:

| Run | What happens |
|---|---|
| `DryRunVpn` | in the account of `DeleteVpc` a dry run deletes the static routes of VPN connections |
| `SharedLaunchConfiguration` | with `--all-deps` a launch configuration shared by two groups is deleted twice, and the second failure ends the run |
| `FilterFile` | with `--filter-file` the two files are exchanged, and nothing is forwarded |
| `ReportFailures` | the report ends at the first failure, which it cannot decode |

Other disagreements are visible in the definitions and have no run of their own:

* VPN connections, the attachments of VPN gateways and auto scaling groups are deleted
  without waiting for AWS to finish, and what they block comes next in `DeleteOrder`:
  customer gateways and VPN gateways, the VPC, launch configurations. These are refused
  (the VPC after its retries) unless AWS is faster; the run then ends with an error, or
  leaves them for another run with `--ignore-errors`. `UndisturbedRunSucceeds` has this
  as its exception (`heldUp`) and no other: it says that all else is deleted;
* after a wait for instances that ended too early their termination is logged as failed
  and then as successful (ec2.go:807, `AwaitTermination`);
* a resource that is already gone counts as a failure for every deleter but that of
  EIP associations (`Absent`), although ec2.go:54 says it "was already deleted";
* age never ejects a bucket, as its age is compared with itself (`ShouldEject`,
  tag.go:67), although the comment at tag.go:97 says it does;
* an ARN given two values of a key may keep the older one (`EjectARNs` takes buckets
  in any order);
* an ignored syntax error is decoded for ever, in `tag`, `delete` and `filter`: the
  exceptions of `Terminates` and `FilterEnds`;
* groups and zones are not found unless something else is (delete.go:235), and a zone
  with one of two tags is found (delete.go:400, against the comment delete.go:394):
  the conditions of `CanBeFound` and `FoundWasAskedFor`;
* an input without filters finds every resource (`RgtaMatching`);
* `resourceTypes` become services, and types RGTA does not know vanish from the
  filter, which may leave it empty (`Services`); groups and zones are asked for always;
* in an account without hosted zones the search fails once anything has been found,
  although every request succeeded (`RequestZones`);
* of two resources of different types with one name `bucketARNs` drops the second
  (delete.go:430);
* a bucket of more than a page is listed for ever (s3.go:107 passes the token of the
  request on: `IsListedForEver`), and one that cannot be listed is passed over without
  a log entry (s3.go:153: `unlisted`);
* delegations keep their zone from being deleted, as no NS record set is listed
  (route53.go:341);
* profiles, roles and groups found by `--all-deps` are deleted although untagged
  resources may use them too; errors of the traversal are ignored without
  `--ignore-errors`;
* `parse` does not know `--ignore-errors`: a failed lookup ends it, and what it has
  printed goes down the pipe to a `tag` that ends well.

### Fairness

Every fair specification has weak fairness of the steps of the command (`Program`,
`FilterProgram`, `ParseStep`, and reading and tagging in `ParseToTag`): the
process runs, and every AWS call returns, because the SDK has timeouts and a limit on
retries. In `Tagger` and `FilterRun` this includes that the stream does not stall; in
`ParseToTag` that is not assumed but follows from the fairness of `parse`. Nothing is
assumed of the environment: AWS may never finish a deletion, and the waits end
because they have timeouts (the second disjuncts of `AwaitTermination` and
`AwaitNatGateways`, `Sleep` in `NatWait`). The actions are not fair one by one: a
command is sequential, and what it does next is the next statement.

## Proofs

Every safety property the passing runs check, the two refinements and the action property
are theorems: they hold for all constants that satisfy the assumptions, not only for the
instances above. The one exception is `DryRunTouchesNothing`, which fails where there are
VPN connections. Each proof has the same outline: the property is
not inductive; an invariant that is says where everything is at each moment of the
loop; one lemma for each action, or group of actions, shows that it is kept, and the
property follows from it. TLC checked each invariant on its instance before it was
proved.

| Module | Theorem | Property | Under |
|---|---|---|---|
| `DeleteRunProofs` | `TypeCorrect` | `TypeOK` | |
| | `TouchesOnlyWhatItMayHolds` | `TouchesOnlyWhatItMay` | `MarksAreHidden` |
| | `StopsExactlyAtErrorsHolds` | `StopsExactlyAtErrors` | |
| `DeleteRunSafeProofs` | `LogIsTruthfulHolds` | `LogIsTruthful` | |
| | `NothingForgottenHolds` | `NothingForgotten` | |
| | `DroppedForAReasonHolds` | `DroppedForAReason` | |
| | `ImplementsSafeDeleteHolds` | `ImplementsSafeDelete` | `MarksAreHidden` |
| | `GrafitiDeletesSafely` | `ImplementsSafeDelete` | grafiti's table, `MarksAsInAWS` |
| | `BlockersGoFirstHolds` | `BlockersGoFirst` | `OrderFits` |
| | `FittingRunSucceeds` | `UndisturbedRunSucceeds`, of a run whose names fit | `DeletersFit` |
| | `UndisturbedRunSucceedsHolds` | `UndisturbedRunSucceeds` | `DeletersFit`, `Fits` of all `ResMaps` |
| | `UndisturbedRunFailsNothing` | `NothingFails`, `NothingDeletedTwice`, of such a run | `DeletersFit` |
| | `GrafitiSucceedsUndisturbed` | `UndisturbedRunSucceeds`, of such a run | grafiti's table |
| `DepGraphProofs` | `ClosedHolds` | `Closed` | `LinkedAtFirst` |
| | `PulledInByItsOwnerHolds` | `PulledInByItsOwner` | `MarksAreHidden`, `MarksAsInAWS` |
| | `AllDepsForgetsNothing` | `NothingForgotten` | |
| | `AllDepsTouchesOnlyWhatItMay` | `TouchesOnlyWhatItMay` | `MarksAreHidden` |
| | `AllDepsRunSucceeds` | `UndisturbedRunSucceeds`, of a map that fits | `DeletersFit` |
| | `AllDepsRunFailsNothing` | `NothingFails`, `NothingDeletedTwice`, of such a map | `DeletersFit` |
| | `AllDepsKeepsThePromise` | steps of `SafeDelete` once the map is filled | `MarksAreHidden` |
| | `AllDepsRunsAlike` | `LogIsTruthful`, `StopsExactlyAtErrors`, `DroppedForAReason`; `BlockersGoFirst`, of a map the order suits | |
| `NatWaitProofs` | `WaitTypes`, `EachReportedOnceHolds` | `TypeOK`, `EachReportedOnce` | |
| | `ImplementsAwaitNatGatewaysHolds` | `ImplementsAwaitNatGateways` | |
| `StoresProofs` | `StoresTypes`, `LeftBehindIsReportedHolds` | `TypeOK`, `LeftBehindIsReported` | |
| | `OnlyRecordsOfGivenNamesHolds` | `OnlyRecordsOfGivenNames` | |
| | `NoNameLeftBehindHolds` | `NoNameLeftBehind` | |
| | `UndisturbedRunSucceedsHolds` | `UndisturbedRunSucceeds` | `AnswersFit` |
| `FilterRunProofs` | `FilterTypes`, `FoundWasAskedForHolds` | `FilterTypeOK`, `FoundWasAskedFor` | |
| | `SearchFindsWhatWasAskedFor` | `FoundWasAskedFor`, for `delete` | |
| | `NothingMissedHolds` | `NothingMissed` | `NoEmptyPages` |
| | `NothingIgnoredIsForwardedHolds` | `NothingIgnoredIsForwarded` | `NoEmptyPages` |
| | `RestIsForwardedHolds` | `RestIsForwarded` | `FromStdIn` |
| `TaggerProofs` | `TaggerTypes`, `BucketsBoundedHolds` | `TypeOK`, `BucketsBounded` | |
| | `NothingDroppedHolds`, `DoneMeansTaggedHolds` | `NothingDropped`, `DoneMeansTagged` | |
| `ParseProofs` | `ParseTypes`, `WindowIsPrintedHolds` | `ParseTypeOK`, `WindowIsPrinted` | |
| | `TagsComeFromItsEventsHolds` | `TagsComeFromItsEvents` | |
| | `WindowIsTaggedHolds` | `WindowIsTagged` | |
| | `PipeImplementsTagger` | `PipeSpec => Spec` | |

### Hypotheses

The instances of the passing runs satisfy all of them.

* `MarksAreHidden`: the listing of each type hides the marks its resources carry.
  Without it the property is false: a deleter that does not look for "default" deletes
  a default resource. `TableHidesMarks` proves it of grafiti's table from
  `MarksAsInAWS`: AWS has default resources of four types (groups, NACLs, subnets,
  VPCs) and main route tables, and nothing else of the kind.
* `OrderFits`: whatever blocks a resource that is given, or one of its parts, has the
  same type or a later place in `DelOrder`. That is what `DelOrder` is for; accounts
  exist that it does not suit, and in those the property fails.
* `Fits(m)`: the order fits what a run is given. Its *work* (`Work`) is what it was
  given, but for what is default or main, and the parts its deleters delete. There must
  be a set `S` of that work, which deletions nobody waits for may hold up (`S` is empty
  where every such deletion is awaited or blocks nothing), with which seven conditions
  hold (`FitsBut`). All can be read off the account and `m`:
  * `BlockersFit`: what blocks a piece of work is gone when that is asked for: it, or
    what AWS deletes it with, is not in `S` and is deleted in an earlier turn, at once or
    awaited (`GoneBefore`), or earlier in the same turn (`GoneInTurn`). Of what is in `S`
    it is enough that what blocks it has been asked for by then, and is waited for if its
    type is one that is waited for at all (`Passed`). `OrderFits` asks only that its turn
    is earlier, which is not enough: most deleters do not wait for what AWS finishes later.
  * `HeldUpFit`: what is in `S` is not deleted in a batch, and no part of a resource that
    would be passed over for it.
  * `ListingsFit`: a listing that leaves out what is attached or in use comes when
    nothing is attached or in use any more.
  * `CascadesFit`: what AWS deletes with a resource is asked for in an earlier turn, or
    in a later one if the resource is awaited and not in `S`; then, if it was given
    itself, its deleter lists, and its parts go with it.
  * `PartsFit`: no part is given by itself too, and nothing auto scaling starts is given.
  * `UncheckedFit`: what a dry run deletes all the same is blocked by nothing and takes
    nothing along.
  * `NamesFit`: a name that is there twice is of a deleter that lists by filter.

  The accounts of `DeleteVpc` and `DeleteAsg` fit, and so does every map `AllDeps` fills
  without a fault. `S` has the gateways at the ends of a VPN connection, the VPC, and the
  launch configuration. What is in `S` may be left, and the theorems do not say more of
  it than `heldUp` does: it was refused while everything in its way was going, unawaited,
  or held up itself (`IsHeldUp`).
* `DeletersFit`: the deleters ask for live parts at least, and one that deletes in
  one request has no parts. `TableFits` proves it of grafiti's table.
* `LinkedAtFirst`: what auto scaling starts later is not yet linked to anything. The
  traversal can only see what exists.
* `NoEmptyPages`: AWS sends no empty page before the last; see `EmptyPages` above.
* `FromStdIn`: `FilterFile` shows that the property fails without it.
* `AnswersFit`: S3 takes as many keys in one request as it puts in one answer; both are
  1000.

The assumptions on constants are `ASSUME`s of the modules, which TLC evaluates in every
run. They say what type a constant has, and: a method that runs over its names as they are
hides nothing, one that waits has no parts, and one that takes "not found" for success
deletes one by one (`ConstantAssumption`, all of the table); the names a run is given
exist, are filed under their types and are there twice only if they are there once
(`NamesAssumption`; `GraphSpec` does not need it of what the traversal adds, as
`FilledMapHasItsTurns` proves it); a request for NAT gateways takes no more ids
than a chunk has (`WaitAssumption`; both are 200); accounts, filters and resources
are finite where the code counts them.

### Arguments

*Deletion.* `IInv`: every pending request is for resources that were given and not
hidden by the listing, or for parts of these (`PendingOK`, `RequestOK`), what is
awaited belongs to the running type (`AwaitedOK`), and names are filed under their
types (`NamesOK`). `TouchedStep`, an action property, then gives
`TouchesOnlyWhatItMay`, and `GiveUpStops` the errors. `TurnInv` adds `ProgressOK`:
while a run lasts, each name waits for its type, for the listing of its type or for its
own request, or is dealt with (deleted, logged as failed, dropped). A step that
removes a request leaves an entry in the log or in `skipped`; a batch
removes one request and deals with all of its targets. The end of the loop has no
type left, which is `NothingForgotten`. `LogOK` is stronger than
`LogIsTruthful`, which would allow an entry for an instance auto scaling has yet to
start. In the refinement a resource is settled when it is not live, failed or dropped;
`SafeStep` shows that a step settles at most what `SafeDelete` allows and never takes
back (`NothingReturns`, `HistoryGrows`). `OrderInv`: the running type is the last of
those that were left, and every request is for a name of it or a part of one.

*Success.* That nothing but `S` is refused depends on where everything is at each request, so the
invariant has two halves. `Started`, `CascadesDone`, `InTurn` and `DoneInOrder` hold of
every run: only what auto scaling starts is unborn, what AWS deletes later outlives what
it takes along, and the types done come before those to do. `CalmOK` holds while the
run is `Undisturbed`: the requests are those of the plan, for live resources
(`ShapeOK`, `PendingLive`); what waits for its turn is live, or was taken along by
something that is past its turn (`Untouched`); and everything else is requested, gone,
going and not awaited any more, or held up (`Progressed`); only work in `S` is held up,
and a run that ended with an error has held something up (`HeldUpOK`). `WhatIsInTheWay`
and `RefusedIsHeldUp` are the point of it: when a request is the next one, each blocker
of its target is work that is past (`EarlierIsGone`, `InTurnIsDone`, `AskedBefore`), so
by `Progressed` and `BlockersFit` it is gone, or the target is in `S` and the blocker is
going unawaited or held up; a refusal is then what `HoldUp` records. A request that is
not refused and finds its target live succeeds, which keeps all parts. At the end nobody
waits and nothing is requested, so `Progressed` is `UndisturbedRunSucceeds`. `Fits`
speaks of `names`, which do not change during a run.

*Dependencies.* `GraphInv` keeps `TurnInv` while the map is filled, before the first
deletion. `PulledInv` adds that, from the second request of
the first round on, the map has no default VPC left to ask about.
`ClosedInv`: for every type whose round is over, and every request already made in the
current round, all that is linked to what the map has of the type is in the map
(`Complete`). That holds because no later request adds to a type whose round is over;
the proof goes through all of `Traversal`. Two requests replace what the map has of their
own type (`own`); what they find again is what was found before. `Calmly` says that
nobody deletes anything while the map of an undisturbed run is filled; so `CalmInv`
holds when it is (`MapIsCalm`), provided the filled map fits, and the run goes on as
above. `RunInv` joins the other invariants of the run, of which the traversal changes
nothing. `SafeDelete` cannot be refined from the start, as what is given grows while the
map is filled; `AllDepsKeepsThePromise` says that until then nothing is touched, and
that from then on every step is one of it.

*NAT gateways.* `WaitInv`: while pages come, what is unseen and the two lists
partition the gateways; after the last page the lists hold all of them, and what is listed
as deleted is (`ListsComplete`). A second chunk is never answered, as it repeats
the ids of the first and is too large for a filter (`FirstChunkOnly`): with more than
200 gateways the wait fails. The mapping to `AwaitNatGateways` takes the lists of
the last poll for its choice of who is alive.

*Stores.* `StoresInv`: each bucket or zone is before its turn, has it, or has been
deleted, logged as failed or passed over (`BucketsDue`, `ZonesDue`), and a batch for
a public zone only has records of the names wanted (`InPublicZones`). `NamesInv`: in a run
that stops at errors every name wanted is gone from the public zones the loop has been
through (`NamesDue`). `UndisturbedInv`: with no fault so far, what the running method holds
is exactly what the bucket or zone still has.

*Search and filter.* `SearchInv`: the lists of the running function hold only resources
that match the filters of the current input. `CompleteInv`: everything that can be found
by an input that is done is in `found` (`PastIsComplete`), and everything the current
one can find is found, or is still to be asked for by the token, the chunk or the
function whose turn it is (`PresentIsComplete`). `FilterInv`: nothing found is
forwarded. `StdInInv`: each resource of the output of `parse` is still to be read, or is
forwarded, or was found.

*Tags.* `TagInv`: a tag read is in a bucket, sent, or superseded; the bucket of a
name holds only the last values (`BucketIsLast`); what has been sent and not lost is in
AWS, or the bucket of the name is being sent with a later value (`NamesTagged`); ARNs
have some value given for each key sent (`ARNsTagged`). `PipeInv` joins it with
`ParseInv` (a resource of the window is on the page, printed or rightly left out, or in an
event that a lookup still to be made returns) by `PrintedIsRead`: what is printed is in
the pipe or has been read, and tag has been given nothing else. `OnlyGiven` says of
names what `ARNsTagged` says of ARNs.

### Only model-checked

* Liveness (`Terminates`, `Ends`, `FilterEnds`, `BothEnd`), which TLAPS does not do.
* That the four disagreements happen: a violation is a run, not a theorem. What is true
  instead is proved of two of them: `AllDepsRunFailsNothing` for `SharedLaunchConfiguration`
  (whose filled map breaks `NamesFit` and nothing else), `RestIsForwardedHolds` for
  `FilterFile`. Of a dry run `DeleteAsg` checks that it changes nothing in an account
  without VPN connections. Of `Report` nothing is proved.
* That the instances satisfy the hypotheses.

## Not modelled

* `bucketARNs`, which sorts ARNs by type: its result is the constant `ResMaps`. It
  splits strings, and on what it gets from them depends which deleter has which names.
* The string functions of `arn/arn.go`, `MapARNToRTypeAndRName` above all. Parsing ARNs
  of some forty types character by character would be a second copy of a table;
  `ResourceTypes` has what the control of `parse` and `tag` depends on.
* The command line: flags and configuration are the constants `Configs`, `Setups`,
  `ResourceTypes`, `FilterFiles`, the rest is cobra and viper.
* `jq` filters and `gjson` paths, which are constants; so are the instances a
  `RunInstances` event starts, of which a log file gives only the first.
* Panics: of a tag pattern that gives something other than a string (parse.go:418),
  and of an IAM user, for which `DeleteOrder` has a place but `InitResourceDeleter` no
  deleter (delete.go:437).
* CloudTrail events that arrive late; the pages of Route 53 record sets, which are one
  listing; the chunks of Describe requests (200).
* Formatting, logging to the terminal, back-off delays, credentials and sessions.

NACL entries have a deleter that is called without entries, so it is part of
`NetworkACLDeleter`.

## What is left

* A table of which types AWS lets block which, from which `OrderSuits` and `BlockersFit`
  would follow for grafiti's `DeleteOrder` and every account; the repository has no such
  table, only the order.
* The parts listed above as not modelled, `bucketARNs` and the mapping of ARNs first.
