-------------------------------- MODULE Tagger --------------------------------
(***************************************************************************)
(* `grafiti tag' (cmd/grafiti/tag.go): resources read from a JSON stream   *)
(* are collected in buckets, and a bucket is sent to AWS when it is full   *)
(* or the stream has ended.  Resources the Resource Groups Tagging API     *)
(* knows are collected per tag and sent up to ArnEject at a time; auto     *)
(* scaling groups and hosted zones are collected per type and sent one by  *)
(* one.                                                                    *)
(***************************************************************************)
EXTENDS Naturals, FiniteSets

CONSTANTS
  Resource,    \* what the stream may name
  ClassOf,     \* how tag() treats each
  Key, Value,  \* of tags
  None,        \* no value; no type
  TagSets,     \* the possible Tags of an input: functions of Key
  Configs,     \* the global flags dryRun and ignoreErrors
  ArnEject,    \* members at which a bucket of ARNs is sent (20)
  NameEject,   \* members at which a bucket of names is sent (10)
  EjectLimit,  \* bucketEjectLimitSeconds
  MaxInputs,   \* bound on the inputs
  MaxAge,      \* bound on the clock of a bucket
  MaxFaults,   \* bound on failed requests
  Malformed    \* kinds of bad input in the stream

NamedType == {"AutoScalingGroup", "HostedZone"}   \* RGTAUnsupportedResourceTypes
Class == NamedType \cup {"rgta", "untaggable", "incomplete"}
OfClass(c) == {r \in Resource : ClassOf[r] = c}
Arn == OfClass("rgta")
Name == {r \in Resource : ClassOf[r] \in NamedType}

Tag == [key : Key, value : Value]
TagMap == [Key -> Value \cup {None}]
NoTags == [k \in Key |-> None]
TagsIn(m) == {t \in Tag : m[t.key] = t.value}
Merge(m, n) == [k \in Key |-> IF n[k] = None THEN m[k] ELSE n[k]]

ASSUME TaggerAssumption ==
  /\ ClassOf \in [Resource -> Class]
  /\ IsFiniteSet(Resource)
  /\ None \notin Value /\ None \notin NamedType /\ None \notin Nat
  /\ None \notin TagMap
  /\ TagSets \subseteq TagMap
  /\ Configs \subseteq [dryRun : BOOLEAN, ignoreErrors : BOOLEAN]
  /\ ArnEject \in Nat \ {0} /\ NameEject \in Nat \ {0} /\ EjectLimit \in Nat
  /\ MaxInputs \in Nat /\ MaxAge \in Nat /\ MaxFaults \in Nat
  /\ Malformed \subseteq {"mistyped", "broken"}

VARIABLES
  cfg,          \* dryRun and ignoreErrors
  pc,           \* "decode", "arns", "names", "done" or "error"
  isEOF,        \* the stream has ended
  broken,       \* the decoder has met a syntax error, which it keeps
  arnBuckets,   \* ARNSetBucket: for each tag, the ARNs to be given it
  age,          \* time since each of these was created or cleared; None
  nameBuckets,  \* ResourceNameSetBucket: for each name, its tags; None
  ejecting,     \* the type whose bucket of names is being sent; None
  sending,      \* the names of it still to be sent
  awsTags,      \* the tags in AWS
  inputs,       \* inputs read
  faults,       \* failed requests
  given,        \* history: every <<resource, tag>> of an input
  wanted,       \* history: for each resource, the tags last given
  sent,         \* history: every <<resource, tag>> of a request
  lost          \* history: those of requests that failed

decodeVars == <<isEOF, broken, inputs, given, wanted>>
nameVars == <<nameBuckets, ejecting, sending>>
vars == <<cfg, pc, decodeVars, arnBuckets, age, nameVars, awsTags, faults, sent, lost>>

Pairs(r, m) == {r} \X TagsIn(m)

(***************************************************************************)
(* shouldEject.  It compares CreatedAt with CreatedAt plus the limit and   *)
(* never looks at the clock.                                               *)
(***************************************************************************)
ShouldEject(ejectSize, setSize) ==
  setSize = ejectSize \/ (EjectLimit = 0 /\ setSize > 0)

ArnsDue(t) ==
  \/ ShouldEject(ArnEject, Cardinality(arnBuckets[t]))
  \/ isEOF /\ arnBuckets[t] # {}

NamesOf(rt) == {r \in OfClass(rt) : nameBuckets[r] # None}

NamesDueFull(rt) == ShouldEject(NameEject, Cardinality(NamesOf(rt)))
NamesDueAtEnd(rt) == isEOF /\ NamesOf(rt) # {}

NamesDue(rt) ==
  \/ ShouldEject(NameEject, Cardinality(NamesOf(rt)))
  \/ isEOF /\ NamesOf(rt) # {}

Init ==
  /\ cfg \in Configs
  /\ pc = "decode" /\ isEOF = FALSE /\ broken = FALSE
  /\ arnBuckets = [t \in Tag |-> {}] /\ age = [t \in Tag |-> None]
  /\ nameBuckets = [r \in Name |-> None] /\ ejecting = None /\ sending = {}
  /\ awsTags = [r \in Resource |-> NoTags]
  /\ inputs = 0 /\ faults = 0
  /\ given = {} /\ wanted = [r \in Resource |-> NoTags] /\ sent = {} /\ lost = {}

(***************************************************************************)
(* decodeInput, and bucketing what it returns.                             *)
(***************************************************************************)
AddARNToUsedBuckets(r, m) ==
  /\ arnBuckets' = [t \in Tag |-> IF t \in TagsIn(m) \/ age[t] # None
                                  THEN arnBuckets[t] \cup {r} ELSE arnBuckets[t]]
  /\ age' = [t \in Tag |-> IF t \in TagsIn(m) /\ age[t] = None THEN 0 ELSE age[t]]
  /\ UNCHANGED nameBuckets

AddARNToBuckets(r, m) ==
  /\ arnBuckets' = [t \in Tag |-> IF t \in TagsIn(m) THEN arnBuckets[t] \cup {r}
                                  ELSE arnBuckets[t]]
  /\ age' = [t \in Tag |-> IF t \in TagsIn(m) /\ age[t] = None THEN 0 ELSE age[t]]
  /\ UNCHANGED nameBuckets

AddResourceNameAfresh(r, m) ==
  /\ nameBuckets' = [nameBuckets EXCEPT ![r] = m]
  /\ UNCHANGED <<arnBuckets, age>>

AddResourceNameToBucket(r, m) ==
  /\ nameBuckets' =
       [nameBuckets EXCEPT ![r] = Merge(IF @ = None THEN NoTags ELSE @, m)]
  /\ UNCHANGED <<arnBuckets, age>>

BucketedByARN(r, m) ==
  IF r \in Arn \cup Name THEN AddARNToBuckets(r, m)
  ELSE UNCHANGED <<arnBuckets, age, nameBuckets>>

Bucketed(r, m) ==
  CASE r \in Arn  -> AddARNToBuckets(r, m)
    [] r \in Name -> AddResourceNameToBucket(r, m)
    [] OTHER      -> UNCHANGED <<arnBuckets, age, nameBuckets>>

DecodeInput(r, m) ==
  /\ pc = "decode" /\ ~broken /\ inputs < MaxInputs
  /\ inputs' = inputs + 1
  /\ Bucketed(r, m)
  /\ IF r \in Arn \cup Name
     THEN /\ given' = given \cup Pairs(r, m)
          /\ wanted' = [wanted EXCEPT ![r] = Merge(@, m)]
     ELSE UNCHANGED <<given, wanted>>
  /\ pc' = IF ClassOf[r] = "untaggable" THEN "decode" ELSE "arns"
  /\ UNCHANGED <<cfg, isEOF, broken, ejecting, sending, awsTags, faults, sent,
                 lost>>

AfterError == IF cfg.ignoreErrors THEN pc ELSE "error"

DecodeEOFAsError ==
  /\ pc = "decode" /\ ~broken
  /\ pc' = AfterError
  /\ UNCHANGED <<cfg, isEOF, broken, inputs, given, wanted, arnBuckets, age,
                 nameVars, awsTags, faults, sent, lost>>

DecodeEOF ==
  /\ pc = "decode" /\ ~broken
  /\ isEOF' = TRUE
  /\ pc' = "arns"
  /\ UNCHANGED <<cfg, broken, inputs, given, wanted, arnBuckets, age, nameVars,
                 awsTags, faults, sent, lost>>

\* A value of the wrong type is consumed; after a syntax error the decoder
\* returns that error for ever.
DecodeFails ==
  /\ pc = "decode" /\ inputs < MaxInputs /\ ~broken
  /\ \E kind \in Malformed : broken' = (kind = "broken")
  /\ inputs' = inputs + 1
  /\ pc' = AfterError
  /\ UNCHANGED <<cfg, isEOF, given, wanted, arnBuckets, age, nameVars,
                 awsTags, faults, sent, lost>>

DecodeFailsAgain ==
  /\ pc = "decode" /\ broken
  /\ UNCHANGED vars

(***************************************************************************)
(* tagARNBucket, then ClearBucket.  Its errors are ignored with -e, and    *)
(* the FailedResourcesMap of its answer always is.                         *)
(***************************************************************************)
ClearARNs(t) ==
  /\ arnBuckets' = [arnBuckets EXCEPT ![t] = {}]
  /\ age' = [age EXCEPT ![t] = 0]

TagARNs(R, t) ==
  awsTags' = [r \in Resource |-> IF r \in R THEN [awsTags[r] EXCEPT ![t.key] = t.value]
                                 ELSE awsTags[r]]

EjectARNs(t) ==
  /\ pc = "arns" /\ ArnsDue(t)
  /\ sent' = sent \cup (arnBuckets[t] \X {t})
  /\ \/ /\ cfg.dryRun
        /\ ClearARNs(t)
        /\ UNCHANGED <<awsTags, faults, lost, pc>>
     \/ /\ ~cfg.dryRun
        /\ TagARNs(arnBuckets[t], t)
        /\ ClearARNs(t)
        /\ UNCHANGED <<faults, lost, pc>>
     \/ /\ ~cfg.dryRun /\ faults < MaxFaults
        /\ faults' = faults + 1
        /\ \E done \in SUBSET arnBuckets[t] :
             /\ TagARNs(done, t)
             /\ lost' = lost \cup ((arnBuckets[t] \ done) \X {t})
        /\ ClearARNs(t)
        /\ UNCHANGED pc
     \/ /\ ~cfg.dryRun /\ ~cfg.ignoreErrors /\ faults < MaxFaults
        /\ faults' = faults + 1
        /\ lost' = lost \cup (arnBuckets[t] \X {t})
        /\ pc' = "error"
        /\ UNCHANGED <<awsTags, arnBuckets, age>>
  /\ UNCHANGED <<cfg, decodeVars, nameVars>>

ARNsDone ==
  /\ pc = "arns" /\ \A t \in Tag : ~ArnsDue(t)
  /\ pc' = "names"
  /\ UNCHANGED <<cfg, decodeVars, arnBuckets, age, nameVars, awsTags, faults,
                 sent, lost>>

(***************************************************************************)
(* tagUnsupportedResourceType: one request per name, then ClearBucket.     *)
(***************************************************************************)
EjectNames(rt) ==
  /\ pc = "names" /\ ejecting = None /\ NamesDue(rt)
  /\ ejecting' = rt /\ sending' = NamesOf(rt)
  /\ UNCHANGED <<cfg, pc, decodeVars, arnBuckets, age, nameBuckets, awsTags,
                 faults, sent, lost>>

\* A group without tags is left alone; a zone without tags is sent, and the
\* request is refused.
Refused(r) == ClassOf[r] = "HostedZone" /\ nameBuckets[r] = NoTags

TagName(r) ==
  /\ pc = "names" /\ r \in sending
  /\ sending' = sending \ {r}
  /\ sent' = sent \cup Pairs(r, nameBuckets[r])
  /\ \/ /\ cfg.dryRun
        /\ UNCHANGED <<awsTags, faults, lost, pc>>
     \/ /\ ~cfg.dryRun /\ ~Refused(r)
        /\ awsTags' = [awsTags EXCEPT ![r] = Merge(@, nameBuckets[r])]
        /\ UNCHANGED <<faults, lost, pc>>
     \/ /\ ~cfg.dryRun /\ (Refused(r) \/ (faults < MaxFaults /\ nameBuckets[r] # NoTags))
        /\ faults' = IF Refused(r) THEN faults ELSE faults + 1
        /\ lost' = lost \cup Pairs(r, nameBuckets[r])
        /\ pc' = AfterError
        /\ UNCHANGED awsTags
  /\ UNCHANGED <<cfg, decodeVars, arnBuckets, age, nameBuckets, ejecting>>

ClearNames ==
  /\ pc = "names" /\ ejecting # None /\ sending = {}
  /\ nameBuckets' = [r \in Name |-> IF ClassOf[r] = ejecting THEN None ELSE nameBuckets[r]]
  /\ ejecting' = None
  /\ UNCHANGED <<cfg, pc, decodeVars, arnBuckets, age, sending, awsTags, faults,
                 sent, lost>>

NamesDone ==
  /\ pc = "names" /\ ejecting = None /\ \A rt \in NamedType : ~NamesDue(rt)
  /\ pc' = IF isEOF THEN "done" ELSE "decode"
  /\ UNCHANGED <<cfg, decodeVars, arnBuckets, age, nameVars, awsTags, faults,
                 sent, lost>>

(***************************************************************************)
(* Time passes while the command waits for input ("daemon mode").          *)
(***************************************************************************)
Tick ==
  /\ pc = "decode" /\ \E t \in Tag : age[t] # None
  /\ \A t \in Tag : age[t] # None => age[t] < MaxAge
  /\ age' = [t \in Tag |-> IF age[t] = None THEN None ELSE age[t] + 1]
  /\ UNCHANGED <<cfg, pc, decodeVars, arnBuckets, nameVars, awsTags, faults,
                 sent, lost>>

Terminated == pc \in {"done", "error"} /\ UNCHANGED vars

Program ==
  \/ \E r \in Resource, m \in TagSets : DecodeInput(r, m)
  \/ DecodeEOF \/ DecodeFails \/ DecodeFailsAgain
  \/ \E t \in Tag : EjectARNs(t)
  \/ ARNsDone
  \/ \E rt \in NamedType : EjectNames(rt)
  \/ \E r \in sending : TagName(r)
  \/ ClearNames \/ NamesDone

Next == Program \/ Tick \/ Terminated

Spec == Init /\ [][Next]_vars

\* The process runs, requests return and the stream does not stall.
FairSpec == Spec /\ WF_vars(Program)

(***************************************************************************)
(* Correctness                                                             *)
(***************************************************************************)
TypeOK ==
  /\ cfg \in [dryRun : BOOLEAN, ignoreErrors : BOOLEAN]
  /\ pc \in {"decode", "arns", "names", "done", "error"}
  /\ isEOF \in BOOLEAN /\ broken \in BOOLEAN
  /\ arnBuckets \in [Tag -> SUBSET Arn] /\ age \in [Tag -> Nat \cup {None}]
  /\ nameBuckets \in [Name -> TagMap \cup {None}]
  /\ ejecting \in NamedType \cup {None} /\ sending \subseteq Name
  /\ awsTags \in [Resource -> TagMap] /\ wanted \in [Resource -> TagMap]
  /\ inputs \in 0..MaxInputs /\ faults \in Nat
  /\ given \subseteq Resource \X Tag
  /\ sent \subseteq Resource \X Tag /\ lost \subseteq Resource \X Tag

\* No request carries more than ArnEject ARNs, the most TagResources takes,
\* although a bucket is compared with its limit only after it has grown:
\* buckets are below their limits whenever an input is read.
BucketsBounded ==
  /\ \A t \in Tag : Cardinality(arnBuckets[t]) <= ArnEject
  /\ \A rt \in NamedType : Cardinality(NamesOf(rt)) <= NameEject
  /\ pc = "decode" =>
       /\ \A t \in Tag : Cardinality(arnBuckets[t]) < ArnEject
       /\ \A rt \in NamedType : Cardinality(NamesOf(rt)) < NameEject

InBucket(r, t) ==
  \/ r \in arnBuckets[t]
  \/ r \in Name /\ nameBuckets[r] # None /\ nameBuckets[r][t.key] = t.value

\* A name has one value for each key, the last one given.
Superseded(r, t) == r \in Name /\ wanted[r][t.key] # t.value

\* Every tag of every taggable resource read so far waits in a bucket or has
\* been put in a request, unless a later input gave the key another value.
NothingDropped ==
  \A p \in given : InBucket(p[1], p[2]) \/ p \in sent \/ Superseded(p[1], p[2])

\* When the command ends well, every tag read has been sent, and what was not
\* lost in a failed request is in AWS: names have the value last given, ARNs
\* one of the values given for the key (not always the last, as buckets are sent
\* in the random order of a Go map).
DoneMeansTagged ==
  pc = "done" =>
    \A p \in given :
      LET r == p[1] t == p[2] IN
      /\ p \in sent \/ Superseded(r, t)
      /\ ~cfg.dryRun /\ p \notin lost /\ ~Superseded(r, t) =>
           IF r \in Name THEN awsTags[r][t.key] = t.value
           ELSE \E u \in Tag : /\ u.key = t.key /\ awsTags[r][u.key] = u.value
                               /\ <<r, u>> \in given

\* A finite stream is read to its end unless it has a syntax error and
\* --ignore-errors makes nothing of it, and then every bucket is emptied.
Terminates == <>(pc \in {"done", "error"} \/ (broken /\ cfg.ignoreErrors))
=============================================================================
