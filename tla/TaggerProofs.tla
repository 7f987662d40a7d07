---------------------------- MODULE TaggerProofs ----------------------------
(***************************************************************************)
(* Proofs about `grafiti tag': no request is too large, no tag read is     *)
(* dropped, and a command that ends well has tagged what it was given.     *)
(***************************************************************************)
EXTENDS Tagger, FiniteSetTheorems, TLAPS

(***************************************************************************)
(* The parts of the invariant.                                             *)
(***************************************************************************)
\* The bucket of names being sent: what is left of it is still in the bucket.
SendingOK ==
  IF ejecting = None THEN sending = {}
  ELSE pc \in {"names", "error"} /\ sending \subseteq NamesOf(ejecting)

\* A full bucket is sent before the command goes on.
Bounded ==
  /\ \A t \in Tag : /\ Cardinality(arnBuckets[t]) <= ArnEject
                    /\ pc \in {"decode", "names"} => Cardinality(arnBuckets[t]) < ArnEject
  /\ \A rt \in NamedType : /\ Cardinality(NamesOf(rt)) <= NameEject
                           /\ pc = "decode" => Cardinality(NamesOf(rt)) < NameEject

\* The bucket of a name holds only the values last given for its keys.
BucketIsLast ==
  \A r \in Name : nameBuckets[r] # None =>
    \A k \in Key : nameBuckets[r][k] # None => nameBuckets[r][k] = wanted[r][k]

\* What is no longer being sent of a bucket has been put in a request.
SentAlready ==
  ejecting # None =>
    \A r \in NamesOf(ejecting) \ sending : Pairs(r, nameBuckets[r]) \subseteq sent

\* After the end of the stream the buckets are emptied in turn.
Emptied ==
  /\ pc = "names" /\ isEOF => \A t \in Tag : arnBuckets[t] = {}
  /\ pc = "done" => /\ \A t \in Tag : arnBuckets[t] = {}
                    /\ \A r \in Name : nameBuckets[r] = None

\* A tag is in AWS, or waits for a request that has not been made.
Waits(r, t) ==
  /\ nameBuckets[r] # None /\ nameBuckets[r][t.key] = t.value
  /\ ejecting = ClassOf[r] => r \in sending

NamesTagged ==
  ~cfg.dryRun =>
    \A r \in Name : \A t \in Tag :
      <<r, t>> \in sent \ lost /\ wanted[r][t.key] = t.value =>
        awsTags[r][t.key] = t.value \/ Waits(r, t)

\* ARNs have some value for every key that was sent, and only values given.
ARNsTagged ==
  /\ given \subseteq (Arn \cup Name) \X Tag
  /\ \A r \in Arn : \A t \in Tag :
       /\ r \in arnBuckets[t] => <<r, t>> \in given
       /\ ~cfg.dryRun /\ <<r, t>> \in sent \ lost => awsTags[r][t.key] # None
       /\ awsTags[r][t.key] = t.value => <<r, t>> \in given

TagInv ==
  /\ TypeOK /\ SendingOK /\ Bounded /\ BucketIsLast /\ SentAlready /\ NothingDropped
  /\ Emptied /\ NamesTagged /\ ARNsTagged

(***************************************************************************)
(* Tags and buckets.                                                       *)
(***************************************************************************)

\* Merged tags have the later value where there is one.
LEMMA MergeType ==
  ASSUME NEW m \in TagMap, NEW n \in TagMap
  PROVE  /\ Merge(m, n) \in TagMap
         /\ \A k \in Key : Merge(m, n)[k] = IF n[k] = None THEN m[k] ELSE n[k]
BY DEF Merge, TagMap

\* The tags in a map are values of its keys.
LEMMA TagsInMap ==
  ASSUME NEW m \in TagMap
  PROVE  /\ TagsIn(m) \subseteq Tag /\ TagsIn(NoTags) = {} /\ NoTags \in TagMap
         /\ \A t \in Tag : /\ t.key \in Key /\ t.value \in Value /\ t.value # None
                           /\ t \in TagsIn(m) <=> m[t.key] = t.value
BY TaggerAssumption DEF TagsIn, NoTags, TagMap, Tag, TaggerAssumption

\* A resource is of one class.
LEMMA Classes ==
  /\ Arn \subseteq Resource /\ Name \subseteq Resource /\ Arn \cap Name = {}
  /\ \A r \in Name : ClassOf[r] \in NamedType
  /\ \A rt \in NamedType : OfClass(rt) \subseteq Name
  /\ \A r \in Resource : ClassOf[r] = "untaggable" => r \notin Arn \cup Name
BY DEF Arn, Name, OfClass, NamedType

\* Buckets are finite.
LEMMA BucketsFinite ==
  ASSUME TypeOK
  PROVE  /\ \A t \in Tag : IsFiniteSet(arnBuckets[t]) /\ Cardinality(arnBuckets[t]) \in Nat
         /\ \A rt \in NamedType : IsFiniteSet(NamesOf(rt)) /\ Cardinality(NamesOf(rt)) \in Nat
<1>1. \A S \in SUBSET Resource : IsFiniteSet(S) /\ Cardinality(S) \in Nat
  BY TaggerAssumption, FS_Subset, FS_CardinalityType DEF TaggerAssumption
<1>2. \A t \in Tag : arnBuckets[t] \in SUBSET Resource
  BY Classes DEF TypeOK
<1>3. \A rt \in NamedType : NamesOf(rt) \in SUBSET Resource
  BY Classes DEF NamesOf
<1> QED
  BY <1>1, <1>2, <1>3

(***************************************************************************)
(* Types.                                                                  *)
(***************************************************************************)

\* Every variable has its type at first.
LEMMA TypeInit == Init => TypeOK
<1> SUFFICES ASSUME Init PROVE TypeOK
  OBVIOUS
<1>1. NoTags \in TagMap
  BY DEF NoTags, TagMap
<1>2. cfg \in [dryRun : BOOLEAN, ignoreErrors : BOOLEAN] /\ inputs \in 0..MaxInputs
  BY TaggerAssumption DEF Init, TaggerAssumption
<1>3. awsTags \in [Resource -> TagMap] /\ wanted \in [Resource -> TagMap]
  BY <1>1 DEF Init
<1>4. /\ arnBuckets \in [Tag -> SUBSET Arn] /\ age \in [Tag -> Nat \cup {None}]
      /\ nameBuckets \in [Name -> TagMap \cup {None}]
  BY DEF Init
<1> QED
  BY <1>2, <1>3, <1>4 DEF Init, TypeOK

\* How what was read is bucketed.
LEMMA BucketedCases ==
  ASSUME NEW r \in Resource, NEW m \in TagMap, Bucketed(r, m)
  PROVE  /\ r \in Arn => AddARNToBuckets(r, m)
         /\ r \in Name => AddResourceNameToBucket(r, m)
         /\ r \notin Arn \cup Name => UNCHANGED <<arnBuckets, age, nameBuckets>>
<1>1. CASE r \in Arn
  BY <1>1, Classes DEF Bucketed
<1>2. CASE r \in Name
  BY <1>2, Classes DEF Bucketed
<1>3. CASE r \notin Arn \cup Name
  BY <1>3 DEF Bucketed
<1> QED
  BY <1>1, <1>2, <1>3

\* What is bucketed keeps the types of the buckets.
LEMMA BucketedType ==
  ASSUME TypeOK, NEW r \in Resource, NEW m \in TagMap, Bucketed(r, m)
  PROVE  /\ arnBuckets' \in [Tag -> SUBSET Arn] /\ age' \in [Tag -> Nat \cup {None}]
         /\ nameBuckets' \in [Name -> TagMap \cup {None}]
<1>1. CASE r \in Arn
  <2>1. AddARNToBuckets(r, m)
    BY <1>1, BucketedCases
  <2> QED
    BY <1>1, <2>1 DEF TypeOK, AddARNToBuckets
<1>2. CASE r \in Name
  <2>1. NoTags \in TagMap
    BY DEF NoTags, TagMap
  <2>2. Merge(IF nameBuckets[r] = None THEN NoTags ELSE nameBuckets[r], m) \in TagMap
    BY <1>2, <2>1, MergeType DEF TypeOK
  <2> QED
    BY <1>2, <2>2, BucketedCases DEF TypeOK, AddResourceNameToBucket
<1>3. CASE r \notin Arn \cup Name
  BY <1>3, BucketedCases DEF TypeOK
<1> QED
  BY <1>1, <1>2, <1>3

\* Tagging in AWS keeps the type of its tags.
LEMMA TagARNsType ==
  ASSUME TypeOK, NEW R \in SUBSET Resource, NEW t \in Tag, TagARNs(R, t)
  PROVE  awsTags' \in [Resource -> TagMap]
<1>1. t.key \in Key /\ t.value \in Value
  BY DEF Tag
<1>2. \A r \in Resource : [awsTags[r] EXCEPT ![t.key] = t.value] \in TagMap
  BY <1>1 DEF TypeOK, TagMap
<1> QED
  BY <1>2 DEF TagARNs, TypeOK

\* Every step keeps the types.
LEMMA TypeStep ==
  ASSUME TypeOK, SendingOK, [Next]_vars
  PROVE  TypeOK'
<1>1. ASSUME NEW r \in Resource, NEW m \in TagSets, DecodeInput(r, m) PROVE TypeOK'
  <2>1. m \in TagMap
    BY TaggerAssumption DEF TaggerAssumption
  <2>2. /\ arnBuckets' \in [Tag -> SUBSET Arn] /\ age' \in [Tag -> Nat \cup {None}]
        /\ nameBuckets' \in [Name -> TagMap \cup {None}]
    BY <1>1, <2>1, BucketedType DEF DecodeInput
  <2>3. given' \subseteq Resource \X Tag
    BY <1>1, <2>1, TagsInMap DEF DecodeInput, Pairs, TypeOK
  <2>4. wanted' \in [Resource -> TagMap]
    BY <1>1, <2>1, MergeType DEF DecodeInput, TypeOK
  <2>5. inputs' \in 0..MaxInputs /\ pc' \in {"decode", "arns", "names", "done", "error"}
    BY <1>1, TaggerAssumption DEF DecodeInput, TypeOK, TaggerAssumption
  <2> QED
    BY <1>1, <2>2, <2>3, <2>4, <2>5 DEF DecodeInput, TypeOK
<1>2. CASE DecodeEOF
  BY <1>2 DEF DecodeEOF, TypeOK, nameVars
<1>3. CASE DecodeFails
  <2>1. inputs' \in 0..MaxInputs /\ broken' \in BOOLEAN
    BY <1>3, TaggerAssumption DEF DecodeFails, TypeOK, TaggerAssumption
  <2> QED
    BY <1>3, <2>1 DEF DecodeFails, AfterError, TypeOK, nameVars
<1>4. CASE DecodeFailsAgain \/ Terminated \/ UNCHANGED vars
  BY <1>4 DEF DecodeFailsAgain, Terminated, vars, decodeVars, nameVars, TypeOK
<1>5. ASSUME NEW t \in Tag, EjectARNs(t) PROVE TypeOK'
  <2>1. arnBuckets[t] \subseteq Resource
    BY Classes DEF TypeOK
  <2>2. sent' \subseteq Resource \X Tag /\ lost' \subseteq Resource \X Tag
    BY <1>5, <2>1 DEF EjectARNs, TypeOK
  <2>3. awsTags' \in [Resource -> TagMap]
    BY <1>5, <2>1, TagARNsType DEF EjectARNs, TypeOK
  <2>4. arnBuckets' \in [Tag -> SUBSET Arn] /\ age' \in [Tag -> Nat \cup {None}]
    BY <1>5 DEF EjectARNs, ClearARNs, TypeOK
  <2>5. faults' \in Nat /\ pc' \in {"decode", "arns", "names", "done", "error"}
    BY <1>5 DEF EjectARNs, TypeOK
  <2> QED
    BY <1>5, <2>2, <2>3, <2>4, <2>5 DEF EjectARNs, TypeOK, decodeVars, nameVars
<1>6. CASE ARNsDone \/ NamesDone
  BY <1>6 DEF ARNsDone, NamesDone, TypeOK, decodeVars, nameVars
<1>7. ASSUME NEW rt \in NamedType, EjectNames(rt) PROVE TypeOK'
  BY <1>7, Classes DEF EjectNames, NamesOf, TypeOK, decodeVars
<1>8. ASSUME NEW r \in sending, TagName(r) PROVE TypeOK'
  <2>1. r \in Name /\ r \in Resource /\ nameBuckets[r] \in TagMap
    BY Classes DEF SendingOK, NamesOf, TypeOK
  <2>2. Pairs(r, nameBuckets[r]) \subseteq Resource \X Tag
    BY <2>1, TagsInMap DEF Pairs
  <2>3. awsTags' \in [Resource -> TagMap]
    BY <1>8, <2>1, MergeType DEF TagName, TypeOK
  <2>4. sent' \subseteq Resource \X Tag /\ lost' \subseteq Resource \X Tag
    BY <1>8, <2>2 DEF TagName, TypeOK
  <2>5. faults' \in Nat /\ pc' \in {"decode", "arns", "names", "done", "error"}
        /\ sending' \subseteq Name
    BY <1>8 DEF TagName, AfterError, TypeOK
  <2> QED
    BY <1>8, <2>3, <2>4, <2>5 DEF TagName, TypeOK, decodeVars
<1>9. CASE ClearNames
  BY <1>9 DEF ClearNames, TypeOK, decodeVars
<1>10. CASE Tick
  BY <1>10 DEF Tick, TypeOK, decodeVars, nameVars
<1> QED
  BY <1>1, <1>2, <1>3, <1>4, <1>5, <1>6, <1>7, <1>8, <1>9, <1>10 DEF Next, Program

(***************************************************************************)
(* Steps that leave the buckets alone.                                     *)
(***************************************************************************)
Idle ==
  /\ DecodeEOF \/ DecodeFails \/ DecodeFailsAgain \/ Tick \/ Terminated \/ UNCHANGED vars
  /\ UNCHANGED <<cfg, given, wanted, arnBuckets, nameVars, awsTags, sent, lost>>
  /\ pc' # pc => pc = "decode" /\ pc' \in {"arns", "error"}

\* Every other step buckets an input or empties a bucket.
LEMMA Steps ==
  ASSUME [Next]_vars
  PROVE  \/ Idle
         \/ \E r \in Resource, m \in TagSets : DecodeInput(r, m)
         \/ \E t \in Tag : EjectARNs(t)
         \/ ARNsDone \/ NamesDone \/ ClearNames
         \/ \E rt \in NamedType : EjectNames(rt)
         \/ \E r \in sending : TagName(r)
<1>1. DecodeEOF => Idle
  BY DEF DecodeEOF, Idle, nameVars
<1>2. DecodeFails => Idle
  BY DEF DecodeFails, AfterError, Idle, nameVars
<1>3. DecodeFailsAgain \/ Terminated \/ UNCHANGED vars => Idle
  BY DEF DecodeFailsAgain, Terminated, Idle, vars, decodeVars, nameVars
<1>4. Tick => Idle
  BY DEF Tick, Idle, decodeVars, nameVars
<1> QED
  BY <1>1, <1>2, <1>3, <1>4 DEF Next, Program

(***************************************************************************)
(* Buckets stay below their limits.                                        *)
(***************************************************************************)

\* What is being sent is in the bucket.
LEMMA SendingStep ==
  ASSUME TypeOK, SendingOK, [Next]_vars
  PROVE  SendingOK'
<1>1. CASE Idle
  BY <1>1 DEF Idle, SendingOK, NamesOf, nameVars
<1>2. ASSUME NEW r \in Resource, NEW m \in TagSets, DecodeInput(r, m) PROVE SendingOK'
  BY <1>2 DEF DecodeInput, SendingOK
<1>3. ASSUME NEW t \in Tag, EjectARNs(t) PROVE SendingOK'
  BY <1>3 DEF EjectARNs, SendingOK, nameVars
<1>4. CASE ARNsDone \/ NamesDone
  BY <1>4 DEF ARNsDone, NamesDone, SendingOK, nameVars
<1>5. CASE ClearNames
  BY <1>5 DEF ClearNames, SendingOK
<1>6. ASSUME NEW rt \in NamedType, EjectNames(rt) PROVE SendingOK'
  BY <1>6, TaggerAssumption DEF EjectNames, SendingOK, NamesOf, TaggerAssumption
<1>7. ASSUME NEW r \in sending, TagName(r) PROVE SendingOK'
  BY <1>7 DEF TagName, AfterError, SendingOK, NamesOf
<1> QED
  BY <1>1, <1>2, <1>3, <1>4, <1>5, <1>6, <1>7, Steps

\* One more member makes a bucket larger by one at most.
LEMMA OneMore ==
  ASSUME NEW S, IsFiniteSet(S), NEW T, NEW r, S \subseteq T, T \subseteq S \cup {r}
  PROVE  Cardinality(T) <= Cardinality(S) + 1
<1>1. /\ IsFiniteSet(S \cup {r}) /\ Cardinality(S) \in Nat
      /\ Cardinality(S \cup {r}) \in {Cardinality(S), Cardinality(S) + 1}
  BY FS_AddElement, FS_CardinalityType
<1>2. Cardinality(T) \in Nat /\ Cardinality(T) <= Cardinality(S \cup {r})
  BY <1>1, FS_Subset, FS_CardinalityType
<1> QED
  BY <1>1, <1>2

\* A bucket that is compared with its limit after each input never passes it.
LEMMA BoundedStep ==
  ASSUME TypeOK, SendingOK, Bounded, [Next]_vars
  PROVE  Bounded'
<1>1. /\ \A t \in Tag : IsFiniteSet(arnBuckets[t]) /\ Cardinality(arnBuckets[t]) \in Nat
      /\ \A rt \in NamedType : IsFiniteSet(NamesOf(rt)) /\ Cardinality(NamesOf(rt)) \in Nat
      /\ ArnEject \in Nat \ {0} /\ NameEject \in Nat \ {0}
  BY BucketsFinite, TaggerAssumption DEF TaggerAssumption
<1>2. CASE UNCHANGED <<arnBuckets, nameBuckets>> /\ (pc' = pc \/ pc' \notin {"decode", "names"})
  BY <1>2 DEF Bounded, NamesOf
<1>3. ASSUME NEW r \in Resource, NEW m \in TagSets, DecodeInput(r, m) PROVE Bounded'
  <2>1. m \in TagMap /\ pc = "decode" /\ Bucketed(r, m)
    BY <1>3, TaggerAssumption DEF TaggerAssumption, DecodeInput
  <2>2. CASE r \notin Arn \cup Name
    <3>1. UNCHANGED <<arnBuckets, nameBuckets>> /\ pc' \in {"decode", "arns"}
      BY <1>3, <2>1, <2>2, BucketedCases DEF DecodeInput
    <3> QED
      BY <1>2, <2>1, <3>1
  <2>3. CASE r \in Arn \cup Name
    <3>1. pc' = "arns"
      BY <1>3, <2>3, Classes DEF DecodeInput
    <3>2. ASSUME NEW t \in Tag PROVE Cardinality(arnBuckets'[t]) <= ArnEject
      <4>1. arnBuckets[t] \subseteq arnBuckets'[t] /\ arnBuckets'[t] \subseteq arnBuckets[t] \cup {r}
        BY <2>1, <2>3, BucketedCases DEF AddARNToBuckets, AddResourceNameToBucket
      <4>2. Cardinality(arnBuckets'[t]) <= Cardinality(arnBuckets[t]) + 1
        BY <1>1, <4>1, OneMore
      <4>3. Cardinality(arnBuckets'[t]) \in Nat
        <5>1. IsFiniteSet(arnBuckets[t] \cup {r})
          BY <1>1, FS_AddElement
        <5> QED
          BY <4>1, <5>1, FS_Subset, FS_CardinalityType
      <4> QED
        BY <1>1, <2>1, <4>2, <4>3 DEF Bounded
    <3>3. ASSUME NEW rt \in NamedType PROVE Cardinality(NamesOf(rt)') <= NameEject
      <4>1. NamesOf(rt) \subseteq NamesOf(rt)' /\ NamesOf(rt)' \subseteq NamesOf(rt) \cup {r}
        <5>1. CASE r \in Arn
          BY <2>1, <5>1, BucketedCases DEF AddARNToBuckets, NamesOf
        <5>2. CASE r \in Name
          <6>1. \A q \in Name \ {r} : nameBuckets'[q] = nameBuckets[q]
            BY <2>1, <5>2, BucketedCases DEF AddResourceNameToBucket, TypeOK
          <6>2. nameBuckets'[r] # None
            BY <2>1, <5>2, BucketedCases, MergeType, TagsInMap, TaggerAssumption
               DEF AddResourceNameToBucket, TypeOK, TaggerAssumption
          <6> QED
            BY <6>1, <6>2, Classes DEF NamesOf
        <5> QED
          BY <2>3, <5>1, <5>2
      <4>2. Cardinality(NamesOf(rt)') <= Cardinality(NamesOf(rt)) + 1
        BY <1>1, <4>1, OneMore
      <4>3. Cardinality(NamesOf(rt)') \in Nat
        <5>1. IsFiniteSet(NamesOf(rt) \cup {r})
          BY <1>1, FS_AddElement
        <5> QED
          BY <4>1, <5>1, FS_Subset, FS_CardinalityType
      <4> QED
        BY <1>1, <2>1, <4>2, <4>3 DEF Bounded
    <3> QED
      BY <3>1, <3>2, <3>3 DEF Bounded
  <2> QED
    BY <2>2, <2>3
<1>4. ASSUME NEW t \in Tag, EjectARNs(t) PROVE Bounded'
  <2>1. /\ UNCHANGED nameBuckets /\ pc' \in {"arns", "error"}
        /\ \A u \in Tag : arnBuckets'[u] = {} \/ arnBuckets'[u] = arnBuckets[u]
    BY <1>4 DEF EjectARNs, ClearARNs, TypeOK, nameVars
  <2>2. ASSUME NEW u \in Tag PROVE Cardinality(arnBuckets'[u]) <= ArnEject
    <3>1. CASE arnBuckets'[u] = {}
      <4>1. Cardinality(arnBuckets'[u]) = 0
        BY <3>1, FS_EmptySet
      <4> QED
        BY <1>1, <4>1
    <3>2. CASE arnBuckets'[u] = arnBuckets[u]
      BY <3>2 DEF Bounded
    <3> QED
      BY <2>1, <3>1, <3>2
  <2> QED
    BY <2>1, <2>2 DEF Bounded, NamesOf
<1>5. CASE ARNsDone
  <2>1. UNCHANGED <<arnBuckets, nameBuckets>> /\ pc' = "names"
    BY <1>5 DEF ARNsDone, nameVars
  <2>2. \A t \in Tag : Cardinality(arnBuckets[t]) # ArnEject
    BY <1>5 DEF ARNsDone, ArnsDue, ShouldEject
  <2>3. \A t \in Tag : Cardinality(arnBuckets[t]) < ArnEject
    BY <1>1, <2>2 DEF Bounded
  <2> QED
    BY <2>1, <2>3 DEF Bounded, NamesOf
<1>6. CASE NamesDone
  <2>1. UNCHANGED <<arnBuckets, nameBuckets>> /\ pc = "names"
    BY <1>6 DEF NamesDone, nameVars
  <2>2. \A rt \in NamedType : Cardinality(NamesOf(rt)) # NameEject
    BY <1>6 DEF NamesDone, NamesDue, ShouldEject
  <2>3. \A rt \in NamedType : Cardinality(NamesOf(rt)) < NameEject
    BY <1>1, <2>2 DEF Bounded
  <2> QED
    BY <2>1, <2>3 DEF Bounded, NamesOf
<1>7. CASE ClearNames
  <2>1. UNCHANGED <<arnBuckets, pc>> /\ pc = "names"
    BY <1>7 DEF ClearNames
  <2>2. ASSUME NEW rt \in NamedType PROVE Cardinality(NamesOf(rt)') <= NameEject
    <3>1. NamesOf(rt)' \subseteq NamesOf(rt)
      BY <1>7, Classes DEF ClearNames, NamesOf
    <3>2. Cardinality(NamesOf(rt)') \in Nat /\ Cardinality(NamesOf(rt)') <= Cardinality(NamesOf(rt))
      BY <1>1, <3>1, FS_Subset, FS_CardinalityType
    <3> QED
      BY <1>1, <3>2 DEF Bounded
  <2> QED
    BY <2>1, <2>2 DEF Bounded
<1>8. ASSUME NEW rt \in NamedType, EjectNames(rt) PROVE Bounded'
  BY <1>2, <1>8 DEF EjectNames
<1>9. ASSUME NEW r \in sending, TagName(r) PROVE Bounded'
  BY <1>2, <1>9 DEF TagName, AfterError
<1>10. CASE Idle
  BY <1>2, <1>10 DEF Idle, nameVars
<1> QED
  BY <1>3, <1>4, <1>5, <1>6, <1>7, <1>8, <1>9, <1>10, Steps

(***************************************************************************)
(* Nothing is dropped.                                                     *)
(***************************************************************************)

\* The buckets of names hold the values last given.
LEMMA LastStep ==
  ASSUME TypeOK, BucketIsLast, [Next]_vars
  PROVE  BucketIsLast'
<1>1. CASE UNCHANGED <<nameBuckets, wanted>>
  BY <1>1 DEF BucketIsLast
<1>2. ASSUME NEW r \in Resource, NEW m \in TagSets, DecodeInput(r, m) PROVE BucketIsLast'
  <2>1. m \in TagMap /\ Bucketed(r, m)
    BY <1>2, TaggerAssumption DEF TaggerAssumption, DecodeInput
  <2>2. CASE r \notin Name
    <3>1. UNCHANGED nameBuckets
      BY <2>1, <2>2, BucketedCases DEF AddARNToBuckets
    <3>2. \A q \in Name : wanted'[q] = wanted[q]
      BY <1>2, <2>2, Classes DEF DecodeInput, TypeOK
    <3> QED
      BY <3>1, <3>2 DEF BucketIsLast
  <2>3. CASE r \in Name
    <3> DEFINE b == IF nameBuckets[r] = None THEN NoTags ELSE nameBuckets[r]
    <3>1. /\ nameBuckets'[r] = Merge(b, m)
          /\ \A q \in Name \ {r} : nameBuckets'[q] = nameBuckets[q]
      BY <2>1, <2>3, BucketedCases DEF AddResourceNameToBucket, TypeOK
    <3>2. /\ wanted'[r] = Merge(wanted[r], m)
          /\ \A q \in Name \ {r} : wanted'[q] = wanted[q]
      BY <1>2, <2>3, Classes DEF DecodeInput, TypeOK
    <3>3. b \in TagMap /\ wanted[r] \in TagMap
      BY <2>3, Classes DEF TypeOK, NoTags, TagMap
    <3>4. \A k \in Key : b[k] # None => b[k] = wanted[r][k]
      BY <2>3 DEF BucketIsLast, NoTags
    <3> HIDE DEF b
    <3>5. \A k \in Key : Merge(b, m)[k] # None => Merge(b, m)[k] = Merge(wanted[r], m)[k]
      BY <2>1, <3>3, <3>4, MergeType
    <3> QED
      BY <3>1, <3>2, <3>5 DEF BucketIsLast
  <2> QED
    BY <2>2, <2>3
<1>3. CASE ClearNames
  BY <1>3 DEF ClearNames, decodeVars, BucketIsLast
<1> QED
  BY <1>1, <1>2, <1>3, Steps
     DEF Idle, EjectARNs, ARNsDone, NamesDone, EjectNames, TagName, decodeVars, nameVars

\* What has left the names being sent is in a request.
LEMMA SentStep ==
  ASSUME TypeOK, SendingOK, SentAlready, [Next]_vars
  PROVE  SentAlready'
<1>1. CASE UNCHANGED nameVars /\ sent \subseteq sent'
  BY <1>1 DEF SentAlready, NamesOf, nameVars
<1>2. ASSUME NEW r \in Resource, NEW m \in TagSets, DecodeInput(r, m) PROVE SentAlready'
  BY <1>2 DEF DecodeInput, SendingOK, SentAlready
<1>3. CASE ClearNames
  BY <1>3 DEF ClearNames, SentAlready
<1>4. ASSUME NEW rt \in NamedType, EjectNames(rt) PROVE SentAlready'
  BY <1>4 DEF EjectNames, SentAlready, NamesOf
<1>5. ASSUME NEW r \in sending, TagName(r) PROVE SentAlready'
  BY <1>5 DEF TagName, SentAlready, NamesOf
<1>6. ASSUME NEW t \in Tag, EjectARNs(t) PROVE SentAlready'
  BY <1>1, <1>6 DEF EjectARNs
<1> QED
  BY <1>1, <1>2, <1>3, <1>4, <1>5, <1>6, Steps DEF Idle, ARNsDone, NamesDone

\* No tag is forgotten between its bucket and its request.
LEMMA DroppedStep ==
  ASSUME TypeOK, SendingOK, BucketIsLast, SentAlready, NothingDropped, [Next]_vars
  PROVE  NothingDropped'
<1>1. CASE UNCHANGED <<arnBuckets, nameBuckets, given, wanted, sent>>
  BY <1>1 DEF NothingDropped, InBucket, Superseded
<1>2. ASSUME NEW r \in Resource, NEW m \in TagSets, DecodeInput(r, m) PROVE NothingDropped'
  <2>1. m \in TagMap /\ Bucketed(r, m) /\ sent' = sent
    BY <1>2, TaggerAssumption DEF TaggerAssumption, DecodeInput
  <2>2. CASE r \notin Arn \cup Name
    <3>1. UNCHANGED <<arnBuckets, nameBuckets, given, wanted, sent>>
      BY <1>2, <2>1, <2>2, BucketedCases DEF DecodeInput
    <3> QED
      BY <1>1, <3>1
  <2>3. CASE r \in Arn
    <3>1. /\ \A t \in Tag : arnBuckets[t] \subseteq arnBuckets'[t]
          /\ \A t \in TagsIn(m) : r \in arnBuckets'[t]
          /\ UNCHANGED nameBuckets
      BY <2>1, <2>3, BucketedCases, TagsInMap DEF AddARNToBuckets
    <3>2. given' = given \cup Pairs(r, m) /\ \A q \in Name : wanted'[q] = wanted[q]
      BY <1>2, <2>3, Classes DEF DecodeInput, TypeOK
    <3>3. ASSUME NEW p \in given'
          PROVE  InBucket(p[1], p[2])' \/ p \in sent' \/ Superseded(p[1], p[2])'
      <4>1. CASE p \in given
        <5>1. p[2] \in Tag
          BY <4>1 DEF TypeOK
        <5> QED
          BY <2>1, <3>1, <3>2, <4>1, <5>1 DEF NothingDropped, InBucket, Superseded
      <4>2. CASE p \in Pairs(r, m)
        <5>1. p[1] = r /\ p[2] \in TagsIn(m)
          BY <4>2 DEF Pairs
        <5> QED
          BY <3>1, <5>1 DEF InBucket
      <4> QED
        BY <3>2, <4>1, <4>2
    <3> QED
      BY <3>3 DEF NothingDropped
  <2>4. CASE r \in Name
    <3>0. /\ TagsIn(m) \subseteq Tag
          /\ \A t \in Tag : /\ t.key \in Key /\ t.value # None
                            /\ t \in TagsIn(m) => m[t.key] = t.value
      BY <2>1, TagsInMap
    <3> DEFINE b == IF nameBuckets[r] = None THEN NoTags ELSE nameBuckets[r]
    <3>1. /\ nameBuckets'[r] = Merge(b, m)
          /\ \A q \in Name \ {r} : nameBuckets'[q] = nameBuckets[q]
          /\ UNCHANGED arnBuckets
      BY <2>1, <2>4, BucketedCases DEF AddResourceNameToBucket, TypeOK
    <3>2. /\ wanted'[r] = Merge(wanted[r], m)
          /\ \A q \in Name \ {r} : wanted'[q] = wanted[q]
          /\ given' = given \cup Pairs(r, m)
      BY <1>2, <2>4, Classes DEF DecodeInput, TypeOK
    <3>3. b \in TagMap /\ wanted[r] \in TagMap
      BY <2>4, Classes DEF TypeOK, NoTags, TagMap
    <3>4. \A k \in Key : /\ Merge(b, m)[k] = (IF m[k] = None THEN b[k] ELSE m[k])
                         /\ Merge(wanted[r], m)[k] = (IF m[k] = None THEN wanted[r][k] ELSE m[k])
      BY <2>1, <3>3, MergeType
    <3>5. Merge(b, m) # None
      BY <2>1, <3>3, MergeType, TaggerAssumption DEF TaggerAssumption
    <3>6. nameBuckets[r] # None => b = nameBuckets[r]
      OBVIOUS
    <3> HIDE DEF b
    <3>7. ASSUME NEW p \in given'
          PROVE  InBucket(p[1], p[2])' \/ p \in sent' \/ Superseded(p[1], p[2])'
      <4>1. CASE p \in given
        <5>1. p[1] \in Resource /\ p[2] \in Tag /\ p[2].key \in Key /\ p[2].value # None
          <6>1. p[1] \in Resource /\ p[2] \in Tag
            BY <4>1 DEF TypeOK
          <6> QED
            BY <3>0, <6>1
        <5>2. InBucket(p[1], p[2]) \/ p \in sent \/ Superseded(p[1], p[2])
          BY <4>1 DEF NothingDropped
        <5>3. CASE p[1] # r
          BY <2>1, <3>1, <3>2, <5>1, <5>2, <5>3 DEF InBucket, Superseded
        <5>4. CASE p[1] = r
          <6>1. CASE r \in arnBuckets[p[2]]
            BY <3>1, <5>4, <6>1 DEF InBucket
          <6>2. CASE p \in sent
            BY <2>1, <6>2
          <6>3. CASE m[p[2].key] = p[2].value
            BY <2>4, <3>1, <3>4, <3>5, <5>1, <5>4, <6>3 DEF InBucket
          <6>4. CASE m[p[2].key] # None /\ m[p[2].key] # p[2].value
            BY <2>4, <3>2, <3>4, <5>1, <5>4, <6>4 DEF Superseded
          <6>5. CASE m[p[2].key] = None /\ nameBuckets[r] # None /\ nameBuckets[r][p[2].key] = p[2].value
            BY <2>4, <3>1, <3>4, <3>5, <3>6, <5>1, <5>4, <6>5 DEF InBucket
          <6>6. CASE m[p[2].key] = None /\ Superseded(p[1], p[2])
            BY <2>4, <3>2, <3>4, <5>1, <5>4, <6>6 DEF Superseded
          <6> QED
            BY <5>2, <5>4, <6>1, <6>2, <6>3, <6>4, <6>5, <6>6 DEF InBucket
        <5> QED
          BY <5>3, <5>4
      <4>2. CASE p \in Pairs(r, m)
        <5>1. p[1] = r /\ p[2] \in TagsIn(m)
          BY <4>2 DEF Pairs
        <5>2. p[2] \in Tag /\ p[2].key \in Key /\ m[p[2].key] = p[2].value /\ p[2].value # None
          BY <3>0, <5>1
        <5> QED
          BY <2>4, <3>1, <3>4, <3>5, <5>1, <5>2 DEF InBucket
      <4> QED
        BY <3>2, <4>1, <4>2
    <3> QED
      BY <3>7 DEF NothingDropped
  <2> QED
    BY <2>2, <2>3, <2>4
<1>3. ASSUME NEW t \in Tag, EjectARNs(t) PROVE NothingDropped'
  <2>1. /\ UNCHANGED <<nameBuckets, given, wanted>>
        /\ sent' = sent \cup (arnBuckets[t] \X {t})
        /\ \A u \in Tag \ {t} : arnBuckets'[u] = arnBuckets[u]
    BY <1>3 DEF EjectARNs, ClearARNs, decodeVars, nameVars, TypeOK
  <2>2. ASSUME NEW p \in given
        PROVE  InBucket(p[1], p[2])' \/ p \in sent' \/ Superseded(p[1], p[2])'
    <3>1. p[2] \in Tag /\ p = <<p[1], p[2]>>
      BY DEF TypeOK
    <3>2. InBucket(p[1], p[2]) \/ p \in sent \/ Superseded(p[1], p[2])
      BY DEF NothingDropped
    <3>3. CASE p[2] = t /\ p[1] \in arnBuckets[t]
      BY <2>1, <3>1, <3>3
    <3>4. CASE ~(p[2] = t /\ p[1] \in arnBuckets[t])
      BY <2>1, <3>1, <3>2, <3>4 DEF InBucket, Superseded
    <3> QED
      BY <3>3, <3>4
  <2> QED
    BY <2>1, <2>2 DEF NothingDropped
<1>4. CASE ClearNames
  <2>1. /\ UNCHANGED <<arnBuckets, given, wanted, sent>> /\ ejecting \in NamedType
        /\ \A r \in Name : \/ nameBuckets'[r] = nameBuckets[r]
                           \/ ClassOf[r] = ejecting
    BY <1>4 DEF ClearNames, decodeVars, TypeOK
  <2>2. ASSUME NEW p \in given
        PROVE  InBucket(p[1], p[2])' \/ p \in sent' \/ Superseded(p[1], p[2])'
    <3>1. p[1] \in Resource /\ p[2] \in Tag /\ p = <<p[1], p[2]>>
      BY DEF TypeOK
    <3>2. InBucket(p[1], p[2]) \/ p \in sent \/ Superseded(p[1], p[2])
      BY DEF NothingDropped
    <3>3. CASE p[1] \in Name /\ ClassOf[p[1]] = ejecting /\ InBucket(p[1], p[2])
      <4>1. p[1] \notin arnBuckets[p[2]]
        BY <3>1, <3>3, Classes DEF TypeOK
      <4>2. nameBuckets[p[1]] # None /\ nameBuckets[p[1]][p[2].key] = p[2].value
        BY <3>3, <4>1 DEF InBucket
      <4>3. p[1] \in NamesOf(ejecting) \ sending
        BY <1>4, <3>1, <3>3, <4>2 DEF ClearNames, NamesOf, OfClass
      <4>4. p[2] \in TagsIn(nameBuckets[p[1]])
        BY <3>1, <4>2 DEF TagsIn
      <4> QED
        BY <2>1, <3>1, <4>3, <4>4, <1>4 DEF SentAlready, Pairs, ClearNames
    <3>4. CASE ~(p[1] \in Name /\ ClassOf[p[1]] = ejecting /\ InBucket(p[1], p[2]))
      BY <2>1, <3>1, <3>2, <3>4 DEF InBucket, Superseded
    <3> QED
      BY <3>3, <3>4
  <2> QED
    BY <2>1, <2>2 DEF NothingDropped
<1>5. ASSUME NEW r \in sending, TagName(r) PROVE NothingDropped'
  BY <1>5 DEF TagName, decodeVars, NothingDropped, InBucket, Superseded
<1>6. ASSUME NEW rt \in NamedType, EjectNames(rt) PROVE NothingDropped'
  BY <1>1, <1>6 DEF EjectNames, decodeVars
<1> QED
  BY <1>1, <1>2, <1>3, <1>4, <1>5, <1>6, Steps
     DEF Idle, ARNsDone, NamesDone, decodeVars, nameVars

(***************************************************************************)
(* After the end of the stream.                                            *)
(***************************************************************************)

\* The end of the stream empties the buckets of ARNs, then those of names.
LEMMA EmptiedStep ==
  ASSUME TypeOK, Emptied, [Next]_vars
  PROVE  Emptied'
<1>1. CASE Idle
  <2>1. CASE pc = "decode" /\ pc' = "decode"
    BY <2>1 DEF Emptied
  <2>2. CASE pc' \in {"arns", "error"}
    BY <2>2 DEF Emptied
  <2>3. CASE pc # "decode" /\ pc' = pc
    <3>1. isEOF' = isEOF
      BY <1>1, <2>3 DEF Idle, DecodeEOF, DecodeFails, DecodeFailsAgain, Tick, Terminated, vars, decodeVars
    <3> QED
      BY <1>1, <2>3, <3>1 DEF Idle, nameVars, Emptied
  <2> QED
    BY <1>1, <2>1, <2>2, <2>3 DEF Idle
<1>2. ASSUME NEW r \in Resource, NEW m \in TagSets, DecodeInput(r, m) PROVE Emptied'
  BY <1>2 DEF DecodeInput, Emptied
<1>3. ASSUME NEW t \in Tag, EjectARNs(t) PROVE Emptied'
  <2>1. pc' \notin {"names", "done"}
    BY <1>3 DEF EjectARNs
  <2> QED
    BY <2>1 DEF Emptied
<1>4. CASE ARNsDone
  BY <1>4 DEF ARNsDone, ArnsDue, Emptied, decodeVars
<1>5. CASE NamesDone
  <2>1. UNCHANGED <<arnBuckets, nameBuckets>> /\ pc = "names" /\ pc' \in {"done", "decode"}
    BY <1>5 DEF NamesDone, nameVars
  <2>2. ASSUME pc' = "done" PROVE isEOF
    BY <1>5, <2>2 DEF NamesDone
  <2>3. ASSUME pc' = "done", NEW r \in Name PROVE nameBuckets[r] = None
    <3>1. ClassOf[r] \in NamedType /\ r \in OfClass(ClassOf[r])
      BY Classes DEF OfClass, Name
    <3>2. NamesOf(ClassOf[r]) = {}
      BY <1>5, <2>2, <2>3, <3>1 DEF NamesDone, NamesDue
    <3> QED
      BY <3>1, <3>2 DEF NamesOf
  <2> QED
    BY <2>1, <2>2, <2>3 DEF Emptied
<1>6. CASE ClearNames
  BY <1>6 DEF ClearNames, Emptied, decodeVars
<1>7. ASSUME NEW rt \in NamedType, EjectNames(rt) PROVE Emptied'
  BY <1>7 DEF EjectNames, Emptied, decodeVars
<1>8. ASSUME NEW r \in sending, TagName(r) PROVE Emptied'
  BY <1>8 DEF TagName, AfterError, Emptied, decodeVars
<1> QED
  BY <1>1, <1>2, <1>3, <1>4, <1>5, <1>6, <1>7, <1>8, Steps

(***************************************************************************)
(* What is in AWS.                                                         *)
(***************************************************************************)

\* Each request that is not lost leaves its tags in AWS.
LEMMA NamesTaggedStep ==
  ASSUME TypeOK, SendingOK, BucketIsLast, NamesTagged, [Next]_vars
  PROVE  NamesTagged'
<1> USE DEF NamesTagged, Waits
<1>1. CASE UNCHANGED <<cfg, wanted, nameVars, awsTags, sent, lost>>
  BY <1>1 DEF nameVars
<1>2. ASSUME NEW r \in Resource, NEW m \in TagSets, DecodeInput(r, m) PROVE NamesTagged'
  <2>1. /\ m \in TagMap /\ Bucketed(r, m) /\ ejecting = None
        /\ UNCHANGED <<cfg, ejecting, sending, awsTags, sent, lost>>
    BY <1>2, TaggerAssumption DEF TaggerAssumption, DecodeInput, SendingOK
  <2>2. CASE r \notin Name
    <3>1. UNCHANGED nameBuckets /\ \A q \in Name : wanted'[q] = wanted[q]
      BY <1>2, <2>1, <2>2, BucketedCases, Classes DEF DecodeInput, AddARNToBuckets, TypeOK
    <3> QED
      BY <2>1, <3>1
  <2>3. CASE r \in Name
    <3> DEFINE b == IF nameBuckets[r] = None THEN NoTags ELSE nameBuckets[r]
    <3>1. /\ nameBuckets'[r] = Merge(b, m)
          /\ \A q \in Name \ {r} : nameBuckets'[q] = nameBuckets[q]
      BY <2>1, <2>3, BucketedCases DEF AddResourceNameToBucket, TypeOK
    <3>2. /\ wanted'[r] = Merge(wanted[r], m)
          /\ \A q \in Name \ {r} : wanted'[q] = wanted[q]
      BY <1>2, <2>3, Classes DEF DecodeInput, TypeOK
    <3>3. b \in TagMap /\ wanted[r] \in TagMap /\ ClassOf[r] # None
      BY <2>3, Classes, TaggerAssumption DEF TypeOK, NoTags, TagMap, TaggerAssumption
    <3>4. /\ Merge(b, m) # None
          /\ \A k \in Key : /\ Merge(b, m)[k] = (IF m[k] = None THEN b[k] ELSE m[k])
                            /\ Merge(wanted[r], m)[k] = (IF m[k] = None THEN wanted[r][k] ELSE m[k])
      BY <2>1, <3>3, MergeType, TaggerAssumption DEF TaggerAssumption
    <3>5. nameBuckets[r] # None => b = nameBuckets[r]
      OBVIOUS
    <3> HIDE DEF b
    <3>6. ASSUME ~cfg.dryRun, NEW t \in Tag, <<r, t>> \in sent \ lost, wanted'[r][t.key] = t.value
          PROVE  \/ awsTags[r][t.key] = t.value
                 \/ nameBuckets'[r] # None /\ nameBuckets'[r][t.key] = t.value
      <4>1. t.key \in Key /\ t.value # None
        BY <2>1, TagsInMap
      <4>2. CASE m[t.key] # None
        BY <3>1, <3>2, <3>4, <3>6, <4>1, <4>2
      <4>3. CASE m[t.key] = None
        <5>1. wanted[r][t.key] = t.value
          BY <3>2, <3>4, <3>6, <4>1, <4>3
        <5>2. awsTags[r][t.key] = t.value \/ Waits(r, t)
          BY <2>3, <3>6, <5>1
        <5>3. Waits(r, t) => nameBuckets[r] # None /\ nameBuckets[r][t.key] = t.value
          OBVIOUS
        <5>4. b = nameBuckets[r] => Merge(b, m)[t.key] = nameBuckets[r][t.key]
          BY <3>4, <4>1, <4>3
        <5> QED
          BY <3>1, <3>4, <3>5, <5>2, <5>3, <5>4
      <4> QED
        BY <4>2, <4>3
    <3>7. ASSUME ~cfg'.dryRun, NEW q \in Name, NEW t \in Tag,
                 <<q, t>> \in (sent \ lost)', wanted'[q][t.key] = t.value
          PROVE  awsTags'[q][t.key] = t.value \/ Waits(q, t)'
      <4>1. CASE q = r
        BY <2>1, <3>3, <3>6, <3>7, <4>1
      <4>2. CASE q # r
        BY <2>1, <3>1, <3>2, <3>7, <4>2
      <4> QED
        BY <4>1, <4>2
    <3> QED
      BY <3>7
  <2> QED
    BY <2>2, <2>3
<1>3. ASSUME NEW t \in Tag, EjectARNs(t) PROVE NamesTagged'
  <2>1. /\ UNCHANGED <<cfg, wanted, nameVars>>
        /\ \A r \in Name : awsTags'[r] = awsTags[r]
        /\ \A r \in Name, u \in Tag : <<r, u>> \in (sent \ lost)' => <<r, u>> \in sent \ lost
    <3>1. \A r \in Name : r \notin arnBuckets[t] /\ r \in Resource
      BY Classes DEF TypeOK
    <3>2. UNCHANGED <<cfg, wanted, nameVars>> /\ sent' = sent \cup (arnBuckets[t] \X {t})
          /\ lost \subseteq lost'
      BY <1>3 DEF EjectARNs, decodeVars, nameVars
    <3>3. \A r \in Name : awsTags'[r] = awsTags[r]
      BY <1>3, <3>1 DEF EjectARNs, TagARNs
    <3> QED
      BY <3>1, <3>2, <3>3
  <2> QED
    BY <2>1 DEF nameVars
<1>4. CASE ARNsDone \/ NamesDone
  BY <1>1, <1>4 DEF ARNsDone, NamesDone, decodeVars
<1>5. CASE ClearNames
  <2>1. /\ UNCHANGED <<cfg, wanted, sending, awsTags, sent, lost>> /\ sending = {}
        /\ ejecting' = None /\ ejecting # None
        /\ \A r \in Name : ClassOf[r] # ejecting => nameBuckets'[r] = nameBuckets[r]
    BY <1>5 DEF ClearNames, decodeVars
  <2>2. \A r \in Name : ClassOf[r] # None
    BY Classes, TaggerAssumption DEF TaggerAssumption
  <2> QED
    BY <2>1, <2>2
<1>6. ASSUME NEW rt \in NamedType, EjectNames(rt) PROVE NamesTagged'
  <2>1. /\ UNCHANGED <<cfg, wanted, nameBuckets, awsTags, sent, lost>>
        /\ ejecting' = rt /\ sending' = NamesOf(rt)
    BY <1>6 DEF EjectNames, decodeVars
  <2>2. \A r \in Name : ClassOf[r] = rt /\ nameBuckets[r] # None => r \in NamesOf(rt)
    BY Classes DEF NamesOf, OfClass
  <2> QED
    BY <2>1, <2>2
<1>7. ASSUME NEW r \in sending, TagName(r) PROVE NamesTagged'
  <2>1. /\ UNCHANGED <<cfg, wanted, nameBuckets, ejecting>> /\ sending' = sending \ {r}
        /\ sent' = sent \cup Pairs(r, nameBuckets[r]) /\ lost \subseteq lost'
        /\ r \in Name /\ r \in Resource /\ nameBuckets[r] \in TagMap /\ nameBuckets[r] # None
        /\ ClassOf[r] = ejecting
    BY <1>7, Classes DEF TagName, decodeVars, SendingOK, NamesOf, OfClass, TypeOK
  <2>2. \A q \in Name \ {r} : \A t \in Tag : <<q, t>> \notin Pairs(r, nameBuckets[r])
    BY DEF Pairs
  <2>3. \A q \in Name \ {r} : awsTags'[q] = awsTags[q]
    BY <1>7, Classes DEF TagName, TypeOK
  <2>4. ASSUME ~cfg.dryRun, NEW t \in Tag, <<r, t>> \in sent' \ lost', wanted[r][t.key] = t.value
        PROVE  awsTags'[r][t.key] = t.value
    <3>1. t.key \in Key /\ t.value # None
      BY <2>1, TagsInMap
    <3>2. CASE awsTags' = [awsTags EXCEPT ![r] = Merge(@, nameBuckets[r])]
      <4>1. awsTags'[r] = Merge(awsTags[r], nameBuckets[r]) /\ awsTags[r] \in TagMap
        BY <2>1, <3>2 DEF TypeOK
      <4>2. awsTags'[r][t.key] = IF nameBuckets[r][t.key] = None THEN awsTags[r][t.key]
                                 ELSE nameBuckets[r][t.key]
        BY <2>1, <3>1, <4>1, MergeType
      <4>3. nameBuckets[r][t.key] # None => nameBuckets[r][t.key] = t.value
        BY <2>1, <2>4, <3>1 DEF BucketIsLast
      <4>4. CASE nameBuckets[r][t.key] = None
        <5>1. <<r, t>> \in sent \ lost
          BY <2>1, <2>4, <3>1, <4>4 DEF Pairs, TagsIn
        <5>2. awsTags[r][t.key] = t.value \/ Waits(r, t)
          BY <2>1, <2>4, <5>1
        <5> QED
          BY <3>1, <4>2, <4>4, <5>2
      <4> QED
        BY <4>2, <4>3, <4>4
    <3>3. CASE UNCHANGED awsTags /\ lost' = lost \cup Pairs(r, nameBuckets[r])
      <4>1. <<r, t>> \notin Pairs(r, nameBuckets[r])
        BY <2>4, <3>3
      <4>2. nameBuckets[r][t.key] # t.value
        BY <4>1 DEF Pairs, TagsIn
      <4>3. <<r, t>> \in sent \ lost
        BY <2>1, <2>4, <4>1
      <4>4. awsTags[r][t.key] = t.value
        BY <2>1, <2>4, <4>2, <4>3
      <4> QED
        BY <3>3, <4>4
    <3> QED
      BY <1>7, <2>4, <3>2, <3>3 DEF TagName
  <2>5. ASSUME ~cfg'.dryRun, NEW q \in Name, NEW t \in Tag,
               <<q, t>> \in (sent \ lost)', wanted'[q][t.key] = t.value
        PROVE  awsTags'[q][t.key] = t.value \/ Waits(q, t)'
    <3>1. CASE q = r
      BY <2>1, <2>4, <2>5, <3>1
    <3>2. CASE q # r
      <4>1. <<q, t>> \in sent \ lost /\ wanted[q][t.key] = t.value /\ ~cfg.dryRun
        BY <2>1, <2>2, <2>5, <3>2
      <4>2. awsTags[q][t.key] = t.value \/ Waits(q, t)
        BY <4>1
      <4> QED
        BY <2>1, <2>3, <3>2, <4>2
    <3> QED
      BY <3>1, <3>2
  <2> QED
    BY <2>5
<1>8. CASE Idle
  BY <1>1, <1>8 DEF Idle
<1> QED
  BY <1>2, <1>3, <1>4, <1>5, <1>6, <1>7, <1>8, Steps

\* ARNs are tagged with what was given, and with nothing else.
LEMMA ARNsTaggedStep ==
  ASSUME TypeOK, SendingOK, ARNsTagged, [Next]_vars
  PROVE  ARNsTagged'
<1> USE DEF ARNsTagged
<1>1. CASE UNCHANGED <<cfg, given, arnBuckets, awsTags, sent, lost>>
  BY <1>1
<1>2. ASSUME NEW r \in Resource, NEW m \in TagSets, DecodeInput(r, m) PROVE ARNsTagged'
  <2>1. /\ m \in TagMap /\ Bucketed(r, m)
        /\ UNCHANGED <<cfg, awsTags, sent, lost>>
    BY <1>2, TaggerAssumption DEF TaggerAssumption, DecodeInput
  <2>2. given' = IF r \in Arn \cup Name THEN given \cup Pairs(r, m) ELSE given
    BY <1>2 DEF DecodeInput
  <2>3. TagsIn(m) \subseteq Tag
    BY <2>1, TagsInMap
  <2>4. given \subseteq given' /\ given' \subseteq (Arn \cup Name) \X Tag
    BY <2>2, <2>3 DEF Pairs
  <2>5. ASSUME NEW q \in Arn, NEW t \in Tag, q \in arnBuckets'[t] PROVE <<q, t>> \in given'
    <3>1. CASE q \in arnBuckets[t]
      BY <2>4, <3>1
    <3>2. CASE q \notin arnBuckets[t]
      <4>1. CASE r \in Arn
        <5>1. q = r /\ t \in TagsIn(m)
          BY <2>1, <2>5, <3>2, <4>1, BucketedCases DEF AddARNToBuckets
        <5> QED
          BY <2>2, <4>1, <5>1 DEF Pairs
      <4>2. CASE r \notin Arn
        BY <2>1, <2>5, <3>2, <4>2, BucketedCases DEF AddResourceNameToBucket
      <4> QED
        BY <4>1, <4>2
    <3> QED
      BY <3>1, <3>2
  <2> QED
    BY <2>1, <2>4, <2>5
<1>3. ASSUME NEW t \in Tag, EjectARNs(t) PROVE ARNsTagged'
  <2>1. /\ UNCHANGED <<cfg, given>> /\ sent' = sent \cup (arnBuckets[t] \X {t})
        /\ lost \subseteq lost'
    BY <1>3 DEF EjectARNs, decodeVars
  <2>2. \A u \in Tag : arnBuckets'[u] \subseteq arnBuckets[u]
    BY <1>3 DEF EjectARNs, ClearARNs, TypeOK
  <2>3. t.key \in Key /\ t.value # None
    BY TaggerAssumption DEF Tag, TaggerAssumption
  <2>4. PICK R \in SUBSET arnBuckets[t] :
          /\ TagARNs(R, t) \/ (UNCHANGED awsTags /\ R = {})
          /\ ~cfg.dryRun => (arnBuckets[t] \ R) \X {t} \subseteq lost'
    <3>1. CASE cfg.dryRun
      <4>1. {} \in SUBSET arnBuckets[t] /\ UNCHANGED awsTags
        BY <1>3, <3>1 DEF EjectARNs
      <4> QED
        BY <3>1, <4>1
    <3>2. CASE ~cfg.dryRun /\ TagARNs(arnBuckets[t], t)
      <4>1. /\ arnBuckets[t] \in SUBSET arnBuckets[t]
            /\ (arnBuckets[t] \ arnBuckets[t]) \X {t} \subseteq lost'
        OBVIOUS
      <4> QED
        BY <3>2, <4>1
    <3>3. CASE \E done \in SUBSET arnBuckets[t] :
                 /\ TagARNs(done, t)
                 /\ lost' = lost \cup ((arnBuckets[t] \ done) \X {t})
      BY <3>3
    <3>4. CASE UNCHANGED awsTags /\ lost' = lost \cup (arnBuckets[t] \X {t})
      <4>1. {} \in SUBSET arnBuckets[t] /\ (arnBuckets[t] \ {}) \X {t} \subseteq lost'
        BY <3>4
      <4> QED
        BY <3>4, <4>1
    <3> QED
      BY <1>3, <3>1, <3>2, <3>3, <3>4 DEF EjectARNs
  <2>5. ASSUME NEW r \in Arn, NEW k \in Key
        PROVE  awsTags'[r][k] = IF r \in R /\ k = t.key THEN t.value ELSE awsTags[r][k]
    <3>1. r \in Resource /\ awsTags[r] \in TagMap
      BY Classes DEF TypeOK
    <3> QED
      BY <2>3, <2>4, <3>1 DEF TagARNs, TagMap
  <2>6. \A u \in Tag : u.key \in Key /\ u = [key |-> u.key, value |-> u.value]
    BY DEF Tag
  <2>7. ASSUME NEW r \in Arn, NEW u \in Tag
        PROVE  /\ ~cfg.dryRun /\ <<r, u>> \in sent' \ lost' => awsTags'[r][u.key] # None
               /\ awsTags'[r][u.key] = u.value => <<r, u>> \in given
    <3>1. CASE r \in R /\ u.key = t.key
      <4>1. awsTags'[r][u.key] = t.value
        BY <2>3, <2>5, <3>1
      <4>2. u.value = t.value => u = t
        BY <2>6, <3>1
      <4>3. <<r, t>> \in given
        BY <3>1
      <4> QED
        BY <2>3, <4>1, <4>2, <4>3
    <3>2. CASE ~(r \in R /\ u.key = t.key)
      <4>1. awsTags'[r][u.key] = awsTags[r][u.key]
        BY <2>5, <2>6, <3>2
      <4>2. ~cfg.dryRun /\ <<r, u>> \in sent' \ lost' => <<r, u>> \in sent \ lost
        BY <2>1, <2>4, <3>2
      <4> QED
        BY <4>1, <4>2
    <3> QED
      BY <3>1, <3>2
  <2> QED
    BY <2>1, <2>2, <2>7
<1>4. ASSUME NEW r \in sending, TagName(r) PROVE ARNsTagged'
  <2>1. /\ UNCHANGED <<cfg, given, arnBuckets>> /\ lost \subseteq lost'
        /\ sent' = sent \cup Pairs(r, nameBuckets[r])
    BY <1>4 DEF TagName, decodeVars
  <2>2. r \notin Arn
    BY Classes DEF TypeOK
  <2>3. \A q \in Arn : awsTags'[q] = awsTags[q]
    BY <1>4, <2>2, Classes DEF TagName, TypeOK
  <2>4. \A q \in Arn : \A t \in Tag : <<q, t>> \notin Pairs(r, nameBuckets[r])
    BY <2>2 DEF Pairs
  <2> QED
    BY <2>1, <2>3, <2>4
<1> QED
  BY <1>1, <1>2, <1>3, <1>4, Steps
     DEF Idle, ARNsDone, NamesDone, ClearNames, EjectNames, decodeVars

(***************************************************************************)
(* The theorems.                                                           *)
(***************************************************************************)

\* The invariant holds at first.
LEMMA TagInit == Init => TagInv
<1> SUFFICES ASSUME Init PROVE TagInv
  OBVIOUS
<1>1. TypeOK
  BY TypeInit
<1>2. /\ arnBuckets = [t \in Tag |-> {}] /\ nameBuckets = [r \in Name |-> None]
      /\ awsTags = [r \in Resource |-> NoTags] /\ ejecting = None /\ sending = {}
      /\ given = {} /\ sent = {} /\ pc = "decode"
  BY DEF Init
<1>3. SendingOK /\ SentAlready
  BY <1>2 DEF SendingOK, SentAlready
<1>4. \A rt \in NamedType : NamesOf(rt) = {}
  BY <1>2, Classes DEF NamesOf
<1>5. Bounded
  <2>1. ArnEject \in Nat \ {0} /\ NameEject \in Nat \ {0} /\ Cardinality({}) = 0
    BY TaggerAssumption, FS_EmptySet DEF TaggerAssumption
  <2>2. \A t \in Tag : Cardinality(arnBuckets[t]) = 0
    BY <1>2, <2>1
  <2>3. \A rt \in NamedType : Cardinality(NamesOf(rt)) = 0
    BY <1>4, <2>1
  <2> QED
    BY <2>1, <2>2, <2>3 DEF Bounded
<1>6. BucketIsLast /\ NothingDropped /\ Emptied /\ NamesTagged
  BY <1>2 DEF BucketIsLast, NothingDropped, Emptied, NamesTagged
<1>7. ARNsTagged
  <2>1. \A r \in Arn : \A t \in Tag : awsTags[r][t.key] = None /\ t.value # None
    BY <1>2, Classes, TaggerAssumption DEF NoTags, Tag, TaggerAssumption
  <2> QED
    BY <1>2, <2>1 DEF ARNsTagged
<1> QED
  BY <1>1, <1>3, <1>5, <1>6, <1>7 DEF TagInv

\* The buckets, the requests and the tags in AWS agree at every moment of
\* the loop of tag(): the inductive invariant.
THEOREM TaggerInvariant == Spec => []TagInv
<1>1. TagInv /\ [Next]_vars => TagInv'
  BY TypeStep, SendingStep, BoundedStep, LastStep, SentStep, DroppedStep, EmptiedStep,
     NamesTaggedStep, ARNsTaggedStep
     DEF TagInv
<1> QED
  BY TagInit, <1>1, PTL DEF Spec

\* Every variable of the tagger keeps its type.
THEOREM TaggerTypes == Spec => []TypeOK
<1>1. TagInv => TypeOK
  BY DEF TagInv
<1> QED
  BY TaggerInvariant, <1>1, PTL

\* No request of tagARNBucket is larger than AWS takes, and buckets are below
\* their limits whenever the next input is read.
THEOREM BucketsBoundedHolds == Spec => []BucketsBounded
<1>1. TagInv => BucketsBounded
  BY DEF TagInv, Bounded, BucketsBounded
<1> QED
  BY TaggerInvariant, <1>1, PTL

\* A tag that was read is in a bucket or in a request, or a later input has
\* replaced it: ClearBucket loses nothing.
THEOREM NothingDroppedHolds == Spec => []NothingDropped
<1>1. TagInv => NothingDropped
  BY DEF TagInv
<1> QED
  BY TaggerInvariant, <1>1, PTL

\* With its buckets empty, tag() has sent all it was given, and the rest of the
\* invariant says where that is.
LEMMA TaggedAtTheEnd == TagInv => DoneMeansTagged
<1> SUFFICES ASSUME TagInv, pc = "done", NEW p \in given
             PROVE  /\ p \in sent \/ Superseded(p[1], p[2])
                    /\ ~cfg.dryRun /\ p \notin lost /\ ~Superseded(p[1], p[2]) =>
                         IF p[1] \in Name THEN awsTags[p[1]][p[2].key] = p[2].value
                         ELSE \E u \in Tag : /\ u.key = p[2].key
                                             /\ awsTags[p[1]][u.key] = u.value
                                             /\ <<p[1], u>> \in given
  BY DEF DoneMeansTagged
<1>1. p[1] \in Arn \cup Name /\ p[2] \in Tag /\ p = <<p[1], p[2]>>
  BY DEF TagInv, ARNsTagged
<1>2. ~InBucket(p[1], p[2])
  BY <1>1 DEF TagInv, Emptied, InBucket
<1>3. p \in sent \/ Superseded(p[1], p[2])
  BY <1>2 DEF TagInv, NothingDropped
<1>4. ASSUME ~cfg.dryRun, p \notin lost, ~Superseded(p[1], p[2]), p[1] \in Name
      PROVE  awsTags[p[1]][p[2].key] = p[2].value
  <2>1. p \in sent \ lost /\ wanted[p[1]][p[2].key] = p[2].value
    BY <1>3, <1>4 DEF Superseded
  <2>2. nameBuckets[p[1]] = None
    BY <1>4 DEF TagInv, Emptied
  <2> QED
    BY <1>1, <1>4, <2>1, <2>2 DEF TagInv, NamesTagged, Waits
<1>5. ASSUME ~cfg.dryRun, p \notin lost, ~Superseded(p[1], p[2]), p[1] \notin Name
      PROVE  \E u \in Tag : /\ u.key = p[2].key /\ awsTags[p[1]][u.key] = u.value
                            /\ <<p[1], u>> \in given
  <2>1. p[1] \in Arn /\ p \in sent \ lost
    BY <1>1, <1>3, <1>5
  <2> DEFINE v == awsTags[p[1]][p[2].key]
             u == [key |-> p[2].key, value |-> v]
  <2>2. v # None
    BY <1>1, <1>5, <2>1 DEF TagInv, ARNsTagged
  <2>3. p[1] \in Resource /\ p[2].key \in Key
    BY <1>1, Classes DEF Tag
  <2>4. v \in Value
    BY <2>2, <2>3 DEF TagInv, TypeOK, TagMap
  <2>5. u \in Tag /\ u.key = p[2].key /\ awsTags[p[1]][u.key] = u.value
    BY <2>3, <2>4 DEF Tag
  <2>6. <<p[1], u>> \in given
    BY <2>1, <2>5 DEF TagInv, ARNsTagged
  <2> QED
    BY <2>5, <2>6
<1> QED
  BY <1>3, <1>4, <1>5

\* When tag() returns without an error, every tag it read was sent, and is in
\* AWS unless its request failed.
THEOREM DoneMeansTaggedHolds == Spec => []DoneMeansTagged
BY TaggerInvariant, TaggedAtTheEnd, PTL
=============================================================================
