--------------------------- MODULE FilterRunProofs ---------------------------
(***************************************************************************)
(* Proofs about the search by tag and `grafiti filter': the search finds   *)
(* only what was asked for and misses nothing it can find, and filter      *)
(* forwards the rest.                                                      *)
(***************************************************************************)
EXTENDS FilterRun, FiniteSetTheorems, TLAPS

(***************************************************************************)
(* The parts of the invariant of the search.                               *)
(***************************************************************************)
Searching == pc \in {"rgta", "next", "groups", "describe", "zones", "zoneTags"}

\* The search is for the filters last read.
CurrentInput == Searching => read # << >> /\ filters = read[Len(read)]

\* What a listing has collected so far is what it should collect.
Collecting ==
  /\ pc = "rgta" => shown \subseteq RgtaMatching /\ shown \subseteq ToSet(found)
  /\ pc = "groups" => shown = matched /\ described = {} /\ matched \subseteq GroupsMatching
  /\ pc = "describe" => matched \cup described \subseteq GroupsMatching
  /\ pc = "zones" => shown = {} /\ matched = {}
  /\ pc = "zoneTags" => /\ shown \subseteq OfKind("HostedZone")
                        /\ matched = {r \in shown : ZoneMatches(r)}

\* What was read comes from the stream, and so does what is still to be read.
ReadFrom(stream) ==
  /\ \A i \in DOMAIN input : input[i] \in ToSet(stream)
  /\ \A i \in DOMAIN read : \E v \in ToSet(stream) : v.kind = "filters" /\ read[i] = v.filters

SearchInv == TypeOK /\ CurrentInput /\ Collecting /\ FoundWasAskedFor

(***************************************************************************)
(* The invariant that nothing is missed, unless AWS has empty pages.       *)
(***************************************************************************)
Counts == pc # "error" /\ (faults = 0 \/ ~ignoreErrors)

Complete(r, i) ==
  CanBeFound(r, i) /\ (faults = 0 \/ TypeOf[r] # "AutoScalingGroup") => r \in ToSet(found)

\* The listing of a kind of resources is under way.
Asking(k) ==
  \/ k = "AutoScalingGroup" /\ pc \in {"groups", "describe"}
  \/ k = "HostedZone" /\ pc \in {"zones", "zoneTags"}

PastIsComplete ==
  Counts => \A i \in DOMAIN read :
              i < Len(read) \/ pc \in {"decode", "done"} => \A r \in Resource : Complete(r, i)

PresentIsComplete ==
  Counts /\ Searching /\ pc # "rgta" =>
    /\ RgtaMatching \subseteq ToSet(found)
    /\ \A k \in UnsupportedKinds \ unasked :
         ~Asking(k) => \A r \in OfKind(k) : Complete(r, Len(read))

\* A page of groups after which there is a token leaves some for the next.
GroupsCollected ==
  /\ pc = "rgta" => unasked = UnsupportedKinds
  /\ pc = "groups" => shown = {} \/ shown # GroupsMatching
  /\ pc = "describe" /\ faults = 0 => matched \cup described = GroupsMatching

CompleteInv == PastIsComplete /\ PresentIsComplete /\ GroupsCollected

(***************************************************************************)
(* The invariant of filter.                                                *)
(***************************************************************************)
Forwarded ==
  /\ fStep = "search" => output = << >>
  /\ fStep \in {"read", "done"} \/ output # << >> => pc = "done"
  /\ ToSet(output) \cap ToSet(found) = {}

\* A resource of the parse output is still to be read, forwarded or to be ignored.
Kept ==
  /\ \A i \in DOMAIN rest : rest[i] \in ToSet(parsed)
  /\ \A r \in Parsed : \/ \E i \in DOMAIN rest : rest[i].resource = r
                       \/ fStep # "search" /\ r \in ToSet(output) \cup ToSet(found)
  /\ fStep = "done" => rest = << >>

FilterInv == SearchInv /\ FilterTypeOK /\ Forwarded

StdInInv == FilterInv /\ ReadFrom(tags) /\ Kept

(***************************************************************************)
(* Sequences.                                                              *)
(***************************************************************************)

\* The members of a sequence that is made longer.
LEMMA AppendedMembers ==
  ASSUME NEW D, NEW s \in Seq(D), NEW x \in D
  PROVE  /\ Append(s, x) \in Seq(D) /\ ToSet(Append(s, x)) = ToSet(s) \cup {x}
         /\ DOMAIN s = 1..Len(s) /\ Len(s) \in Nat
         /\ Len(Append(s, x)) = Len(s) + 1 /\ DOMAIN Append(s, x) = 1..(Len(s) + 1)
         /\ Append(s, x)[Len(s) + 1] = x /\ \A i \in 1..Len(s) : Append(s, x)[i] = s[i]
<1>1. /\ Append(s, x) \in Seq(D) /\ Len(s) \in Nat /\ DOMAIN s = 1..Len(s)
      /\ DOMAIN Append(s, x) = 1..(Len(s) + 1) /\ Len(Append(s, x)) = Len(s) + 1
      /\ Append(s, x)[Len(s) + 1] = x /\ \A i \in 1..Len(s) : Append(s, x)[i] = s[i]
  OBVIOUS
<1>2. ToSet(s) \cup {x} \subseteq ToSet(Append(s, x))
  BY <1>1 DEF ToSet
<1>3. \A i \in 1..(Len(s) + 1) : i \in 1..Len(s) \/ i = Len(s) + 1
  BY <1>1
<1>4. ToSet(Append(s, x)) \subseteq ToSet(s) \cup {x}
  BY <1>1, <1>3 DEF ToSet
<1> QED
  BY <1>1, <1>2, <1>4

\* The members of what is found when a page is added in some order.
LEMMA FoundMembers ==
  ASSUME found \in Seq(Resource), NEW S \in SUBSET Resource, NEW t \in Orders(S)
  PROVE  found \o t \in Seq(Resource) /\ ToSet(found \o t) = ToSet(found) \cup S
<1>1. Cardinality(S) \in Nat
  BY CollectAssumption, FS_Subset, FS_CardinalityType DEF CollectAssumption
<1>2. t \in Seq(Resource) /\ ToSet(t) = S
  BY <1>1 DEF Orders
<1> DEFINE u == found \o t
           n == Len(found)
           m == Len(t)
<1>3. /\ u \in Seq(Resource) /\ n \in Nat /\ m \in Nat /\ DOMAIN u = 1..(n + m)
      /\ DOMAIN found = 1..n /\ DOMAIN t = 1..m
      /\ \A i \in 1..(n + m) : u[i] = IF i <= n THEN found[i] ELSE t[i - n]
  BY <1>2
<1> HIDE DEF u, n, m
<1>4. ToSet(u) \subseteq ToSet(found) \cup ToSet(t)
  <2> SUFFICES ASSUME NEW i \in 1..(n + m) PROVE u[i] \in ToSet(found) \cup ToSet(t)
    BY <1>3 DEF ToSet
  <2>1. CASE i <= n
    BY <1>3, <2>1 DEF ToSet
  <2>2. CASE ~(i <= n)
    <3>1. i - n \in 1..m
      BY <1>3, <2>2
    <3> QED
      BY <1>3, <2>2, <3>1 DEF ToSet
  <2> QED
    BY <2>1, <2>2
<1>5. ToSet(found) \subseteq ToSet(u)
  <2>1. \A i \in 1..n : i \in 1..(n + m) /\ u[i] = found[i]
    BY <1>3
  <2> QED
    BY <1>3, <2>1 DEF ToSet
<1>6. ToSet(t) \subseteq ToSet(u)
  <2>1. \A i \in 1..m : n + i \in 1..(n + m) /\ u[n + i] = t[i]
    <3> SUFFICES ASSUME NEW i \in 1..m PROVE n + i \in 1..(n + m) /\ u[n + i] = t[i]
      OBVIOUS
    <3>1. n + i \in 1..(n + m) /\ ~(n + i <= n) /\ (n + i) - n = i
      BY <1>3
    <3> QED
      BY <1>3, <3>1
  <2>2. \A i \in 1..m : t[i] \in ToSet(u)
    BY <1>3, <2>1 DEF ToSet
  <2>3. ToSet(t) = {t[i] : i \in 1..m}
    BY <1>3 DEF ToSet
  <2> QED
    BY <2>2, <2>3
<1> QED
  BY <1>2, <1>3, <1>4, <1>5, <1>6 DEF u

\* What is left of a sequence.
LEMMA TailMembers ==
  ASSUME NEW D, NEW s \in Seq(D), s # << >>
  PROVE  /\ Head(s) \in D /\ Head(s) = s[1] /\ 1 \in DOMAIN s /\ Tail(s) \in Seq(D)
         /\ \A i \in DOMAIN Tail(s) : i + 1 \in DOMAIN s /\ Tail(s)[i] = s[i + 1]
         /\ \A i \in DOMAIN s : i = 1 \/ (i - 1 \in DOMAIN Tail(s) /\ Tail(s)[i - 1] = s[i])
OBVIOUS

(***************************************************************************)
(* The search finds what was asked for.                                    *)
(***************************************************************************)

\* What each listing matches is in the account.
LEMMA MatchingAreResources ==
  /\ RgtaMatching \subseteq Resource /\ GroupsMatching \subseteq Resource
  /\ GroupsMatching \subseteq OfKind("AutoScalingGroup")
  /\ \A k : OfKind(k) \subseteq Resource
BY DEF RgtaMatching, Listed, GroupsMatching, OfKind

\* The search begins with nothing found.
LEMMA SearchInit ==
  ASSUME NEW stream \in Seq(Value), InitWith(stream)
  PROVE  SearchInv
<1>1. TypeOK
  <2>1. ignoreErrors \in BOOLEAN /\ types \subseteq Type /\ faults \in 0..MaxFaults
    BY CollectAssumption DEF InitWith, CollectAssumption
  <2>2. found \in Seq(Resource) /\ read \in Seq(SUBSET Filter) /\ input \in Seq(Value)
    BY DEF InitWith
  <2> QED
    BY <2>1, <2>2 DEF InitWith, TypeOK
<1> QED
  BY <1>1 DEF InitWith, SearchInv, CurrentInput, Searching, Collecting, FoundWasAskedFor, ToSet

\* What matches the current input was asked for by it.
LEMMA MatchingWasAskedFor ==
  ASSUME TypeOK, CurrentInput, Searching, FoundWasAskedFor, UNCHANGED read,
         NEW S \in SUBSET Resource, NEW t \in Orders(S), found' = found \o t,
         \/ S \subseteq RgtaMatching \cup GroupsMatching
         \/ S \subseteq {r \in OfKind("HostedZone") : ZoneMatches(r)}
  PROVE  FoundWasAskedFor'
<1>1. ToSet(found') = ToSet(found) \cup S
  BY FoundMembers DEF TypeOK
<1>2. Len(read) \in DOMAIN read /\ filters = read[Len(read)]
  BY DEF TypeOK, CurrentInput
<1>3. ASSUME NEW r \in S
      PROVE  /\ Carries[r] \cap filters # {} \/ filters = {}
             /\ TypeOf[r] # "HostedZone" => Matches(r, filters)
  <2>1. CASE r \in RgtaMatching
    BY <2>1 DEF RgtaMatching, Matches
  <2>2. CASE r \in GroupsMatching
    <3>1. PICK f \in Carries[r] : filters = {f}
      BY <2>2 DEF GroupsMatching
    <3> QED
      BY <3>1 DEF Matches
  <2>3. CASE r \in {q \in OfKind("HostedZone") : ZoneMatches(q)}
    BY <2>3 DEF OfKind, ZoneMatches
  <2> QED
    BY <1>3, <2>1, <2>2, <2>3
<1> QED
  BY <1>1, <1>2, <1>3 DEF FoundWasAskedFor

\* Every step of the search finds only what was asked for.
LEMMA SearchStep ==
  ASSUME SearchInv, Program \/ UNCHANGED vars
  PROVE  SearchInv'
<1> USE DEF SearchInv
<1>1. CASE UNCHANGED vars
  BY <1>1 DEF vars, stepVars, TypeOK, CurrentInput, Searching, Collecting, FoundWasAskedFor,
              RgtaMatching, InScope, Services, GroupsMatching, ZoneMatches
<1>2. CASE DecodeFilters
  <2> DEFINE F == Head(input).filters
  <2>1. /\ input' \in Seq(Value) /\ F \subseteq Filter /\ filters' = F /\ read' = Append(read, F)
        /\ pc' = "rgta" /\ unasked' = UnsupportedKinds
        /\ shown' = {} /\ matched' = {} /\ described' = {}
        /\ UNCHANGED <<ignoreErrors, types, found, faults>>
    <3>1. input # << >> /\ input \in Seq(Value)
      BY <1>2 DEF DecodeFilters, TypeOK
    <3>2. Head(input) \in Value /\ Tail(input) \in Seq(Value)
      BY <3>1, TailMembers
    <3> QED
      BY <1>2, <3>2 DEF DecodeFilters, Value
  <2> HIDE DEF F
  <2>2. /\ read' \in Seq(SUBSET Filter) /\ read' # << >> /\ filters' = read'[Len(read')]
        /\ \A i \in DOMAIN read : i \in DOMAIN read' /\ read'[i] = read[i]
    BY <2>1, AppendedMembers DEF TypeOK
  <2>3. TypeOK'
    BY <2>1, <2>2 DEF TypeOK
  <2>4. FoundWasAskedFor'
    <3> SUFFICES ASSUME NEW r \in ToSet(found)
                 PROVE  \E i \in DOMAIN read' :
                          /\ Carries[r] \cap read'[i] # {} \/ read'[i] = {}
                          /\ TypeOf[r] # "HostedZone" => Matches(r, read'[i])
      BY <2>1 DEF FoundWasAskedFor
    <3>1. PICK i \in DOMAIN read :
            /\ Carries[r] \cap read[i] # {} \/ read[i] = {}
            /\ TypeOf[r] # "HostedZone" => Matches(r, read[i])
      BY DEF FoundWasAskedFor
    <3> QED
      BY <2>2, <3>1
  <2> QED
    BY <2>1, <2>2, <2>3, <2>4 DEF CurrentInput, Collecting
<1>3. CASE DecodeFails
  <2>1. input' \in Seq(Value)
    BY <1>3, TailMembers DEF DecodeFails, TypeOK
  <2>2. TypeOK'
    BY <1>3, <2>1 DEF DecodeFails, TypeOK, stepVars
  <2> QED
    BY <1>3, <2>2
       DEF DecodeFails, stepVars, CurrentInput, Searching, Collecting, FoundWasAskedFor
<1>4. CASE DecodeEOF \/ NextInput
  BY <1>4 DEF DecodeEOF, NextInput, stepVars, TypeOK, CurrentInput, Searching, Collecting,
              FoundWasAskedFor
<1>5. CASE RequestResources
  <2>1. PICK page \in SUBSET RgtaMatching, more \in BOOLEAN :
          /\ shown' = shown \cup page
          /\ \E s \in Orders(page) : found' = found \o s
          /\ pc' = IF more /\ page # {} THEN "rgta" ELSE "next"
    BY <1>5 DEF RequestResources
  <2>2. PICK s \in Orders(page) : found' = found \o s
    BY <2>1
  <2>3. /\ pc = "rgta" /\ page \in SUBSET Resource
        /\ UNCHANGED <<ignoreErrors, types, input, filters, unasked, matched, described,
                       faults, read>>
    BY <1>5, MatchingAreResources DEF RequestResources
  <2>4. found' \in Seq(Resource) /\ ToSet(found') = ToSet(found) \cup page
    BY <2>2, <2>3, FoundMembers DEF TypeOK
  <2>5. FoundWasAskedFor'
    BY <2>2, <2>3, MatchingWasAskedFor DEF Searching
  <2>6. TypeOK'
    BY <2>1, <2>3, <2>4 DEF TypeOK
  <2>7. RgtaMatching' = RgtaMatching
    BY <2>3 DEF RgtaMatching, InScope, Services
  <2>8. Collecting'
    BY <2>1, <2>3, <2>4, <2>7 DEF Collecting
  <2> QED
    BY <2>3, <2>5, <2>6, <2>8 DEF CurrentInput, Searching
<1>6. CASE RequestGroupTags
  <2>1. PICK page \in SUBSET GroupsMatching, more \in BOOLEAN :
          /\ shown' = shown \cup page
          /\ matched' = matched \cup page
          /\ pc' = IF page = {} THEN "next" ELSE IF more THEN "groups" ELSE "describe"
    BY <1>6 DEF RequestGroupTags
  <2>2. /\ pc = "groups" /\ page \subseteq Resource
        /\ UNCHANGED <<ignoreErrors, types, input, filters, unasked, described, found,
                       faults, read>>
    BY <1>6, MatchingAreResources DEF RequestGroupTags
  <2>3. TypeOK'
    BY <2>1, <2>2 DEF TypeOK
  <2>4. GroupsMatching' = GroupsMatching
    BY <2>2 DEF GroupsMatching
  <2> QED
    BY <2>1, <2>2, <2>3, <2>4 DEF CurrentInput, Searching, Collecting, FoundWasAskedFor
<1>7. CASE RequestZones
  <2>1. /\ pc = "zones" /\ pc' \in {"zoneTags", "next", "error"}
        /\ UNCHANGED <<ignoreErrors, types, input, stepVars, found, faults, read>>
    BY <1>7 DEF RequestZones
  <2> QED
    BY <2>1 DEF stepVars, TypeOK, CurrentInput, Searching, Collecting, FoundWasAskedFor
<1>8. CASE RequestZoneTags
  <2>1. PICK chunk \in SUBSET (OfKind("HostedZone") \ shown) :
          /\ shown' = shown \cup chunk
          /\ matched' = matched \cup {r \in chunk : ZoneMatches(r)}
    BY <1>8 DEF RequestZoneTags
  <2>2. /\ pc = "zoneTags" /\ chunk \subseteq Resource
        /\ UNCHANGED <<ignoreErrors, types, input, pc, filters, unasked, described, found,
                       faults, read>>
    BY <1>8, MatchingAreResources DEF RequestZoneTags
  <2>3. TypeOK'
    BY <2>1, <2>2 DEF TypeOK
  <2>4. shown' \subseteq OfKind("HostedZone") /\ matched' = {r \in shown' : ZoneMatches(r)}
    BY <2>1, <2>2 DEF Collecting
  <2>5. \A r : ZoneMatches(r)' <=> ZoneMatches(r)
    BY <2>2 DEF ZoneMatches
  <2> QED
    BY <2>2, <2>3, <2>4, <2>5 DEF CurrentInput, Searching, Collecting, FoundWasAskedFor
<1>9. ASSUME NEW k \in unasked, Request(k) PROVE SearchInv'
  <2>1. TypeOK'
    BY <1>9 DEF Request, TypeOK
  <2> QED
    BY <1>9, <2>1 DEF Request, CurrentInput, Searching, Collecting, FoundWasAskedFor
<1>10. ASSUME NEW r \in matched, RequestGroup(r) \/ RequestGoneGroup(r) PROVE SearchInv'
  <2>1. /\ pc = "describe" /\ matched' = matched \ {r} /\ described' \subseteq described \cup {r}
        /\ UNCHANGED <<ignoreErrors, types, input, pc, filters, unasked, shown, found, read>>
    BY <1>10 DEF RequestGroup, RequestGoneGroup
  <2>2. faults' \in 0..MaxFaults
    BY <1>10, CollectAssumption DEF RequestGroup, RequestGoneGroup, TypeOK, CollectAssumption
  <2>3. TypeOK'
    BY <1>10, <2>1, <2>2 DEF TypeOK
  <2>4. GroupsMatching' = GroupsMatching
    BY <2>1 DEF GroupsMatching
  <2> QED
    BY <1>10, <2>1, <2>3, <2>4 DEF CurrentInput, Searching, Collecting, FoundWasAskedFor
<1>11. CASE AppendGroups
  <2>1. PICK s \in Orders(described) : found' = found \o s
    BY <1>11 DEF AppendGroups
  <2>2. /\ pc = "describe" /\ pc' = "next" /\ described \subseteq GroupsMatching
        /\ described \in SUBSET Resource
        /\ UNCHANGED <<ignoreErrors, types, input, stepVars, faults, read>>
    BY <1>11, MatchingAreResources DEF AppendGroups, Collecting
  <2>3. found' \in Seq(Resource)
    BY <2>1, <2>2, FoundMembers DEF TypeOK
  <2>4. TypeOK'
    BY <2>2, <2>3 DEF TypeOK, stepVars
  <2>5. FoundWasAskedFor'
    BY <2>1, <2>2, MatchingWasAskedFor DEF Searching
  <2> QED
    BY <2>2, <2>4, <2>5 DEF CurrentInput, Searching, Collecting, stepVars
<1>12. CASE AppendZones
  <2>1. PICK s \in Orders(matched) : found' = found \o s
    BY <1>12 DEF AppendZones
  <2>2. /\ pc = "zoneTags" /\ pc' = "next"
        /\ matched \subseteq {r \in OfKind("HostedZone") : ZoneMatches(r)}
        /\ matched \in SUBSET Resource
        /\ UNCHANGED <<ignoreErrors, types, input, stepVars, faults, read>>
    BY <1>12, MatchingAreResources DEF AppendZones, Collecting
  <2>3. found' \in Seq(Resource)
    BY <2>1, <2>2, FoundMembers DEF TypeOK
  <2>4. TypeOK'
    BY <2>2, <2>3 DEF TypeOK, stepVars
  <2>5. FoundWasAskedFor'
    BY <2>1, <2>2, MatchingWasAskedFor DEF Searching
  <2> QED
    BY <2>2, <2>4, <2>5 DEF CurrentInput, Searching, Collecting, stepVars
<1>13. ASSUME NEW where \in {"rgta", "groups", "describe", "zones", "zoneTags"},
              ListingFails(where)
       PROVE  SearchInv'
  <2>1. /\ Searching /\ pc' \in {"next", "error"}
        /\ UNCHANGED <<ignoreErrors, types, input, stepVars, found, read>>
    BY <1>13 DEF ListingFails, Searching
  <2>2. faults' \in 0..MaxFaults
    BY <1>13, CollectAssumption DEF ListingFails, TypeOK, CollectAssumption
  <2>3. TypeOK'
    BY <2>1, <2>2 DEF TypeOK, stepVars
  <2> QED
    BY <2>1, <2>3 DEF CurrentInput, Searching, Collecting, FoundWasAskedFor, stepVars
<1> QED
  BY <1>1, <1>2, <1>3, <1>4, <1>5, <1>6, <1>7, <1>8, <1>9, <1>10, <1>11, <1>12, <1>13
     DEF Program

(***************************************************************************)
(* The search misses nothing.                                              *)
(***************************************************************************)

\* AWS never answers with an empty page when there is something to list.
NoEmptyPages == ~EmptyPages

\* What an input can find depends on the inputs up to it.
LEMMA CanBeFoundStays ==
  ASSUME TypeOK, types' = types, Len(read') \in Nat,
         \A i \in DOMAIN read : read'[i] = read[i]
  PROVE  \A r \in Resource : \A i \in DOMAIN read : CanBeFound(r, i)' <=> CanBeFound(r, i)
<1> SUFFICES ASSUME NEW r \in Resource, NEW i \in DOMAIN read
             PROVE  CanBeFound(r, i)' <=> CanBeFound(r, i)
  OBVIOUS
<1>1. \A q \in Resource : InScope(q)' <=> InScope(q)
  BY DEF InScope, Services
<1>2. \A j \in 1..i : read'[j] = read[j]
  BY DEF TypeOK
<1>3. SomethingFoundBy(i)' <=> SomethingFoundBy(i)
  BY <1>1, <1>2 DEF SomethingFoundBy, Matches, Listed
<1>4. read'[i] = read[i]
  OBVIOUS
<1> QED
  BY <1>1, <1>3, <1>4 DEF CanBeFound, Matches

\* What has been found stays so.
LEMMA CompleteStays ==
  ASSUME TypeOK, TypeOK', UNCHANGED <<types, ignoreErrors>>,
         \A i \in DOMAIN read : read'[i] = read[i],
         ToSet(found) \subseteq ToSet(found'), faults' # faults => faults' # 0
  PROVE  /\ \A r \in Resource : \A i \in DOMAIN read : Complete(r, i) => Complete(r, i)'
         /\ pc # "error" /\ Counts' => Counts
<1>1. \A r \in Resource : \A i \in DOMAIN read : CanBeFound(r, i)' <=> CanBeFound(r, i)
  BY CanBeFoundStays DEF TypeOK
<1> QED
  BY <1>1 DEF Complete, Counts

\* What the listings match is what can be found.
LEMMA WhatMatches ==
  ASSUME TypeOK, CurrentInput, Searching
  PROVE  /\ Len(read) \in DOMAIN read
         /\ \A r \in Listed : CanBeFound(r, Len(read)) => r \in RgtaMatching
         /\ \A r \in OfKind("AutoScalingGroup") : CanBeFound(r, Len(read)) => r \in GroupsMatching
         /\ \A r \in OfKind("HostedZone") : CanBeFound(r, Len(read)) => ZoneMatches(r)
         /\ \A r \in Resource \ Listed : CanBeFound(r, Len(read)) => filters # {}
<1>1. Len(read) \in DOMAIN read /\ filters = read[Len(read)] /\ filters \subseteq Filter
  BY DEF TypeOK, CurrentInput
<1>2. \A r \in OfKind("AutoScalingGroup") : CanBeFound(r, Len(read)) => r \in GroupsMatching
  <2> SUFFICES ASSUME NEW r \in OfKind("AutoScalingGroup"), CanBeFound(r, Len(read))
               PROVE  r \in GroupsMatching
    OBVIOUS
  <2>1. Cardinality(filters) = 1 /\ filters \subseteq Carries[r]
    BY <1>1 DEF CanBeFound, OfKind, Matches
  <2>2. IsFiniteSet(filters)
    BY <1>1, CollectAssumption, FS_Subset DEF CollectAssumption
  <2>3. PICK f : filters = {f}
    BY <2>1, <2>2, FS_Singleton
  <2> QED
    BY <2>1, <2>3 DEF GroupsMatching
<1>3. \A r \in Resource \ Listed : CanBeFound(r, Len(read)) => filters # {} /\ filters \subseteq Carries[r]
  BY <1>1 DEF CanBeFound, Matches
<1>4. \A r \in Listed : CanBeFound(r, Len(read)) => r \in RgtaMatching
  BY <1>1 DEF CanBeFound, Matches, RgtaMatching
<1>5. OfKind("HostedZone") \subseteq Resource \ Listed
  BY DEF OfKind, Listed, UnsupportedKinds
<1>6. \A r \in OfKind("HostedZone") : CanBeFound(r, Len(read)) => ZoneMatches(r)
  BY <1>3, <1>5 DEF ZoneMatches
<1> QED
  BY <1>1, <1>2, <1>3, <1>4, <1>6

\* If an input up to the current one finds something, something has been found.
LEMMA SomethingFound ==
  ASSUME TypeOK, CurrentInput, Searching, Counts, PastIsComplete,
         RgtaMatching \subseteq ToSet(found), SomethingFoundBy(Len(read))
  PROVE  found # << >>
<1>1. PICK j \in 1..Len(read) : \E r \in Listed : Matches(r, read[j]) /\ InScope(r)
  BY DEF SomethingFoundBy
<1>2. PICK r \in Listed : Matches(r, read[j]) /\ InScope(r)
  BY <1>1
<1>3. CanBeFound(r, j) /\ TypeOf[r] # "AutoScalingGroup" /\ r \in Resource
  BY <1>2 DEF CanBeFound, Listed, UnsupportedKinds
<1>4. r \in ToSet(found)
  <2>1. CASE j < Len(read)
    <3>1. j \in DOMAIN read
      BY <1>1 DEF TypeOK
    <3> QED
      BY <1>3, <2>1, <3>1 DEF PastIsComplete, Complete
  <2>2. CASE j = Len(read)
    BY <1>2, <1>3, <2>2, WhatMatches
  <2> QED
    BY <1>1, <2>1, <2>2 DEF TypeOK
<1> QED
  BY <1>4 DEF ToSet

\* Nothing is missed at first.
LEMMA CompleteInit ==
  ASSUME NEW stream, InitWith(stream)
  PROVE  CompleteInv
BY DEF InitWith, CompleteInv, PastIsComplete, PresentIsComplete, GroupsCollected, Searching

\* No step of the search misses anything.
LEMMA CompleteStep ==
  ASSUME NoEmptyPages, SearchInv, SearchInv', CompleteInv, Program \/ UNCHANGED vars
  PROVE  CompleteInv'
<1> USE DEF SearchInv, CompleteInv
<1>1. CASE UNCHANGED vars
  <2>1. /\ Counts' <=> Counts
        /\ \A r, i : Complete(r, i)' <=> Complete(r, i)
        /\ Searching' <=> Searching /\ \A k : Asking(k)' <=> Asking(k)
        /\ RgtaMatching' = RgtaMatching /\ GroupsMatching' = GroupsMatching
    BY <1>1 DEF vars, stepVars, Counts, Complete, CanBeFound, Matches, SomethingFoundBy,
                InScope, Services, Searching, Asking, RgtaMatching, GroupsMatching
  <2> QED
    BY <1>1, <2>1 DEF vars, stepVars, PastIsComplete, PresentIsComplete, GroupsCollected
<1>2. CASE DecodeFilters
  <2> DEFINE F == Head(input).filters
  <2>1. /\ F \subseteq Filter /\ read' = Append(read, F) /\ pc = "decode"
        /\ pc' = "rgta" /\ unasked' = UnsupportedKinds
        /\ UNCHANGED <<ignoreErrors, types, found, faults>>
    <3>1. input # << >> /\ input \in Seq(Value)
      BY <1>2 DEF DecodeFilters, TypeOK
    <3>2. Head(input) \in Value
      BY <3>1, TailMembers
    <3> QED
      BY <1>2, <3>2 DEF DecodeFilters, Value
  <2> HIDE DEF F
  <2>2. /\ Len(read) \in Nat /\ Len(read') = Len(read) + 1 /\ DOMAIN read = 1..Len(read)
        /\ DOMAIN read' = 1..(Len(read) + 1)
        /\ \A i \in DOMAIN read : read'[i] = read[i]
    BY <2>1, AppendedMembers DEF TypeOK
  <2>3. /\ \A r \in Resource : \A i \in DOMAIN read : Complete(r, i) => Complete(r, i)'
        /\ Counts' => Counts
    BY <2>1, <2>2, CompleteStays
  <2>4. PastIsComplete'
    <3> SUFFICES ASSUME Counts', NEW i \in DOMAIN read', i < Len(read'), NEW r \in Resource
                 PROVE  Complete(r, i)'
      BY <2>1 DEF PastIsComplete
    <3>1. i \in DOMAIN read
      BY <2>2
    <3> QED
      BY <2>1, <2>3, <3>1 DEF PastIsComplete
  <2> QED
    BY <2>1, <2>4 DEF PresentIsComplete, GroupsCollected
<1>3. CASE DecodeFails \/ DecodeEOF
  <2>1. /\ pc = "decode" /\ pc' \in {"decode", "done", "error"}
        /\ UNCHANGED <<ignoreErrors, types, found, faults, read>>
    BY <1>3 DEF DecodeFails, DecodeEOF, stepVars
  <2>2. /\ \A r \in Resource : \A i \in DOMAIN read : Complete(r, i) => Complete(r, i)'
        /\ Counts' => Counts
    BY <2>1, CompleteStays
  <2> QED
    BY <2>1, <2>2 DEF PastIsComplete, PresentIsComplete, GroupsCollected, Searching
<1>4. ASSUME \* within one input
             Searching, Searching', UNCHANGED <<ignoreErrors, types, read, filters>>,
             ToSet(found) \subseteq ToSet(found'), faults' # faults => faults' # 0,
             ASSUME Counts', Counts, pc' # "rgta"
             PROVE  /\ RgtaMatching \subseteq ToSet(found')
                    /\ \A k \in UnsupportedKinds \ unasked' : ~Asking(k)' =>
                         \/ k \in UnsupportedKinds \ unasked /\ ~Asking(k) /\ pc # "rgta"
                         \/ \A r \in OfKind(k) : Complete(r, Len(read))',
             GroupsCollected'
      PROVE  CompleteInv'
  <2>1. /\ \A r \in Resource : \A i \in DOMAIN read : Complete(r, i) => Complete(r, i)'
        /\ Counts' => Counts
    BY <1>4, CompleteStays DEF Searching
  <2>2. RgtaMatching' = RgtaMatching
    BY <1>4 DEF RgtaMatching, InScope, Services
  <2>3. PastIsComplete'
    BY <1>4, <2>1 DEF PastIsComplete, Searching
  <2>4. Len(read) \in DOMAIN read /\ \A k : OfKind(k) \subseteq Resource
    BY <1>4, WhatMatches, MatchingAreResources
  <2>5. PresentIsComplete'
    <3> SUFFICES ASSUME Counts', pc' # "rgta"
                 PROVE  /\ RgtaMatching \subseteq ToSet(found')
                        /\ \A k \in UnsupportedKinds \ unasked' : ~Asking(k)' =>
                             \A r \in OfKind(k) : Complete(r, Len(read))'
      BY <1>4, <2>2 DEF PresentIsComplete
    <3>1. Counts
      BY <2>1
    <3>2. /\ RgtaMatching \subseteq ToSet(found')
          /\ \A k \in UnsupportedKinds \ unasked' : ~Asking(k)' =>
               \/ k \in UnsupportedKinds \ unasked /\ ~Asking(k) /\ pc # "rgta"
               \/ \A r \in OfKind(k) : Complete(r, Len(read))'
      BY <1>4, <3>1
    <3>3. ASSUME NEW k \in UnsupportedKinds \ unasked, ~Asking(k), pc # "rgta", NEW r \in OfKind(k)
          PROVE  Complete(r, Len(read))'
      <4>1. Complete(r, Len(read))
        BY <1>4, <3>1, <3>3 DEF PresentIsComplete
      <4>2. r \in Resource /\ Len(read') = Len(read)
        BY <1>4, <2>4
      <4> QED
        BY <2>1, <2>4, <4>1, <4>2
    <3> QED
      BY <3>2, <3>3
  <2> QED
    BY <1>4, <2>3, <2>5
<1>5. CASE NextInput
  <2>1. /\ pc = "next" /\ pc' = "decode" /\ unasked = {}
        /\ UNCHANGED <<ignoreErrors, types, found, faults, read>>
    BY <1>5 DEF NextInput
  <2>2. /\ \A r \in Resource : \A i \in DOMAIN read : Complete(r, i) => Complete(r, i)'
        /\ Counts' => Counts
    BY <2>1, CompleteStays
  <2>3. Searching /\ \A k : ~Asking(k)
    BY <2>1 DEF Searching, Asking
  <2>4. ASSUME Counts, NEW r \in Resource PROVE Complete(r, Len(read))
    <3>1. CASE r \in Listed
      BY <2>1, <2>3, <2>4, <3>1, WhatMatches DEF PresentIsComplete, Complete
    <3>2. CASE r \notin Listed
      <4>1. TypeOf[r] \in UnsupportedKinds /\ r \in OfKind(TypeOf[r])
        BY <3>2 DEF Listed, OfKind
      <4> QED
        BY <2>1, <2>3, <2>4, <4>1 DEF PresentIsComplete
    <3> QED
      BY <3>1, <3>2
  <2>5. PastIsComplete'
    <3> SUFFICES ASSUME Counts', NEW i \in DOMAIN read, NEW r \in Resource
                 PROVE  Complete(r, i)'
      BY <2>1 DEF PastIsComplete
    <3>1. i < Len(read) \/ i = Len(read)
      BY DEF TypeOK
    <3> QED
      BY <2>2, <2>4, <3>1 DEF PastIsComplete
  <2> QED
    BY <2>1, <2>5 DEF PresentIsComplete, GroupsCollected, Searching
<1>6. CASE RequestResources
  <2>1. PICK page \in SUBSET RgtaMatching, more \in BOOLEAN :
          /\ Page(RgtaMatching, page, more)
          /\ shown' = shown \cup page
          /\ \E s \in Orders(page) : found' = found \o s
          /\ pc' = IF more /\ page # {} THEN "rgta" ELSE "next"
    BY <1>6 DEF RequestResources
  <2>2. PICK s \in Orders(page) : found' = found \o s
    BY <2>1
  <2>3. /\ pc = "rgta" /\ page \in SUBSET Resource /\ unasked = UnsupportedKinds
        /\ UNCHANGED <<ignoreErrors, types, filters, unasked, faults, read>>
    BY <1>6, MatchingAreResources DEF RequestResources, GroupsCollected
  <2>4. ToSet(found') = ToSet(found) \cup page
    BY <2>2, <2>3, FoundMembers DEF TypeOK
  <2>5. more => page # {}
    BY <2>1 DEF Page, NoEmptyPages
  <2>6. pc' # "rgta" => RgtaMatching \subseteq ToSet(found')
    BY <2>1, <2>3, <2>4, <2>5 DEF Page, Collecting
  <2>7. GroupsCollected'
    BY <2>1, <2>3 DEF GroupsCollected
  <2> QED
    BY <1>4, <2>1, <2>3, <2>4, <2>6, <2>7 DEF Searching
<1>7. ASSUME NEW k \in unasked, Request(k) PROVE CompleteInv'
  <2>1. /\ pc = "next" /\ unasked' = unasked \ {k} /\ shown' = {}
        /\ pc' = IF filters = {} \/ found = << >> THEN "next"
                 ELSE IF k = "AutoScalingGroup" THEN "groups" ELSE "zones"
        /\ UNCHANGED <<ignoreErrors, types, filters, found, faults, read>>
        /\ k \in {"AutoScalingGroup", "HostedZone"}
    BY <1>7 DEF Request, TypeOK, UnsupportedKinds
  <2>2. Searching /\ Searching' /\ GroupsCollected' /\ \A j : ~Asking(j)
    BY <2>1 DEF Searching, GroupsCollected, Asking
  <2>3. pc' # "next" => Asking(k)'
    BY <2>1 DEF Asking
  <2>4. ASSUME Counts, pc' = "next", NEW r \in OfKind(k) PROVE ~CanBeFound(r, Len(read))
    <3>1. r \in Resource \ Listed
      BY <2>1 DEF OfKind, Listed, UnsupportedKinds
    <3>2. CanBeFound(r, Len(read)) => filters # {} /\ SomethingFoundBy(Len(read))
      BY <2>2, <3>1, WhatMatches DEF CanBeFound
    <3>3. RgtaMatching \subseteq ToSet(found)
      BY <2>1, <2>2, <2>4 DEF PresentIsComplete
    <3>4. SomethingFoundBy(Len(read)) => found # << >>
      BY <2>2, <2>4, <3>3, SomethingFound
    <3> QED
      BY <2>1, <2>4, <3>2, <3>4
  <2>5. ASSUME Counts, pc' = "next", NEW r \in OfKind(k) PROVE Complete(r, Len(read))'
    <3>1. r \in Resource /\ Len(read) \in DOMAIN read
      BY <2>2, WhatMatches, MatchingAreResources
    <3>2. Complete(r, Len(read))
      BY <2>4, <2>5 DEF Complete
    <3> QED
      BY <2>1, <3>1, <3>2, CompleteStays
  <2>6. ASSUME Counts
        PROVE  /\ RgtaMatching \subseteq ToSet(found')
               /\ \A j \in UnsupportedKinds \ unasked' : ~Asking(j)' =>
                    \/ j \in UnsupportedKinds \ unasked /\ ~Asking(j) /\ pc # "rgta"
                    \/ \A r \in OfKind(j) : Complete(r, Len(read))'
    <3>1. RgtaMatching \subseteq ToSet(found')
      BY <2>1, <2>2, <2>6 DEF PresentIsComplete
    <3>2. ASSUME NEW j \in UnsupportedKinds \ unasked', ~Asking(j)', j = k
          PROVE  \A r \in OfKind(j) : Complete(r, Len(read))'
      BY <2>3, <2>5, <2>6, <3>2
    <3> QED
      BY <2>1, <2>2, <3>1, <3>2
  <2> QED
    BY <1>4, <2>1, <2>2, <2>6
<1>8. CASE RequestGroupTags
  <2>1. PICK page \in SUBSET GroupsMatching, more \in BOOLEAN :
          /\ Page(GroupsMatching, page, more)
          /\ shown' = shown \cup page
          /\ matched' = matched \cup page
          /\ pc' = IF page = {} THEN "next" ELSE IF more THEN "groups" ELSE "describe"
    BY <1>8 DEF RequestGroupTags
  <2>2. /\ pc = "groups"
        /\ UNCHANGED <<ignoreErrors, types, filters, unasked, described, found, faults, read>>
        /\ shown = matched /\ described = {} /\ shown \subseteq GroupsMatching
        /\ shown = {} \/ shown # GroupsMatching
    BY <1>8 DEF RequestGroupTags, Collecting, GroupsCollected
  <2>3. GroupsMatching' = GroupsMatching
    BY <2>2 DEF GroupsMatching
  <2>4. /\ more => page # {} /\ page # GroupsMatching \ shown
        /\ ~more => page = GroupsMatching \ shown
    <3>1. CASE more
      BY <2>1, <3>1 DEF Page, NoEmptyPages
    <3>2. CASE ~more
      BY <2>1, <3>2 DEF Page
    <3> QED
      BY <3>1, <3>2
  <2>5. GroupsCollected'
    <3>1. CASE page = {}
      BY <2>1, <3>1 DEF GroupsCollected
    <3>2. CASE page # {} /\ more
      <4>1. PICK r \in GroupsMatching \ shown : r \notin page
        BY <2>1, <2>4, <3>2 DEF Page
      <4>2. pc' = "groups" /\ r \notin shown'
        BY <2>1, <3>2, <4>1
      <4>3. pc' = "groups" /\ shown' # GroupsMatching
        BY <4>1, <4>2
      <4> QED
        BY <2>3, <4>3 DEF GroupsCollected
    <3>3. CASE page # {} /\ ~more
      <4>1. pc' = "describe" /\ matched' \cup described' = GroupsMatching
        BY <2>1, <2>2, <2>4, <3>3
      <4> QED
        BY <2>3, <4>1 DEF GroupsCollected
    <3> QED
      BY <3>1, <3>2, <3>3
  <2>6. pc' = "next" => GroupsMatching = {}
    BY <2>1, <2>2, <2>4
  <2>7. Searching /\ Searching' /\ pc' # "rgta"
    BY <2>1, <2>2 DEF Searching
  <2>8. ASSUME NEW r \in OfKind("AutoScalingGroup"), pc' = "next" PROVE Complete(r, Len(read))'
    <3>1. r \in Resource /\ Len(read) \in DOMAIN read /\ ~CanBeFound(r, Len(read))
      BY <2>6, <2>7, <2>8, WhatMatches, MatchingAreResources
    <3> QED
      BY <2>2, <3>1, CompleteStays DEF Complete
  <2>9. ASSUME Counts
        PROVE  /\ RgtaMatching \subseteq ToSet(found')
               /\ \A k \in UnsupportedKinds \ unasked' : ~Asking(k)' =>
                    \/ k \in UnsupportedKinds \ unasked /\ ~Asking(k) /\ pc # "rgta"
                    \/ \A r \in OfKind(k) : Complete(r, Len(read))'
    <3>1. RgtaMatching \subseteq ToSet(found')
      BY <2>2, <2>7, <2>9 DEF PresentIsComplete
    <3>2. pc' # "next" => Asking("AutoScalingGroup")'
      BY <2>1 DEF Asking
    <3>3. \A k : k # "AutoScalingGroup" => ~Asking(k)
      BY <2>2 DEF Asking
    <3> QED
      BY <2>2, <2>8, <3>1, <3>2, <3>3
  <2> QED
    BY <1>4, <2>2, <2>5, <2>7, <2>9
<1>9. CASE RequestZones
  <2>1. /\ pc = "zones" /\ pc' \in {"zoneTags", "next", "error"}
        /\ pc' = "next" => OfKind("HostedZone") = {}
        /\ UNCHANGED <<ignoreErrors, types, stepVars, found, faults, read>>
    BY <1>9 DEF RequestZones
  <2>2. CASE pc' = "error"
    BY <2>2 DEF PastIsComplete, PresentIsComplete, GroupsCollected, Counts
  <2>3. CASE pc' # "error"
    <3>1. Searching /\ Searching' /\ pc' # "rgta" /\ GroupsCollected' /\ pc # "rgta"
      BY <2>1, <2>3 DEF Searching, GroupsCollected
    <3>2. ASSUME Counts
          PROVE  /\ RgtaMatching \subseteq ToSet(found')
                 /\ \A k \in UnsupportedKinds \ unasked' : ~Asking(k)' =>
                      \/ k \in UnsupportedKinds \ unasked /\ ~Asking(k) /\ pc # "rgta"
                      \/ \A r \in OfKind(k) : Complete(r, Len(read))'
      <4>1. RgtaMatching \subseteq ToSet(found')
        BY <2>1, <3>1, <3>2 DEF PresentIsComplete
      <4>2. pc' # "next" => Asking("HostedZone")'
        BY <2>1, <2>3 DEF Asking
      <4>3. \A k : k # "HostedZone" => ~Asking(k)
        BY <2>1 DEF Asking
      <4> QED
        BY <2>1, <3>1, <4>1, <4>2, <4>3 DEF stepVars
    <3> QED
      BY <1>4, <2>1, <3>1, <3>2 DEF stepVars
  <2> QED
    BY <2>2, <2>3
<1>10. CASE RequestZoneTags \/ (\E r \in matched : RequestGroup(r) \/ RequestGoneGroup(r))
  <2>1. /\ pc \in {"zoneTags", "describe"} /\ pc' = pc
        /\ UNCHANGED <<ignoreErrors, types, filters, unasked, found, read>>
    BY <1>10 DEF RequestZoneTags, RequestGroup, RequestGoneGroup
  <2>2. faults' # faults => faults' # 0
    BY <1>10 DEF RequestZoneTags, RequestGroup, RequestGoneGroup, TypeOK
  <2>3. Searching /\ Searching' /\ pc # "rgta" /\ \A k : Asking(k)' <=> Asking(k)
    BY <2>1 DEF Searching, Asking
  <2>4. GroupsCollected'
    <3>1. GroupsMatching' = GroupsMatching
      BY <2>1 DEF GroupsMatching
    <3>2. CASE RequestZoneTags
      BY <2>1, <3>2 DEF RequestZoneTags, GroupsCollected
    <3>3. ASSUME NEW r \in matched, RequestGroup(r) PROVE GroupsCollected'
      BY <2>1, <3>1, <3>3 DEF RequestGroup, GroupsCollected
    <3>4. ASSUME NEW r \in matched, RequestGoneGroup(r) PROVE GroupsCollected'
      <4>1. faults' # 0 /\ pc = "describe"
        BY <3>4 DEF RequestGoneGroup, TypeOK
      <4> QED
        BY <2>1, <4>1 DEF GroupsCollected
    <3> QED
      BY <1>10, <3>2, <3>3, <3>4
  <2>5. ASSUME Counts PROVE RgtaMatching \subseteq ToSet(found')
    BY <2>1, <2>3, <2>5 DEF PresentIsComplete
  <2> QED
    BY <1>4, <2>1, <2>2, <2>3, <2>4, <2>5
<1>11. ASSUME \* a listing of kind k has been appended
              NEW k \in UnsupportedKinds, Asking(k), pc' = "next",
              NEW S \in SUBSET Resource, NEW t \in Orders(S), found' = found \o t,
              UNCHANGED <<ignoreErrors, types, stepVars, faults, read>>,
              \A r \in OfKind(k) : /\ CanBeFound(r, Len(read))
                                   /\ faults = 0 \/ TypeOf[r] # "AutoScalingGroup"
                                   => r \in S
       PROVE  CompleteInv'
  <2>1. Searching /\ Searching' /\ pc' # "rgta" /\ pc # "rgta" /\ GroupsCollected'
        /\ \A j : j # k => ~Asking(j)
    BY <1>11 DEF Searching, GroupsCollected, Asking
  <2>2. ToSet(found') = ToSet(found) \cup S
    BY <1>11, FoundMembers DEF TypeOK
  <2>3. ASSUME NEW r \in OfKind(k) PROVE Complete(r, Len(read))'
    <3>1. r \in Resource /\ Len(read) \in DOMAIN read
      BY <2>1, WhatMatches, MatchingAreResources
    <3>2. CanBeFound(r, Len(read))' <=> CanBeFound(r, Len(read))
      BY <1>11, <3>1, CanBeFoundStays DEF TypeOK
    <3> QED
      BY <1>11, <2>2, <3>2 DEF Complete
  <2>4. ASSUME Counts
        PROVE  /\ RgtaMatching \subseteq ToSet(found')
               /\ \A j \in UnsupportedKinds \ unasked' : ~Asking(j)' =>
                    \/ j \in UnsupportedKinds \ unasked /\ ~Asking(j) /\ pc # "rgta"
                    \/ \A r \in OfKind(j) : Complete(r, Len(read))'
    <3>1. RgtaMatching \subseteq ToSet(found')
      BY <2>1, <2>2, <2>4 DEF PresentIsComplete
    <3> QED
      BY <1>11, <2>1, <2>3, <3>1 DEF stepVars
  <2> QED
    BY <1>4, <1>11, <2>1, <2>2, <2>4 DEF stepVars
<1>12. CASE AppendGroups
  <2>1. PICK s \in Orders(described) : found' = found \o s
    BY <1>12 DEF AppendGroups
  <2>2. /\ pc = "describe" /\ pc' = "next" /\ described \in SUBSET Resource /\ matched = {}
        /\ UNCHANGED <<ignoreErrors, types, stepVars, faults, read>>
    BY <1>12, MatchingAreResources DEF AppendGroups, Collecting
  <2>3. Asking("AutoScalingGroup") /\ "AutoScalingGroup" \in UnsupportedKinds /\ Searching
    BY <2>2 DEF Asking, UnsupportedKinds, Searching
  <2>4. faults = 0 => described = GroupsMatching
    BY <2>2 DEF GroupsCollected
  <2>5. \A r \in OfKind("AutoScalingGroup") :
          /\ CanBeFound(r, Len(read))
          /\ faults = 0 \/ TypeOf[r] # "AutoScalingGroup"
          => r \in described
    BY <2>3, <2>4, WhatMatches DEF OfKind
  <2> QED
    BY <1>11, <2>1, <2>2, <2>3, <2>5
<1>13. CASE AppendZones
  <2>1. PICK s \in Orders(matched) : found' = found \o s
    BY <1>13 DEF AppendZones
  <2>2. /\ pc = "zoneTags" /\ pc' = "next" /\ matched \in SUBSET Resource
        /\ matched = {r \in OfKind("HostedZone") : ZoneMatches(r)}
        /\ UNCHANGED <<ignoreErrors, types, stepVars, faults, read>>
    BY <1>13, MatchingAreResources DEF AppendZones, Collecting
  <2>3. Asking("HostedZone") /\ "HostedZone" \in UnsupportedKinds /\ Searching
    BY <2>2 DEF Asking, UnsupportedKinds, Searching
  <2>4. \A r \in OfKind("HostedZone") :
          /\ CanBeFound(r, Len(read))
          /\ faults = 0 \/ TypeOf[r] # "AutoScalingGroup"
          => r \in matched
    BY <2>2, <2>3, WhatMatches
  <2> QED
    BY <1>11, <2>1, <2>2, <2>3, <2>4
<1>14. ASSUME NEW where \in {"rgta", "groups", "describe", "zones", "zoneTags"},
              ListingFails(where)
       PROVE  CompleteInv'
  <2>1. ~Counts' /\ pc' \in {"next", "error"}
    BY <1>14 DEF ListingFails, Counts, TypeOK
  <2> QED
    BY <2>1 DEF PastIsComplete, PresentIsComplete, GroupsCollected
<1> QED
  BY <1>1, <1>2, <1>3, <1>5, <1>6, <1>7, <1>8, <1>9, <1>10, <1>12, <1>13, <1>14
     DEF Program

(***************************************************************************)
(* Filter.                                                                 *)
(***************************************************************************)

\* The parse output is read from standard input.
FromStdIn == FilterFiles = {FALSE}

\* Values of one kind of input, decoded as the other.
LEMMA DecodedAsTheOther ==
  /\ \A s \in Seq(Entry) : Each(s, AsTagFile) \in Seq(Value)
  /\ \A s \in Seq(Value) : Each(s, AsOutput) \in Seq(Entry)
<1>1. \A e \in Entry : AsTagFile(e) \in Value
  <2> SUFFICES ASSUME NEW e \in Entry PROVE AsTagFile(e) \in Value
    OBVIOUS
  <2>1. e.kind \in {"tagged", "untagged", "mistyped", "broken"}
    BY DEF Entry
  <2> QED
    BY <2>1 DEF AsTagFile, Value
<1>2. \A v \in Value : AsOutput(v) \in Entry
  <2> SUFFICES ASSUME NEW v \in Value PROVE AsOutput(v) \in Entry
    OBVIOUS
  <2>1. v.kind \in {"filters", "mistyped", "broken"}
    BY DEF Value
  <2> QED
    BY <2>1 DEF AsOutput, Entry
<1>3. ASSUME NEW s \in Seq(Entry) PROVE Each(s, AsTagFile) \in Seq(Value)
  <2>1. Len(s) \in Nat /\ DOMAIN s = 1..Len(s) /\ \A i \in 1..Len(s) : s[i] \in Entry
    OBVIOUS
  <2>2. [i \in 1..Len(s) |-> AsTagFile(s[i])] \in Seq(Value)
    BY <1>1, <2>1
  <2> QED
    BY <2>1, <2>2 DEF Each
<1>4. ASSUME NEW s \in Seq(Value) PROVE Each(s, AsOutput) \in Seq(Entry)
  <2>1. Len(s) \in Nat /\ DOMAIN s = 1..Len(s) /\ \A i \in 1..Len(s) : s[i] \in Value
    OBVIOUS
  <2>2. [i \in 1..Len(s) |-> AsOutput(s[i])] \in Seq(Entry)
    BY <1>2, <2>1
  <2> QED
    BY <2>1, <2>2 DEF Each
<1> QED
  BY <1>3, <1>4

\* How filter begins.
LEMMA FilterInitCases ==
  ASSUME FilterInit
  PROVE  /\ \E stream \in Seq(Value) : InitWith(stream)
         /\ parsed \in Seq(Entry) /\ tags \in Seq(Value) /\ rest \in Seq(Entry)
         /\ FromStdIn => InitWith(tags) /\ rest = parsed
         /\ fStep = "search" /\ output = << >>
<1>1. parsed \in Seq(Entry) /\ tags \in Seq(Value) /\ FilterFiles \subseteq BOOLEAN
  BY CollectAssumption, FilterAssumption DEF FilterInit, CollectAssumption, FilterAssumption
<1>2. PICK fromFile \in FilterFiles :
        IF fromFile
        THEN InitWith(Each(parsed, AsTagFile)) /\ rest = Each(tags, AsOutput)
        ELSE InitWith(tags) /\ rest = parsed
  BY DEF FilterInit
<1>3. fStep = "search" /\ output = << >>
  BY DEF FilterInit
<1>4. CASE fromFile
  <2>1. ~FromStdIn
    BY <1>4 DEF FromStdIn
  <2>2. Each(parsed, AsTagFile) \in Seq(Value) /\ Each(tags, AsOutput) \in Seq(Entry)
    BY <1>1, DecodedAsTheOther
  <2>3. InitWith(Each(parsed, AsTagFile)) /\ rest = Each(tags, AsOutput)
    BY <1>2, <1>4
  <2> QED
    BY <1>1, <1>3, <2>1, <2>2, <2>3
<1>5. CASE ~fromFile
  BY <1>1, <1>2, <1>3, <1>5
<1> QED
  BY <1>4, <1>5

\* A step of filter is one of the search or leaves it alone.
LEMMA FilterSteps ==
  ASSUME [FilterNext]_<<vars, filterVars>>
  PROVE  /\ Program \/ UNCHANGED vars
         /\ UNCHANGED givenVars
         /\ \/ fStep = "search" /\ UNCHANGED filterVars
            \/ UNCHANGED vars /\ EndSearch
            \/ UNCHANGED vars /\ (ReadOutput \/ ReadUntagged \/ ReadFails \/ ReadEOF)
            \/ UNCHANGED <<vars, filterVars>>
BY DEF FilterNext, FilterProgram, Search, EndSearch, ReadOutput, ReadUntagged, ReadFails,
       ReadEOF, FilterTerminated, filterVars

\* Reading advances in the parse output.
LEMMA ReadingAdvances ==
  ASSUME FilterTypeOK, ReadOutput \/ ReadUntagged \/ ReadFails \/ ReadEOF
  PROVE  /\ fStep = "read" /\ fStep' \in {"read", "done", "error"}
         /\ rest' = rest \/ (rest # << >> /\ rest' = Tail(rest))
         /\ rest' \in Seq(Entry)
<1>1. rest # << >> => Tail(rest) \in Seq(Entry)
  BY TailMembers DEF FilterTypeOK
<1>2. fStep = "read" /\ fStep' \in {"read", "done", "error"}
  BY DEF ReadOutput, ReadUntagged, ReadFails, ReadEOF, Reads, Advance
<1>3. rest' = rest \/ (rest # << >> /\ rest' = Tail(rest))
  BY DEF ReadOutput, ReadUntagged, ReadFails, ReadEOF, Reads, Advance
<1> QED
  BY <1>1, <1>2, <1>3 DEF FilterTypeOK

\* Filter forwards nothing at first.
LEMMA FilterInvInit == FilterInit => FilterInv
<1> SUFFICES ASSUME FilterInit PROVE FilterInv
  OBVIOUS
<1>1. PICK stream \in Seq(Value) : InitWith(stream)
  BY FilterInitCases
<1>2. SearchInv
  BY <1>1, SearchInit
<1>3. FilterTypeOK
  BY <1>2, FilterInitCases DEF SearchInv, FilterTypeOK
<1>4. Forwarded
  BY FilterInitCases DEF Forwarded, ToSet
<1> QED
  BY <1>2, <1>3, <1>4 DEF FilterInv

\* What filter forwards has not been found.
LEMMA FilterStep ==
  ASSUME FilterInv, [FilterNext]_<<vars, filterVars>>
  PROVE  FilterInv'
<1> USE DEF FilterInv
<1>1. SearchInv'
  BY FilterSteps, SearchStep
<1>2. parsed' \in Seq(Entry) /\ tags' \in Seq(Value)
  BY FilterSteps DEF FilterTypeOK, givenVars
<1>3. CASE fStep = "search" /\ UNCHANGED filterVars
  BY <1>1, <1>3 DEF SearchInv, FilterTypeOK, Forwarded, filterVars, givenVars, ToSet
<1>4. CASE UNCHANGED vars /\ EndSearch
  BY <1>1, <1>2, <1>4
     DEF EndSearch, SearchInv, FilterTypeOK, Forwarded, givenVars, vars, ToSet
<1>5. CASE UNCHANGED vars /\ (ReadOutput \/ ReadUntagged \/ ReadFails \/ ReadEOF)
  <2>1. /\ fStep = "read" /\ fStep' \in {"read", "done", "error"} /\ rest' \in Seq(Entry)
        /\ pc' = "done" /\ pc = "done" /\ found' = found
    BY <1>5, ReadingAdvances DEF Forwarded, vars
  <2>2. CASE UNCHANGED output
    BY <1>1, <1>2, <2>1, <2>2 DEF SearchInv, FilterTypeOK, Forwarded
  <2>3. CASE ReadOutput /\ ~UNCHANGED output
    <3> DEFINE r == Head(rest).resource
    <3>1. rest # << >> /\ Head(rest).kind = "tagged" /\ r \notin ToSet(found)
          /\ output' = Append(output, r)
      BY <2>3 DEF ReadOutput, Reads, IsIgnored
    <3>2. Head(rest) \in Entry
      BY <3>1, TailMembers DEF FilterTypeOK
    <3>3. r \in Resource
      BY <3>1, <3>2 DEF Entry
    <3> HIDE DEF r
    <3>4. output' \in Seq(Resource) /\ ToSet(output') = ToSet(output) \cup {r}
      BY <3>1, <3>3, AppendedMembers DEF FilterTypeOK
    <3> QED
      BY <1>1, <1>2, <2>1, <3>1, <3>4 DEF SearchInv, FilterTypeOK, Forwarded
  <2> QED
    BY <1>5, <2>2, <2>3 DEF ReadUntagged, ReadFails, ReadEOF
<1>6. CASE UNCHANGED <<vars, filterVars>>
  BY <1>1, <1>6 DEF SearchInv, FilterTypeOK, Forwarded, vars, filterVars, givenVars
<1> QED
  BY <1>3, <1>4, <1>5, <1>6, FilterSteps

(***************************************************************************)
(* Everything else is forwarded.                                           *)
(***************************************************************************)

\* The inputs read are the filters of the stream.
LEMMA ReadFromStep ==
  ASSUME NEW stream, TypeOK, ReadFrom(stream), Program \/ UNCHANGED vars
  PROVE  /\ \A i \in DOMAIN input' : input'[i] \in ToSet(stream)
         /\ \A i \in DOMAIN read' : \E v \in ToSet(stream) : v.kind = "filters" /\ read'[i] = v.filters
<1>1. CASE UNCHANGED <<input, read>>
  BY <1>1 DEF ReadFrom
<1>2. ASSUME input # << >>, input' = Tail(input)
      PROVE  \A i \in DOMAIN input' : input'[i] \in ToSet(stream)
  <2>1. \A i \in DOMAIN Tail(input) : i + 1 \in DOMAIN input /\ Tail(input)[i] = input[i + 1]
    BY <1>2, TailMembers DEF TypeOK
  <2> QED
    BY <1>2, <2>1 DEF ReadFrom
<1>3. CASE DecodeFilters
  <2> DEFINE v == Head(input)
  <2>1. /\ input # << >> /\ input' = Tail(input) /\ v.kind = "filters"
        /\ read' = Append(read, v.filters)
    BY <1>3 DEF DecodeFilters
  <2>2. v = input[1] /\ 1 \in DOMAIN input /\ v \in Value
    BY <2>1, TailMembers DEF TypeOK
  <2>3. v \in ToSet(stream) /\ v.filters \in SUBSET Filter
    BY <2>2 DEF ReadFrom, Value
  <2> HIDE DEF v
  <2>4. /\ DOMAIN read' = 1..(Len(read) + 1) /\ Len(read) \in Nat /\ DOMAIN read = 1..Len(read)
        /\ read'[Len(read) + 1] = v.filters /\ \A i \in 1..Len(read) : read'[i] = read[i]
    BY <2>1, <2>3, AppendedMembers DEF TypeOK
  <2>5. ASSUME NEW i \in DOMAIN read'
        PROVE  \E w \in ToSet(stream) : w.kind = "filters" /\ read'[i] = w.filters
    <3>1. CASE i \in DOMAIN read
      BY <2>4, <3>1 DEF ReadFrom
    <3>2. CASE i = Len(read) + 1
      BY <2>1, <2>3, <2>4, <3>2
    <3> QED
      BY <2>4, <3>1, <3>2
  <2> QED
    BY <1>2, <2>1, <2>5
<1>4. CASE DecodeFails
  <2>1. input # << >> /\ UNCHANGED read /\ (input' = input \/ input' = Tail(input))
    BY <1>4 DEF DecodeFails
  <2>2. input' = Tail(input) => \A i \in DOMAIN input' : input'[i] \in ToSet(stream)
    BY <1>2, <2>1
  <2> QED
    BY <2>1, <2>2 DEF ReadFrom
<1>5. \/ DecodeFilters \/ DecodeFails \/ UNCHANGED <<input, read>>
  BY DEF Program, vars, DecodeEOF, NextInput, RequestResources, RequestGroupTags, RequestZones,
         RequestZoneTags, Request, RequestGroup, RequestGoneGroup, AppendGroups, AppendZones,
         ListingFails
<1> QED
  BY <1>1, <1>3, <1>4, <1>5

\* From standard input, the tags are what the search reads.
LEMMA StdInInit == FromStdIn /\ FilterInit => StdInInv
<1> SUFFICES ASSUME FromStdIn, FilterInit PROVE StdInInv
  OBVIOUS
<1>1. InitWith(tags) /\ rest = parsed /\ fStep = "search" /\ parsed \in Seq(Entry)
  BY FilterInitCases
<1>2. FilterInv
  BY FilterInvInit
<1>3. ReadFrom(tags)
  BY <1>1 DEF InitWith, ReadFrom, ToSet
<1>4. \A r \in Parsed : \E i \in DOMAIN rest : rest[i].resource = r
  BY <1>1 DEF Parsed, ToSet
<1>5. Kept
  BY <1>1, <1>4 DEF Kept, ToSet
<1> QED
  BY <1>2, <1>3, <1>5 DEF StdInInv

\* Filter drops nothing but what was found.
LEMMA StdInStep ==
  ASSUME StdInInv, [FilterNext]_<<vars, filterVars>>
  PROVE  StdInInv'
<1> USE DEF StdInInv
<1>1. FilterInv'
  BY FilterStep
<1>2. ReadFrom(tags)'
  <2>1. tags' = tags /\ TypeOK
    BY FilterSteps DEF givenVars, FilterInv, SearchInv
  <2> QED
    BY <2>1, FilterSteps, ReadFromStep DEF ReadFrom
<1>3. Parsed' = Parsed /\ parsed' = parsed
  BY FilterSteps DEF Parsed, givenVars
<1>4. CASE UNCHANGED filterVars /\ (UNCHANGED vars \/ fStep = "search")
  <2>1. rest' = rest /\ fStep' = fStep /\ output' = output
    BY <1>4 DEF filterVars
  <2>2. fStep # "search" => found' = found
    BY <1>4 DEF vars
  <2>3. \A i \in DOMAIN rest' : rest'[i] \in ToSet(parsed)
    BY <2>1 DEF Kept
  <2>4. \A r \in Parsed : \/ \E i \in DOMAIN rest' : rest'[i].resource = r
                          \/ fStep' # "search" /\ r \in ToSet(output') \cup ToSet(found')
    BY <2>1, <2>2 DEF Kept
  <2>5. fStep' = "done" => rest' = << >>
    BY <2>1 DEF Kept
  <2>6. Kept'
    BY <1>3, <2>3, <2>4, <2>5 DEF Kept
  <2> QED
    BY <1>1, <1>2, <2>6
<1>5. CASE UNCHANGED vars /\ EndSearch
  <2>1. rest' = rest /\ fStep = "search" /\ fStep' \in {"read", "error"}
    BY <1>5 DEF EndSearch
  <2>2. \A i \in DOMAIN rest' : rest'[i] \in ToSet(parsed)
    BY <2>1 DEF Kept
  <2>3. \A r \in Parsed : \E i \in DOMAIN rest' : rest'[i].resource = r
    BY <2>1 DEF Kept
  <2>4. Kept'
    BY <1>3, <2>1, <2>2, <2>3 DEF Kept
  <2> QED
    BY <1>1, <1>2, <2>4
<1>6. CASE UNCHANGED vars /\ (ReadOutput \/ ReadUntagged \/ ReadFails \/ ReadEOF)
  <2>1. /\ fStep = "read" /\ fStep' \in {"read", "done", "error"} /\ found' = found
        /\ rest' = rest \/ (rest # << >> /\ rest' = Tail(rest))
        /\ rest \in Seq(Entry)
    BY <1>6, ReadingAdvances DEF FilterInv, FilterTypeOK, vars
  <2>2. /\ UNCHANGED output \/ \E r : output' = Append(output, r) /\ r \in Resource
        /\ output \in Seq(Resource)
    <3>1. ASSUME ReadOutput PROVE UNCHANGED output \/ \E r : output' = Append(output, r) /\ r \in Resource
      <4>1. rest # << >> /\ Head(rest).kind = "tagged"
        BY <3>1 DEF ReadOutput, Reads
      <4>2. Head(rest) \in Entry
        BY <2>1, <4>1, TailMembers
      <4>3. Head(rest).resource \in Resource
        BY <4>1, <4>2 DEF Entry
      <4> QED
        BY <3>1, <4>3 DEF ReadOutput
    <3> QED
      BY <1>6, <3>1 DEF ReadUntagged, ReadFails, ReadEOF, FilterInv, FilterTypeOK
  <2>3. ToSet(output) \subseteq ToSet(output')
    <3>1. ASSUME NEW r \in Resource, output' = Append(output, r)
          PROVE  ToSet(output) \subseteq ToSet(output')
      <4>1. ToSet(Append(output, r)) = ToSet(output) \cup {r}
        BY <2>2, AppendedMembers
      <4> QED
        BY <3>1, <4>1
    <3> QED
      BY <2>2, <3>1
  <2>4. CASE rest' = rest
    <3>1. fStep' = "done" => rest = << >>
      BY <1>6, <2>1 DEF ReadOutput, ReadUntagged, ReadFails, ReadEOF, Reads, Advance
    <3>2. \A i \in DOMAIN rest' : rest'[i] \in ToSet(parsed)
      BY <2>4 DEF Kept
    <3>3. \A r \in Parsed : \/ \E i \in DOMAIN rest' : rest'[i].resource = r
                            \/ r \in ToSet(output') \cup ToSet(found')
      BY <2>1, <2>3, <2>4 DEF Kept
    <3>4. Kept'
      BY <1>3, <2>1, <2>4, <3>1, <3>2, <3>3 DEF Kept
    <3> QED
      BY <1>1, <1>2, <3>4
  <2>5. CASE rest # << >> /\ rest' = Tail(rest) /\ rest' # rest
    <3>1. /\ Head(rest) \in Entry /\ Head(rest) = rest[1]
          /\ \A i \in DOMAIN rest' : i + 1 \in DOMAIN rest /\ rest'[i] = rest[i + 1]
          /\ \A i \in DOMAIN rest : i = 1 \/ (i - 1 \in DOMAIN rest' /\ rest'[i - 1] = rest[i])
      BY <2>1, <2>5, TailMembers
    <3>2. fStep' = "read"
      BY <1>6, <2>1, <2>5 DEF ReadOutput, ReadUntagged, ReadFails, ReadEOF, Advance
    <3>3. \A i \in DOMAIN rest' : rest'[i] \in ToSet(parsed)
      BY <3>1 DEF Kept
    <3>4. ASSUME Head(rest).resource \in Resource
          PROVE  Head(rest).resource \in ToSet(output') \cup ToSet(found)
      <4>1. Head(rest).kind = "tagged"
        BY <3>1, <3>4, FilterAssumption DEF Entry, FilterAssumption
      <4>2. ReadOutput
        BY <1>6, <2>5, <4>1 DEF ReadUntagged, ReadFails, ReadEOF, Reads
      <4>3. CASE IsIgnored(Head(rest).resource)
        BY <4>3 DEF IsIgnored
      <4>4. CASE ~IsIgnored(Head(rest).resource)
        <5>1. output' = Append(output, Head(rest).resource)
          BY <4>2, <4>4 DEF ReadOutput
        <5> QED
          BY <2>2, <3>4, <5>1, AppendedMembers
      <4> QED
        BY <4>3, <4>4
    <3>5. \A r \in Parsed : r \in Resource
      BY FilterAssumption DEF Parsed, FilterInv, FilterTypeOK, Entry, ToSet
    <3>6. ASSUME NEW r \in Parsed
          PROVE  \/ \E i \in DOMAIN rest' : rest'[i].resource = r
                 \/ r \in ToSet(output') \cup ToSet(found)
      <4>1. CASE r \in ToSet(output) \cup ToSet(found)
        BY <2>3, <4>1
      <4>2. ASSUME NEW i \in DOMAIN rest, rest[i].resource = r
            PROVE  \/ \E j \in DOMAIN rest' : rest'[j].resource = r
                   \/ r \in ToSet(output') \cup ToSet(found)
        <5>1. CASE i = 1
          BY <3>1, <3>4, <3>5, <4>2, <5>1
        <5>2. CASE i # 1
          BY <3>1, <4>2, <5>2
        <5> QED
          BY <5>1, <5>2
      <4> QED
        BY <4>1, <4>2 DEF Kept
    <3>7. \A r \in Parsed : \/ \E i \in DOMAIN rest' : rest'[i].resource = r
                            \/ r \in ToSet(output') \cup ToSet(found')
      BY <2>1, <3>6
    <3>8. Kept'
      BY <1>3, <3>2, <3>3, <3>7 DEF Kept
    <3> QED
      BY <1>1, <1>2, <3>8
  <2> QED
    BY <2>1, <2>4, <2>5
<1> QED
  BY <1>1, <1>2, <1>4, <1>5, <1>6, FilterSteps

(***************************************************************************)
(* The theorems.                                                           *)
(***************************************************************************)

\* The search and the loop of filter keep their types.
THEOREM FilterTypes == FilterSpec => []FilterTypeOK
<1>1. FilterInv => FilterTypeOK
  BY DEF FilterInv
<1> QED
  BY FilterInvInit, FilterStep, <1>1, PTL DEF FilterSpec

\* deleteFromTags finds, and then deletes, nothing it was not asked for.
THEOREM SearchFindsWhatWasAskedFor == Spec => []FoundWasAskedFor
<1>1. Init => SearchInv
  <2>1. \A stream \in Streams : stream \in Seq(Value)
    BY CollectAssumption DEF CollectAssumption
  <2> QED
    BY <2>1, SearchInit DEF Init
<1>2. SearchInv /\ [Next]_vars => SearchInv'
  BY SearchStep DEF Next, Terminated
<1>3. SearchInv => FoundWasAskedFor
  BY DEF SearchInv
<1> QED
  BY <1>1, <1>2, <1>3, PTL DEF Spec

\* initIgnoreTagMap finds, and filter then withholds, nothing it was not asked for.
THEOREM FoundWasAskedForHolds == FilterSpec => []FoundWasAskedFor
<1>1. FilterInv => FoundWasAskedFor
  BY DEF FilterInv, SearchInv
<1> QED
  BY FilterInvInit, FilterStep, <1>1, PTL DEF FilterSpec

\* The search finds all it can find, over all pages, chunks and kinds.
LEMMA NothingIsMissed ==
  ASSUME NoEmptyPages
  PROVE  FilterSpec => [](FilterInv /\ CompleteInv)
<1>1. FilterInit => FilterInv /\ CompleteInv
  BY FilterInvInit, FilterInitCases, CompleteInit
<1>2. FilterInv /\ CompleteInv /\ [FilterNext]_<<vars, filterVars>> => (FilterInv /\ CompleteInv)'
  <2> SUFFICES ASSUME FilterInv, CompleteInv, [FilterNext]_<<vars, filterVars>>
               PROVE  FilterInv' /\ CompleteInv'
    OBVIOUS
  <2>1. FilterInv'
    BY FilterStep
  <2> QED
    BY <2>1, FilterSteps, CompleteStep DEF FilterInv
<1> QED
  BY <1>1, <1>2, PTL DEF FilterSpec

\* A search without errors, or that stops at them, misses nothing that it can
\* find, unless AWS answers with an empty page, where the code stops reading.
THEOREM NothingMissedHolds ==
  ASSUME NoEmptyPages
  PROVE  FilterSpec => []NothingMissed
<1>1. CompleteInv => NothingMissed
  BY DEF CompleteInv, PastIsComplete, Counts, Complete, NothingMissed
<1> QED
  BY NothingIsMissed, <1>1, PTL

\* What can be found by the tags of the ignore file is not forwarded.
THEOREM NothingIgnoredIsForwardedHolds ==
  ASSUME NoEmptyPages
  PROVE  FilterSpec => []NothingIgnoredIsForwarded
<1>1. FilterInv /\ CompleteInv => NothingIgnoredIsForwarded
  <2> SUFFICES ASSUME FilterInv, CompleteInv, faults = 0 \/ ~ignoreErrors,
                      NEW r \in ToSet(output), NEW i \in DOMAIN read, CanBeFound(r, i)
               PROVE  faults > 0 /\ TypeOf[r] = "AutoScalingGroup"
    BY DEF NothingIgnoredIsForwarded
  <2>1. r \notin ToSet(found) /\ r \in Resource /\ pc = "done" /\ faults \in Nat
    <3>1. output # << >> /\ r \in Resource
      BY DEF ToSet, FilterInv, FilterTypeOK
    <3>2. faults \in Nat
      BY CollectAssumption DEF FilterInv, FilterTypeOK, TypeOK, CollectAssumption
    <3> QED
      BY <3>1, <3>2 DEF FilterInv, Forwarded
  <2>2. Complete(r, i)
    BY <2>1 DEF CompleteInv, PastIsComplete, Counts
  <2> QED
    BY <2>1, <2>2 DEF Complete
<1> QED
  BY NothingIsMissed, <1>1, PTL

\* From standard input, what carries none of the tags of the ignore file is
\* forwarded.  (With --filter-file the two files change places.)
THEOREM RestIsForwardedHolds ==
  ASSUME FromStdIn
  PROVE  FilterSpec => []RestIsForwarded
<1>1. StdInInv => RestIsForwarded
  <2> SUFFICES ASSUME StdInInv, fStep = "done", NEW r \in Parsed, ~IsProtected(r)
               PROVE  r \in ToSet(output)
    BY DEF RestIsForwarded
  <2>1. r \in ToSet(output) \cup ToSet(found)
    BY DEF StdInInv, Kept
  <2>2. ASSUME r \in ToSet(found) PROVE FALSE
    <3>1. PICK i \in DOMAIN read : Carries[r] \cap read[i] # {} \/ read[i] = {}
      BY <2>2 DEF StdInInv, FilterInv, SearchInv, FoundWasAskedFor
    <3>2. PICK v \in ToSet(tags) : v.kind = "filters" /\ read[i] = v.filters
      BY DEF StdInInv, ReadFrom
    <3>3. PICK j \in DOMAIN tags : v = tags[j]
      BY DEF ToSet
    <3> QED
      BY <3>1, <3>2, <3>3 DEF IsProtected
  <2> QED
    BY <2>1, <2>2
<1> QED
  BY StdInInit, StdInStep, <1>1, PTL DEF FilterSpec
=============================================================================
