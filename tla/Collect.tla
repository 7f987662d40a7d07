------------------------------- MODULE Collect -------------------------------
(***************************************************************************)
(* How `grafiti delete' and `grafiti filter' find resources by tag: for    *)
(* every set of tag filters of a stream they ask the Resource Groups       *)
(* Tagging API (RGTA), then auto scaling and Route 53, whose resources it  *)
(* does not know, and append the ARNs of what they are shown to one list   *)
(* (deleteFromTags and the functions it calls, cmd/grafiti/delete.go).     *)
(* `filter' then leaves out of its output what is in the list (module      *)
(* FilterRun).                                                             *)
(***************************************************************************)
EXTENDS Naturals, SequencesExt

CONSTANTS
  Resource,     \* the tagged resources, and every hosted zone
  Type,         \* resource types
  TypeOf,       \* the type of each resource
  ServiceOf,    \* the service of each type: the namespace of its ARNs
  Filter,       \* tag filters, on different keys
  Carries,      \* the filters the tags of a resource satisfy
  Streams,      \* the possible inputs: sequences of decoded values
  ResourceTypes, \* the possible resourceTypes; {} if not configured
  Configs,      \* the possible ignoreErrors
  PageSize,     \* most resources in one answer
  ChunkSize,    \* most zones in one ListTagsForResources request (10)
  EmptyPages,   \* whether a listing of something may have an empty page
  MaxFaults     \* bound on failed requests and vanished groups

UnsupportedKinds == {"AutoScalingGroup", "HostedZone"}
OfKind(k) == {r \in Resource : TypeOf[r] = k}
Listed == {r \in Resource : TypeOf[r] \notin UnsupportedKinds}

Value == [kind : {"filters", "mistyped", "broken"}, filters : SUBSET Filter]

ASSUME CollectAssumption ==
  /\ IsFiniteSet(Resource) /\ IsFiniteSet(Filter)
  /\ UnsupportedKinds \subseteq Type
  /\ TypeOf \in [Resource -> Type]
  /\ DOMAIN ServiceOf = Type
  /\ Carries \in [Resource -> SUBSET Filter]
  /\ Streams \subseteq Seq(Value)
  /\ ResourceTypes \subseteq SUBSET Type
  /\ Configs \subseteq BOOLEAN /\ EmptyPages \in BOOLEAN
  /\ PageSize \in Nat \ {0} /\ ChunkSize \in Nat \ {0} /\ MaxFaults \in Nat

VARIABLES
  ignoreErrors,
  types,      \* resourceTypes
  input,      \* the inputs not read yet
  pc,         \* "decode", "rgta", "next", "groups", "describe", "zones",
              \* "zoneTags", "done" or "error"
  filters,    \* the TagFilters of the current input
  unasked,    \* kinds RGTA does not list, still to be asked for
  shown,      \* what the current listing has shown
  matched,    \* groups to describe; zones that match
  described,  \* groups that exist
  found,      \* arnList
  faults,
  read        \* history: the inputs read

stepVars == <<filters, unasked, shown, matched, described>>
vars == <<ignoreErrors, types, input, pc, stepVars, found, faults, read>>

(***************************************************************************)
(* What the APIs match.                                                    *)
(***************************************************************************)
\* resourceTypes become services; types RGTA does not know are left out, and if
\* none remains the request names no types, which means all.
Services == {ServiceOf[t] : t \in types \ UnsupportedKinds}
InScope(r) == Services = {} \/ ServiceOf[TypeOf[r]] \in Services

\* Filters are connected by AND; without filters everything is returned.
RgtaMatching == {r \in Listed : filters \subseteq Carries[r] /\ InScope(r)}

\* DescribeTags returns a tag when it matches every filter, so for filters on
\* different keys it returns none.
GroupsMatching ==
  {r \in OfKind("AutoScalingGroup") : \E f \in Carries[r] : filters = {f}}

ZoneMatchesAnything(r) == Carries[r] # {}

\* createHostedZoneTagMap, filterHostedZones: one matching tag is enough.
ZoneMatches(r) == Carries[r] \cap filters # {}

Orders(S) == {s \in [1..Cardinality(S) -> S] : ToSet(s) = S}

\* A page of a listing of `all', and whether a token for the next comes with it.
Page(all, page, more) ==
  /\ page \subseteq all \ shown /\ Cardinality(page) <= PageSize
  /\ ~more => page = all \ shown
  /\ more /\ (page = {} \/ page = all \ shown) => EmptyPages

InitWith(stream) ==
  /\ ignoreErrors \in Configs /\ types \in ResourceTypes
  /\ input = stream /\ read = << >>
  /\ pc = "decode"
  /\ filters = {} /\ unasked = {} /\ shown = {} /\ matched = {} /\ described = {}
  /\ found = << >> /\ faults = 0

Init == \E stream \in Streams : InitWith(stream)

(***************************************************************************)
(* deleteFromTags, initIgnoreTagMap: the loop over the inputs.             *)
(***************************************************************************)
DecodeFilters ==
  /\ pc = "decode" /\ input # << >> /\ Head(input).kind = "filters"
  /\ filters' = Head(input).filters /\ input' = Tail(input)
  /\ read' = Append(read, Head(input).filters)
  /\ pc' = "rgta"
  /\ unasked' = UnsupportedKinds
  /\ shown' = {} /\ matched' = {} /\ described' = {}
  /\ UNCHANGED <<ignoreErrors, types, found, faults>>

\* A value of the wrong type is consumed.  After a syntax error the decoder
\* returns that error for ever.
DecodeFails ==
  /\ pc = "decode" /\ input # << >> /\ Head(input).kind # "filters"
  /\ IF ignoreErrors
     THEN /\ input' = IF Head(input).kind = "broken" THEN input ELSE Tail(input)
          /\ UNCHANGED pc
     ELSE pc' = "error" /\ UNCHANGED input
  /\ UNCHANGED <<ignoreErrors, types, stepVars, found, faults, read>>

DecodeEOF ==
  /\ pc = "decode" /\ input = << >>
  /\ pc' = "done"
  /\ UNCHANGED <<ignoreErrors, types, input, stepVars, found, faults, read>>

ListingFailsSilently(where) ==
  /\ pc = where /\ faults < MaxFaults
  /\ faults' = faults + 1
  /\ pc' = "next"
  /\ UNCHANGED <<ignoreErrors, types, input, stepVars, found, read>>

\* A failed request ends a listing; what it has not appended yet is dropped.
ListingFails(where) ==
  /\ pc = where /\ faults < MaxFaults
  /\ where = "describe" => matched # {}
  /\ where = "zoneTags" => shown # OfKind("HostedZone")
  /\ faults' = faults + 1
  /\ pc' = IF ignoreErrors THEN "next" ELSE "error"
  /\ UNCHANGED <<ignoreErrors, types, input, stepVars, found, read>>

(***************************************************************************)
(* getARNsForResource: pages are appended as they come, until one is empty *)
(* or has no token.                                                        *)
(***************************************************************************)
RequestFirstPage ==
  /\ pc = "rgta"
  /\ \E page \in SUBSET RgtaMatching, more \in BOOLEAN :
       /\ Page(RgtaMatching, page, more)
       /\ \E s \in Orders(page) : found' = found \o s
       /\ pc' = "next"
  /\ UNCHANGED <<ignoreErrors, types, input, stepVars, faults, read>>

RequestResources ==
  /\ pc = "rgta"
  /\ \E page \in SUBSET RgtaMatching, more \in BOOLEAN :
       /\ Page(RgtaMatching, page, more)
       /\ shown' = shown \cup page
       /\ \E s \in Orders(page) : found' = found \o s
       /\ pc' = IF more /\ page # {} THEN "rgta" ELSE "next"
  /\ UNCHANGED <<ignoreErrors, types, input, filters, unasked, matched, described,
                 faults, read>>

(***************************************************************************)
(* getARNsForUnsupportedResource: one kind after the other, in any order,  *)
(* but neither without filters nor while nothing has been found.           *)
(***************************************************************************)
RequestKeepingMatches(k) ==
  /\ pc = "next" /\ k \in unasked
  /\ unasked' = unasked \ {k}
  /\ shown' = {}
  /\ pc' = IF filters = {} \/ found = << >> THEN "next"
           ELSE IF k = "AutoScalingGroup" THEN "groups" ELSE "zones"
  /\ UNCHANGED <<ignoreErrors, types, input, filters, matched, described, found,
                 faults, read>>

Request(k) ==
  /\ pc = "next" /\ k \in unasked
  /\ unasked' = unasked \ {k}
  /\ shown' = {} /\ matched' = {} /\ described' = {}
  /\ pc' = IF filters = {} \/ found = << >> THEN "next"
           ELSE IF k = "AutoScalingGroup" THEN "groups" ELSE "zones"
  /\ UNCHANGED <<ignoreErrors, types, input, filters, found, faults, read>>

NextInput ==
  /\ pc = "next" /\ unasked = {}
  /\ pc' = "decode"
  /\ UNCHANGED <<ignoreErrors, types, input, stepVars, found, faults, read>>

(***************************************************************************)
(* getAutoScalingResourcesByTags: DescribeTags, page by page, and then     *)
(* DescribeAutoScalingGroups, one by one.  An empty page drops the names   *)
(* collected before it.                                                    *)
(***************************************************************************)
RequestGroupTags ==
  /\ pc = "groups"
  /\ \E page \in SUBSET GroupsMatching, more \in BOOLEAN :
       /\ Page(GroupsMatching, page, more)
       /\ shown' = shown \cup page
       /\ matched' = matched \cup page
       /\ pc' = IF page = {} THEN "next" ELSE IF more THEN "groups" ELSE "describe"
  /\ UNCHANGED <<ignoreErrors, types, input, filters, unasked, described, found,
                 faults, read>>

RequestGroup(r) ==
  /\ pc = "describe" /\ r \in matched
  /\ matched' = matched \ {r}
  /\ described' = described \cup {r}
  /\ UNCHANGED <<ignoreErrors, types, input, pc, filters, unasked, shown, found,
                 faults, read>>

\* A group that is no longer there is passed over: a ValidationError is no error.
RequestGoneGroup(r) ==
  /\ pc = "describe" /\ r \in matched
  /\ faults < MaxFaults /\ faults' = faults + 1
  /\ matched' = matched \ {r}
  /\ UNCHANGED <<ignoreErrors, types, input, pc, filters, unasked, shown, described,
                 found, read>>

AppendGroups ==
  /\ pc = "describe" /\ matched = {}
  /\ \E s \in Orders(described) : found' = found \o s
  /\ pc' = "next"
  /\ UNCHANGED <<ignoreErrors, types, input, stepVars, faults, read>>

(***************************************************************************)
(* getRoute53ResourcesByTags: all zones of the account, then their tags in *)
(* chunks.  An account without zones is an error.                          *)
(***************************************************************************)
RequestZones ==
  /\ pc = "zones"
  /\ pc' = IF OfKind("HostedZone") # {} THEN "zoneTags"
           ELSE IF ignoreErrors THEN "next" ELSE "error"
  /\ UNCHANGED <<ignoreErrors, types, input, stepVars, found, faults, read>>

RequestSameZoneTags ==
  /\ pc = "zoneTags" /\ shown # OfKind("HostedZone")
  /\ \E chunk \in SUBSET OfKind("HostedZone") :
       /\ Cardinality(chunk) = ChunkSize \/ chunk = OfKind("HostedZone")
       /\ matched' = matched \cup {r \in chunk : ZoneMatches(r)}
  /\ UNCHANGED <<ignoreErrors, types, input, pc, filters, unasked, shown, described,
                 found, faults, read>>

RequestZoneTags ==
  /\ pc = "zoneTags" /\ shown # OfKind("HostedZone")
  /\ \E chunk \in SUBSET (OfKind("HostedZone") \ shown) :
       /\ \/ Cardinality(chunk) = ChunkSize
          \/ chunk = OfKind("HostedZone") \ shown /\ Cardinality(chunk) <= ChunkSize
       /\ shown' = shown \cup chunk
       /\ matched' = matched \cup {r \in chunk : ZoneMatches(r)}
  /\ UNCHANGED <<ignoreErrors, types, input, pc, filters, unasked, described, found,
                 faults, read>>

AppendZones ==
  /\ pc = "zoneTags" /\ shown = OfKind("HostedZone")
  /\ \E s \in Orders(matched) : found' = found \o s
  /\ pc' = "next"
  /\ UNCHANGED <<ignoreErrors, types, input, stepVars, faults, read>>

Terminated == pc \in {"done", "error"} /\ UNCHANGED vars

Program ==
  \/ DecodeFilters \/ DecodeFails \/ DecodeEOF \/ NextInput
  \/ RequestResources \/ RequestGroupTags \/ RequestZones \/ RequestZoneTags
  \/ \E k \in unasked : Request(k)
  \/ \E r \in matched : RequestGroup(r) \/ RequestGoneGroup(r)
  \/ AppendGroups \/ AppendZones
  \/ \E where \in {"rgta", "groups", "describe", "zones", "zoneTags"} :
       ListingFails(where)

Next == Program \/ Terminated

Spec == Init /\ [][Next]_vars

(***************************************************************************)
(* Correctness                                                             *)
(***************************************************************************)
TypeOK ==
  /\ ignoreErrors \in BOOLEAN /\ types \subseteq Type
  /\ pc \in {"decode", "rgta", "next", "groups", "describe", "zones", "zoneTags",
             "done", "error"}
  /\ input \in Seq(Value) /\ read \in Seq(SUBSET Filter)
  /\ filters \subseteq Filter /\ unasked \subseteq UnsupportedKinds
  /\ shown \subseteq Resource
  /\ matched \subseteq shown /\ described \subseteq shown
  /\ found \in Seq(Resource) /\ faults \in 0..MaxFaults

Matches(r, F) == F \subseteq Carries[r]

\* Nothing is deleted, or withheld from the output of filter, that does not carry
\* a tag asked for; and all tags of one input, unless it is a zone.  But an input
\* without filters asks for everything.
FoundWasAskedFor ==
  \A r \in ToSet(found) : \E i \in DOMAIN read :
    /\ Carries[r] \cap read[i] # {} \/ read[i] = {}
    /\ TypeOf[r] # "HostedZone" => Matches(r, read[i])

\* What the search can find for input i: groups and zones only once something
\* else has been found, and groups only by a single filter.
SomethingFoundBy(i) ==
  \E j \in 1..i : \E r \in Listed : Matches(r, read[j]) /\ InScope(r)

CanBeFound(r, i) ==
  /\ Matches(r, read[i])
  /\ IF r \in Listed THEN InScope(r) ELSE SomethingFoundBy(i) /\ read[i] # {}
  /\ TypeOf[r] = "AutoScalingGroup" => Cardinality(read[i]) = 1

\* A search that ends well has found everything that can be found, unless errors
\* are ignored: over all pages, full or short, and chunks, and in every order of
\* listings and kinds.  Only groups may be gone before they are described.
NothingMissed ==
  pc = "done" /\ (faults = 0 \/ ~ignoreErrors) =>
    \A i \in DOMAIN read : \A r \in Resource :
      CanBeFound(r, i) /\ (faults = 0 \/ TypeOf[r] # "AutoScalingGroup")
      => r \in ToSet(found)

\* The decoder keeps a syntax error, so a search that ignores it decodes it for ever.
IsStuck == ignoreErrors /\ input # << >> /\ Head(input).kind = "broken"
=============================================================================
