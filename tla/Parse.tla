-------------------------------- MODULE Parse --------------------------------
(***************************************************************************)
(* `grafiti parse' (cmd/grafiti/parse.go): resources named by CloudTrail   *)
(* events are printed with their ARN and with tags made from the event.    *)
(* The events come from a log file, or from the CloudTrail API: one lookup *)
(* for each of the resourceTypes, page by page.                            *)
(***************************************************************************)
EXTENDS Naturals, Sequences, ResourceTypes

CONSTANTS
  Event,            \* the events of the time window
  ResourcesOf,      \* the resources CloudTrail gives with each
  Identified,       \* what rawEventMap finds in each; NoResource
  NoResource,
  TypeIn,           \* the type of each resource
  Nameless,         \* without a name: what is left of a creation that failed
  Filtered,         \* <<event, resource>>: a filterPattern is not true of the output
  Setups,           \* configurations: [source, types, valid]
  MaxLookupFaults   \* bound on failed requests

Pair == Event \X DOMAIN TypeIn

ASSUME ParseAssumption ==
  /\ ResourcesOf \in [Event -> SUBSET DOMAIN TypeIn]
  /\ Identified \in [Event -> DOMAIN TypeIn \cup {NoResource}]
  /\ NoResource \notin DOMAIN TypeIn
  /\ Nameless \subseteq DOMAIN TypeIn /\ Filtered \subseteq Pair
  /\ \A s \in Setups :
       s.source \in {"api", "file"} /\ s.types \in Seq(STRING) /\ s.valid \in BOOLEAN
  /\ MaxLookupFaults \in Nat

VARIABLES
  setup,     \* the configuration
  phase,     \* "start", "lookup", "print", "done" or "error"
  lookups,   \* the types still to be looked up; <<"any">> for no type
  unseen,    \* the events the current lookup has not returned
  page,      \* <<event, resource>> still to be printed of the last answer
  pipe,      \* what is printed and not read yet
  printed,   \* history: all that is printed
  unasked,   \* history: those left out because the request for the ARN failed
  absent,    \* groups that are deleted by now
  failures   \* failed requests

parseVars == <<setup, phase, lookups, unseen, page, pipe, printed, unasked,
               absent, failures>>

Groups == {r \in DOMAIN TypeIn : TypeIn[r] \in AsksForARN}

Named(r) == r \notin Nameless

\* A lookup returns the events with a resource of its type, all their resources with
\* them.
Matching(type) ==
  {e \in Event : type = "any" \/ \E r \in ResourcesOf[e] : TypeIn[r] = type}

ParseInit ==
  /\ setup \in Setups
  /\ phase = "start" /\ lookups = << >> /\ unseen = {} /\ page = {}
  /\ pipe = << >> /\ printed = {} /\ unasked = {}
  /\ absent \in SUBSET Groups /\ failures = 0

(***************************************************************************)
(* runParseCommand: a log file, or a time window for the API.              *)
(***************************************************************************)
LookupTypes == IF setup.types = << >> THEN <<"any">> ELSE setup.types

StartLookups ==
  /\ phase = "start" /\ setup.source = "api" /\ setup.valid
  /\ phase' = "lookup" /\ lookups' = LookupTypes
  /\ unseen' = Matching(Head(LookupTypes))
  /\ UNCHANGED <<setup, page, pipe, printed, unasked, absent, failures>>

\* parseBytes: the whole file is decoded before the first event is printed.
ReadFileUnchecked ==
  /\ phase = "start" /\ setup.source = "file" /\ setup.valid
  /\ phase' = "print"
  /\ page' = {<<e, Identified[e]>> : e \in Event}
  /\ UNCHANGED <<setup, lookups, unseen, pipe, printed, unasked, absent, failures>>

ReadFile ==
  /\ phase = "start" /\ setup.source = "file" /\ setup.valid
  /\ phase' = "print"
  /\ page' = {<<e, Identified[e]>> : e \in {x \in Event : Identified[x] # NoResource}}
  /\ UNCHANGED <<setup, lookups, unseen, pipe, printed, unasked, absent, failures>>

\* No or an empty time window; a file that is not there or not JSON.
StartFails ==
  /\ phase = "start" /\ ~setup.valid
  /\ phase' = "error"
  /\ UNCHANGED <<setup, lookups, unseen, page, pipe, printed, unasked, absent, failures>>

(***************************************************************************)
(* parseLookupAttribute: one page of events, which is printed before the   *)
(* next one is asked for.  An error ends the command, also with            *)
(* --ignore-errors, and what is printed stays printed.                     *)
(***************************************************************************)
LookupPage ==
  /\ phase = "lookup"
  /\ \E events \in SUBSET unseen :
       /\ events # {} \/ unseen = {}
       /\ page' = UNION {{e} \X ResourcesOf[e] : e \in events}
       /\ unseen' = unseen \ events
  /\ phase' = "print"
  /\ UNCHANGED <<setup, lookups, pipe, printed, unasked, absent, failures>>

LookupFails ==
  /\ phase = "lookup" /\ failures < MaxLookupFaults
  /\ failures' = failures + 1
  /\ phase' = "error"
  /\ UNCHANGED <<setup, lookups, unseen, page, pipe, printed, unasked, absent>>

(***************************************************************************)
(* printEvent, parseRawCloudTrailEvent and parseDataFromEvent for one      *)
(* resource: it is printed if it has an ARN and passes the filter.         *)
(***************************************************************************)
Output(p) ==
  IF p \in Filtered THEN UNCHANGED <<pipe, printed>>
  ELSE pipe' = Append(pipe, p) /\ printed' = printed \cup {p}

NoOutput == UNCHANGED <<pipe, printed>>

\* printEvent leaves out what has no name; parseRawCloudTrailEvent does not, and so
\* prints what was not created.
HasComputedARN(r) == TypeIn[r] \in HasARN /\ (setup.source = "file" \/ Named(r))

PrintWithARN(p) == HasComputedARN(p[2]) /\ Output(p) /\ UNCHANGED <<unasked, failures>>

\* getAutoScalingGroupARN.
AskForARN(p) ==
  /\ p[2] \in Groups /\ Named(p[2])
  /\ \/ p[2] \notin absent /\ Output(p) /\ UNCHANGED <<unasked, failures>>
     \/ p[2] \in absent /\ NoOutput /\ UNCHANGED <<unasked, failures>>
     \/ /\ failures < MaxLookupFaults /\ failures' = failures + 1
        /\ unasked' = unasked \cup {p}
        /\ NoOutput

LeaveOut(p) ==
  /\ ~HasComputedARN(p[2]) /\ ~(p[2] \in Groups /\ Named(p[2]))
  /\ NoOutput /\ UNCHANGED <<unasked, failures>>

PrintResource(p) ==
  /\ phase = "print" /\ p \in page
  /\ page' = page \ {p}
  /\ PrintWithARN(p) \/ AskForARN(p) \/ LeaveOut(p)
  /\ UNCHANGED <<setup, phase, lookups, unseen, absent>>

\* The page is printed: the next page, the next type, or the end.
AfterFirstPage ==
  IF Len(lookups) > 1
  THEN /\ phase' = "lookup" /\ lookups' = Tail(lookups)
       /\ unseen' = Matching(lookups[2])
  ELSE phase' = "done" /\ UNCHANGED <<lookups, unseen>>

AfterPage ==
  IF unseen # {} THEN phase' = "lookup" /\ UNCHANGED <<lookups, unseen>>
  ELSE IF Len(lookups) > 1
  THEN /\ phase' = "lookup" /\ lookups' = Tail(lookups)
       /\ unseen' = Matching(lookups[2])
  ELSE phase' = "done" /\ UNCHANGED <<lookups, unseen>>

FinishPage ==
  /\ phase = "print" /\ page = {}
  /\ AfterPage
  /\ UNCHANGED <<setup, page, pipe, printed, unasked, absent, failures>>

ParseStep ==
  \/ StartLookups \/ ReadFile \/ StartFails
  \/ LookupPage \/ LookupFails
  \/ \E p \in page : PrintResource(p)
  \/ FinishPage

\* A group is deleted while the command runs.
GroupDeleted(r) ==
  /\ r \in Groups \ absent
  /\ absent' = absent \cup {r}
  /\ UNCHANGED <<setup, phase, lookups, unseen, page, pipe, printed, unasked, failures>>

ParseEnded == phase \in {"done", "error"}

(***************************************************************************)
(* Correctness                                                             *)
(***************************************************************************)
ParseTypeOK ==
  /\ setup \in Setups
  /\ phase \in {"start", "lookup", "print", "done", "error"}
  /\ unseen \subseteq Event
  /\ page \subseteq Pair /\ printed \subseteq Pair /\ unasked \subseteq Pair
  /\ \A i \in 1..Len(pipe) : pipe[i] \in printed
  /\ absent \subseteq Groups /\ failures \in 0..MaxLookupFaults
  /\ phase = "lookup" => lookups # << >> /\ page = {}

\* The resources the command is asked for: those of the events with a resource of
\* one of the resourceTypes, or of all.
InScope(p) ==
  IF setup.source = "file" THEN p[2] = Identified[p[1]]
  ELSE /\ p[2] \in ResourcesOf[p[1]]
       /\ setup.types = << >> \/ \E i \in 1..Len(setup.types) : p[1] \in Matching(setup.types[i])

HasFoundARN(p) ==
  TypeIn[p[2]] \in HasARN \/ (p[2] \in Groups /\ p[2] \notin absent /\ p \notin unasked)

\* A command that ends well has printed every resource it was asked for that has a
\* name and an ARN and passes the filter, over all pages of all lookups, and has
\* printed nothing else that has a name.
WindowIsPrinted ==
  /\ phase = "done" =>
       \A p \in Pair : InScope(p) /\ Named(p[2]) /\ HasFoundARN(p) /\ p \notin Filtered
                         => p \in printed
  /\ \A p \in printed : InScope(p) /\ p \notin Filtered
=============================================================================
