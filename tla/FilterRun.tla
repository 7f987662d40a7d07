------------------------------ MODULE FilterRun ------------------------------
(***************************************************************************)
(* `grafiti filter' (cmd/grafiti/filter.go): find by tag what is to be     *)
(* ignored (module Collect), then read the output of `grafiti parse' and   *)
(* forward each resource that was not found.                               *)
(***************************************************************************)
EXTENDS Collect

CONSTANTS
  Nothing,      \* no resource
  ParseOutputs, \* the possible outputs of parse: sequences of decoded values
  FilterFiles   \* whether parse output comes from --filter-file or from stdin

Entry == [kind : {"tagged"}, resource : Resource]
           \cup [kind : {"untagged", "mistyped", "broken"}, resource : {Nothing}]

ASSUME FilterAssumption ==
  Nothing \notin Resource /\ ParseOutputs \subseteq Seq(Entry) /\ FilterFiles \subseteq BOOLEAN

VARIABLES
  parsed,   \* what the filter was given to filter
  tags,     \* and the tags it was given to ignore
  rest,     \* of what is decoded into Outputs, not read yet
  fStep,    \* "search", "read", "done" or "error"
  output    \* the resources forwarded

givenVars == <<parsed, tags>>
filterVars == <<givenVars, rest, fStep, output>>

(***************************************************************************)
(* The decoder leaves fields out that it does not know, so a value of the  *)
(* one kind of input is decoded as an empty value of the other.            *)
(***************************************************************************)
AsTagFile(e) ==
  [kind |-> IF e.kind \in {"mistyped", "broken"} THEN e.kind ELSE "filters",
   filters |-> {}]

AsOutput(v) ==
  [kind |-> IF v.kind = "filters" THEN "untagged" ELSE v.kind, resource |-> Nothing]

Each(s, Op(_)) == [i \in DOMAIN s |-> Op(s[i])]

(***************************************************************************)
(* runFilterCommand.  filterFromStdIn passes standard input and the ignore *)
(* file to filter(svc, r, f) in this order, filterFromFile the ignore file *)
(* and the filter file.                                                    *)
(***************************************************************************)
FilterInit ==
  /\ parsed \in ParseOutputs /\ tags \in Streams
  /\ \E fromFile \in FilterFiles :
       IF fromFile
       THEN InitWith(Each(parsed, AsTagFile)) /\ rest = Each(tags, AsOutput)
       ELSE InitWith(tags) /\ rest = parsed
  /\ fStep = "search" /\ output = << >>

\* initIgnoreTagMap
Search ==
  /\ fStep = "search" /\ Program
  /\ UNCHANGED filterVars

EndSearch ==
  /\ fStep = "search" /\ pc \in {"done", "error"}
  /\ fStep' = IF pc = "done" THEN "read" ELSE "error"
  /\ UNCHANGED <<vars, givenVars, rest, output>>

(***************************************************************************)
(* filter: the loop over the outputs of parse.                             *)
(***************************************************************************)
Reads(kind) == fStep = "read" /\ rest # << >> /\ Head(rest).kind = kind

Advance == rest' = Tail(rest) /\ UNCHANGED fStep

IsIgnoredByService(r) == \E q \in ToSet(found) : ServiceOf[TypeOf[q]] = ServiceOf[TypeOf[r]]

IsIgnored(r) == r \in ToSet(found)

ReadOutput ==
  /\ Reads("tagged")
  /\ LET r == Head(rest).resource IN
     IF IsIgnored(r) THEN UNCHANGED output ELSE output' = Append(output, r)
  /\ Advance
  /\ UNCHANGED <<vars, givenVars>>

\* A value without TaggingMetadata is passed over.
ReadUntagged ==
  /\ Reads("untagged")
  /\ Advance
  /\ UNCHANGED <<vars, givenVars, output>>

ReadFails ==
  /\ Reads("mistyped") \/ Reads("broken")
  /\ IF ~ignoreErrors THEN fStep' = "error" /\ UNCHANGED rest
     ELSE IF Head(rest).kind = "mistyped" THEN Advance
     ELSE UNCHANGED <<rest, fStep>>
  /\ UNCHANGED <<vars, givenVars, output>>

ReadEOF ==
  /\ fStep = "read" /\ rest = << >>
  /\ fStep' = "done"
  /\ UNCHANGED <<vars, givenVars, rest, output>>

FilterProgram == Search \/ EndSearch \/ ReadOutput \/ ReadUntagged \/ ReadFails \/ ReadEOF

FilterTerminated == fStep \in {"done", "error"} /\ UNCHANGED <<vars, filterVars>>

FilterNext == FilterProgram \/ FilterTerminated

FilterSpec == FilterInit /\ [][FilterNext]_<<vars, filterVars>>

\* The process runs, every AWS call returns and the inputs end.
FairFilterSpec == FilterSpec /\ WF_<<vars, filterVars>>(FilterProgram)

(***************************************************************************)
(* Correctness                                                             *)
(***************************************************************************)
FilterTypeOK ==
  /\ TypeOK
  /\ parsed \in Seq(Entry) /\ tags \in Seq(Value) /\ rest \in Seq(Entry)
  /\ fStep \in {"search", "read", "done", "error"}
  /\ fStep # "search" => pc \in {"done", "error"}
  /\ output \in Seq(Resource)

Parsed == {e.resource : e \in ToSet(parsed)} \ {Nothing}

\* What carries the tags to be ignored and can be found by them is not forwarded,
\* and then tagged and deleted, unless errors were ignored while searching.
NothingIgnoredIsForwarded ==
  faults = 0 \/ ~ignoreErrors =>
    \A r \in ToSet(output) : \A i \in DOMAIN read :
      CanBeFound(r, i) => faults > 0 /\ TypeOf[r] = "AutoScalingGroup"

IsProtected(r) ==
  \E i \in DOMAIN tags : /\ tags[i].kind = "filters"
                         /\ Carries[r] \cap tags[i].filters # {} \/ tags[i].filters = {}

\* "resources with these tags will be removed from `grafiti parse` output, and
\* remaining resources can be filtered into `grafiti tag`" (filter-example.md:5): what
\* carries none of the tags is forwarded, over broken values as well.
RestIsForwarded ==
  fStep = "done" => \A r \in Parsed : ~IsProtected(r) => r \in ToSet(output)

FilterIsStuck ==
  /\ ignoreErrors
  /\ \/ fStep = "search" /\ IsStuck
     \/ Reads("broken")

\* Whatever fails, filter ends, except at a syntax error that is ignored.
FilterEnds == <>(fStep \in {"done", "error"} \/ FilterIsStuck)
=============================================================================
