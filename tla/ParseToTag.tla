------------------------------ MODULE ParseToTag ------------------------------
(***************************************************************************)
(* `grafiti parse | grafiti tag': two processes and the pipe between them. *)
(***************************************************************************)
EXTENDS Parse, Tagger

CONSTANT TagsOf   \* the tags tagPatterns make of each event

\* How tag() treats what parse has printed.
ClassOfPrinted(r) ==
  CASE TypeIn[r] \in UntaggableResourceTypes      -> "untaggable"
    [] r \in Nameless                             -> "incomplete"
    [] TypeIn[r] \in RGTAUnsupportedResourceTypes -> TypeIn[r]
    [] OTHER                                      -> "rgta"

ASSUME PipeAssumption ==
  /\ Resource = DOMAIN TypeIn
  /\ \A r \in Resource : ClassOf[r] = ClassOfPrinted(r)
  /\ TagsOf \in [Event -> TagSets]

allVars == <<parseVars, vars>>

PipeInit == ParseInit /\ Init

Producing == (ParseStep \/ \E r \in Groups : GroupDeleted(r)) /\ UNCHANGED vars

\* Printing for a reader that has ended with an error: SIGPIPE.
BrokenPipe ==
  /\ pc = "error" /\ phase = "print" /\ page # {}
  /\ phase' = "error"
  /\ UNCHANGED <<setup, lookups, unseen, page, pipe, printed, unasked, absent,
                 failures, vars>>

ReadRecord ==
  /\ pipe # << >>
  /\ DecodeInput(Head(pipe)[2], TagsOf[Head(pipe)[1]])
  /\ pipe' = Tail(pipe)
  /\ UNCHANGED <<setup, phase, lookups, unseen, page, printed, unasked, absent, failures>>

\* The stream ends when parse has, well or not.
ReadEOF == pipe = << >> /\ ParseEnded /\ DecodeEOF /\ UNCHANGED parseVars

Tagging ==
  /\ \/ \E t \in Tag : EjectARNs(t)
     \/ ARNsDone
     \/ \E rt \in NamedType : EjectNames(rt)
     \/ \E r \in sending : TagName(r)
     \/ ClearNames \/ NamesDone
  /\ UNCHANGED parseVars

Waiting == Tick /\ UNCHANGED parseVars

BothEnded == ParseEnded /\ pc \in {"done", "error"}

PipeNext ==
  \/ Producing \/ BrokenPipe
  \/ ReadRecord \/ ReadEOF \/ Tagging \/ Waiting
  \/ BothEnded /\ UNCHANGED allVars

\* Both processes run and their requests return.
PipeSpec ==
  /\ PipeInit /\ [][PipeNext]_allVars
  /\ WF_allVars(ParseStep /\ UNCHANGED vars)
  /\ WF_allVars(ReadRecord \/ ReadEOF \/ Tagging)

(***************************************************************************)
(* Correctness                                                             *)
(***************************************************************************)
\* The events that may have given r a value.
ValuesFor(r, k) == {TagsOf[p[1]][k] : p \in {q \in printed : q[2] = r}}

\* When both commands end well, every resource of the window with a name, an ARN and
\* tags, which the filter lets pass, has a value for each of its keys in AWS, unless
\* a request for it failed (tag_test.go and parse_test.go each look at one half).
WindowIsTagged ==
  phase = "done" /\ pc = "done" /\ ~cfg.dryRun =>
    \A p \in Pair :
      InScope(p) /\ Named(p[2]) /\ HasFoundARN(p) /\ p \notin Filtered
        /\ p[2] \in Arn \cup Name =>
          \A t \in TagsIn(TagsOf[p[1]]) :
            \/ awsTags[p[2]][t.key] \in ValuesFor(p[2], t.key) \ {None}
            \/ \E u \in Tag : u.key = t.key /\ <<p[2], u>> \in lost

\* No resource is given a tag made of another resource's events, whatever is batched
\* with it.
TagsComeFromItsEvents ==
  \A r \in Resource : \A k \in Key :
    awsTags[r][k] # None => awsTags[r][k] \in ValuesFor(r, k)

\* Both commands end: parse when its lookups do, tag when the pipe is closed.
BothEnd == <>BothEnded
=============================================================================
