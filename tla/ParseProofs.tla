------------------------------ MODULE ParseProofs ------------------------------
(***************************************************************************)
(* Proofs about `grafiti parse | grafiti tag': parse prints what it is     *)
(* asked for and nothing else, tag does in the pipe what it does alone,    *)
(* and together they tag the resources of the window with tags made of     *)
(* their own events.                                                       *)
(***************************************************************************)
EXTENDS ParseToTag, TaggerProofs

(***************************************************************************)
(* The parts of the invariant of parse.                                    *)
(***************************************************************************)

\* A lookup is for a type, or for events of any type.
LookupKey == STRING \cup {"any"}

\* The lookups still to be made, the current one included, are of the types asked
\* for.
LookupsOK ==
  /\ lookups \in Seq(LookupKey) /\ pipe \in Seq(Pair)
  /\ \A i \in DOMAIN lookups : \E j \in DOMAIN LookupTypes : lookups[i] = LookupTypes[j]
  /\ unseen # {} => lookups # << >> /\ unseen \subseteq Matching(lookups[1])
  /\ setup.source = "file" => lookups = << >>
  /\ phase = "start" => lookups = << >> /\ page = {} /\ printed = {}
  /\ phase = "done" => page = {} /\ unseen = {} /\ Len(lookups) <= 1

\* Nothing else is printed.
InScopeOK ==
  /\ \A p \in page \cup printed : InScope(p)
  /\ \A p \in printed : p \notin Filtered

\* A resource is to be looked up, to be printed or has been printed if it had to be.
ToBeSeen(e) == e \in unseen \/ \E i \in DOMAIN lookups : i > 1 /\ e \in Matching(lookups[i])

DealtWith(p) == Named(p[2]) /\ HasFoundARN(p) /\ p \notin Filtered => p \in printed

NoneMissing ==
  phase \in {"lookup", "print", "done"} =>
    \A p \in Pair : InScope(p) => p \in page \/ DealtWith(p) \/ ToBeSeen(p[1])

ParseInv == ParseTypeOK /\ LookupsOK /\ InScopeOK /\ NoneMissing

(***************************************************************************)
(* The parts of the invariant of the pipe.                                 *)
(***************************************************************************)

\* Tag gives names, in its buckets and in AWS, only tags it was given, and what
\* it cannot tag none.
NameGiven(r, t) ==
  /\ nameBuckets[r] # None /\ nameBuckets[r][t.key] = t.value => <<r, t>> \in given
  /\ awsTags[r][t.key] = t.value => <<r, t>> \in given
  /\ wanted[r][t.key] = t.value => <<r, t>> \in given
  /\ <<r, t>> \in given => wanted[r][t.key] # None

OnlyGiven ==
  /\ \A r \in Name : \A t \in Tag : NameGiven(r, t)
  /\ \A r \in Resource \ (Arn \cup Name) : awsTags[r] = NoTags

\* What is printed is in the pipe or has been read, and nothing else has.
PrintedIsRead ==
  /\ \A p \in printed : \/ \E i \in DOMAIN pipe : pipe[i] = p
                        \/ p[2] \in Arn \cup Name => Pairs(p[2], TagsOf[p[1]]) \subseteq given
  /\ \A q \in given : \E p \in printed : p[2] = q[1] /\ TagsOf[p[1]][q[2].key] = q[2].value
  /\ isEOF => pipe = << >> /\ ParseEnded

\* Tag ends well only at the end of the stream.
DoneAtEOF == pc = "done" => isEOF

PipeInv == ParseInv /\ TagInv /\ OnlyGiven /\ PrintedIsRead /\ DoneAtEOF

(***************************************************************************)
(* Sequences and lookups.                                                  *)
(***************************************************************************)

\* The members of a sequence that is read.
LEMMA TailOfSeq ==
  ASSUME NEW D, NEW s \in Seq(D), s # << >>
  PROVE  /\ Head(s) \in D /\ Head(s) = s[1] /\ 1 \in DOMAIN s /\ Tail(s) \in Seq(D)
         /\ Len(s) \in Nat /\ Len(Tail(s)) = Len(s) - 1
         /\ DOMAIN s = 1..Len(s) /\ DOMAIN Tail(s) = 1..Len(Tail(s))
         /\ \A i \in DOMAIN Tail(s) : i + 1 \in DOMAIN s /\ Tail(s)[i] = s[i + 1]
         /\ \A i \in DOMAIN s : i = 1 \/ (i - 1 \in DOMAIN Tail(s) /\ Tail(s)[i - 1] = s[i])
OBVIOUS

\* The members of a sequence that is printed to.
LEMMA AppendToSeq ==
  ASSUME NEW D, NEW s \in Seq(D), NEW x \in D
  PROVE  /\ Append(s, x) \in Seq(D) /\ Len(s) \in Nat /\ Len(Append(s, x)) = Len(s) + 1
         /\ Append(s, x)[Len(s) + 1] = x /\ \A i \in 1..Len(s) : Append(s, x)[i] = s[i]
OBVIOUS

\* What the lookups are for.
LEMMA Lookups ==
  ASSUME setup \in Setups
  PROVE  /\ LookupTypes \in Seq(LookupKey) /\ LookupTypes # << >>
         /\ setup.source \in {"api", "file"}
         /\ \A t : Matching(t) \subseteq Event
         /\ setup.source = "api" =>
              \A p \in Pair : InScope(p) <=>
                /\ p[2] \in ResourcesOf[p[1]]
                /\ \E i \in DOMAIN LookupTypes : p[1] \in Matching(LookupTypes[i])
<1>1. setup.types \in Seq(STRING) /\ setup.source \in {"api", "file"}
  BY ParseAssumption DEF ParseAssumption
<1>2. \A t : Matching(t) \subseteq Event
  BY DEF Matching
<1>3. CASE setup.types = << >>
  <2>1. /\ DOMAIN LookupTypes = {1} /\ LookupTypes[1] = "any"
        /\ LookupTypes \in Seq(LookupKey) /\ LookupTypes # << >>
    <3>1. LookupTypes = <<"any">>
      BY <1>3 DEF LookupTypes
    <3>2. DOMAIN <<"any">> = {1} /\ <<"any">>[1] = "any"
      OBVIOUS
    <3>3. <<"any">> \in Seq(LookupKey)
      <4>1. "any" \in LookupKey
        BY DEF LookupKey
      <4> QED
        BY <4>1
    <3>4. <<"any">> # << >>
      BY <3>2
    <3> QED
      BY <3>1, <3>2, <3>3, <3>4
  <2>2. Matching("any") = Event
    BY DEF Matching
  <2>3. \A p \in Pair : \E i \in DOMAIN LookupTypes : p[1] \in Matching(LookupTypes[i])
    BY <2>1, <2>2 DEF Pair
  <2>4. ASSUME setup.source = "api", NEW p \in Pair
        PROVE  InScope(p) <=> p[2] \in ResourcesOf[p[1]]
    <3>1. /\ p[2] \in ResourcesOf[p[1]]
          /\ setup.types = << >> \/ \E i \in 1..Len(setup.types) : p[1] \in Matching(setup.types[i])
          <=> InScope(p)
      BY <2>4 DEF InScope
    <3> QED
      BY <1>3, <3>1
  <2>5. setup.source = "api" =>
          \A p \in Pair : InScope(p) <=>
            /\ p[2] \in ResourcesOf[p[1]]
            /\ \E i \in DOMAIN LookupTypes : p[1] \in Matching(LookupTypes[i])
    BY <2>3, <2>4
  <2> QED
    BY <1>1, <1>2, <2>1, <2>5
<1>4. CASE setup.types # << >>
  <2>1. /\ LookupTypes = setup.types /\ DOMAIN LookupTypes = 1..Len(setup.types)
        /\ setup.types \in Seq(LookupKey)
    BY <1>1, <1>4 DEF LookupTypes, LookupKey
  <2>2. setup.source = "api" =>
          \A p \in Pair : InScope(p) <=>
            /\ p[2] \in ResourcesOf[p[1]]
            /\ \E i \in DOMAIN LookupTypes : p[1] \in Matching(LookupTypes[i])
    BY <1>4, <2>1 DEF InScope
  <2> QED
    BY <1>1, <1>2, <1>4, <2>1, <2>2
<1> QED
  BY <1>3, <1>4

(***************************************************************************)
(* Parse keeps its invariant.                                              *)
(***************************************************************************)
LEMMA ParseInvInit == ParseInit => ParseInv
<1> SUFFICES ASSUME ParseInit PROVE ParseInv
  OBVIOUS
<1> USE DEF ParseInit
<1>1. ParseTypeOK
  BY ParseAssumption DEF ParseTypeOK, ParseAssumption
<1>2. LookupsOK
  BY DEF LookupsOK
<1>3. InScopeOK /\ NoneMissing
  BY DEF InScopeOK, NoneMissing
<1> QED
  BY <1>1, <1>2, <1>3 DEF ParseInv

\* The resources of a lookup, or of a file, are those asked for.
LEMMA StartStep ==
  ASSUME ParseInv, StartLookups \/ ReadFile \/ StartFails
  PROVE  ParseInv'
<1>1. /\ phase = "start" /\ setup \in Setups /\ setup' = setup /\ page = {} /\ printed' = {}
      /\ lookups = << >> /\ unseen = {}
      /\ UNCHANGED <<pipe, printed, unasked, absent, failures>>
  BY DEF ParseInv, ParseTypeOK, LookupsOK, StartLookups, ReadFile, StartFails
<1>2. /\ LookupTypes' = LookupTypes /\ LookupTypes \in Seq(LookupKey) /\ LookupTypes # << >>
      /\ \A t : Matching(t) \subseteq Event
  BY <1>1, Lookups DEF LookupTypes
<1>3. \A p : /\ InScope(p)' <=> InScope(p)
             /\ HasFoundARN(p)' <=> HasFoundARN(p)
  BY <1>1 DEF InScope, HasFoundARN
<1>4. \A i \in 1..Len(pipe') : pipe'[i] \in printed'
  BY <1>1 DEF ParseInv, ParseTypeOK
<1>5. CASE StartLookups
  <2>1. /\ phase' = "lookup" /\ lookups' = LookupTypes /\ unseen' = Matching(Head(LookupTypes))
        /\ page' = {} /\ setup.source = "api"
    BY <1>1, <1>5 DEF StartLookups
  <2>2. Head(LookupTypes) = LookupTypes[1] /\ 1 \in DOMAIN LookupTypes
    BY <1>2, TailOfSeq
  <2>3. ParseTypeOK'
    BY <1>1, <1>2, <1>4, <2>1 DEF ParseInv, ParseTypeOK
  <2>4. LookupsOK'
    BY <1>1, <1>2, <2>1, <2>2 DEF ParseInv, LookupsOK
  <2>5. InScopeOK'
    BY <1>1, <2>1 DEF InScopeOK
  <2>6. NoneMissing'
    <3>1. ASSUME NEW p \in Pair, InScope(p)
          PROVE  ToBeSeen(p[1])'
      <4>1. PICK i \in DOMAIN LookupTypes : p[1] \in Matching(LookupTypes[i])
        BY <1>1, <2>1, <3>1, Lookups
      <4>2. i = 1 \/ i > 1
        BY <1>2
      <4> QED
        BY <2>1, <2>2, <4>1, <4>2 DEF ToBeSeen
    <3> QED
      BY <1>3, <3>1 DEF NoneMissing
  <2> QED
    BY <2>3, <2>4, <2>5, <2>6 DEF ParseInv
<1>6. CASE ReadFile
  <2>1. /\ phase' = "print" /\ setup.source = "file" /\ UNCHANGED <<lookups, unseen>>
        /\ page' = {<<e, Identified[e]>> : e \in {x \in Event : Identified[x] # NoResource}}
    BY <1>1, <1>6 DEF ReadFile
  <2>2. page' \subseteq Pair
    BY <2>1, ParseAssumption DEF Pair, ParseAssumption
  <2>3. ParseTypeOK'
    BY <1>1, <1>4, <2>1, <2>2 DEF ParseInv, ParseTypeOK
  <2>4. LookupsOK'
    BY <1>1, <1>2, <2>1 DEF ParseInv, LookupsOK
  <2>5. InScopeOK'
    BY <1>1, <1>3, <2>1 DEF InScope, InScopeOK
  <2>6. NoneMissing'
    <3>1. ASSUME NEW p \in Pair, InScope(p)
          PROVE  p \in page'
      <4>1. p[1] \in Event /\ p[2] \in DOMAIN TypeIn /\ p = <<p[1], p[2]>>
        BY DEF Pair
      <4>2. p[2] = Identified[p[1]] /\ p[2] # NoResource
        BY <2>1, <3>1, <4>1, ParseAssumption DEF InScope, ParseAssumption
      <4> QED
        BY <2>1, <4>1, <4>2
    <3> QED
      BY <1>3, <3>1 DEF NoneMissing
  <2> QED
    BY <2>3, <2>4, <2>5, <2>6 DEF ParseInv
<1>7. CASE StartFails
  <2>1. phase' = "error" /\ UNCHANGED <<lookups, unseen, page>>
    BY <1>7 DEF StartFails
  <2>2. ParseTypeOK'
    BY <1>1, <1>4, <2>1 DEF ParseInv, ParseTypeOK
  <2>3. LookupsOK'
    BY <1>1, <1>2, <2>1 DEF ParseInv, LookupsOK
  <2> QED
    BY <1>1, <2>1, <2>2, <2>3 DEF ParseInv, InScopeOK, NoneMissing
<1> QED
  BY <1>5, <1>6, <1>7

\* An answer holds resources of the current lookup.
LEMMA LookupStep ==
  ASSUME ParseInv, LookupPage \/ LookupFails
  PROVE  ParseInv'
<1>1. /\ phase = "lookup" /\ setup \in Setups /\ page = {}
      /\ UNCHANGED <<setup, lookups, pipe, printed, unasked, absent>>
      /\ lookups \in Seq(LookupKey) /\ lookups # << >>
  BY DEF ParseInv, ParseTypeOK, LookupsOK, LookupPage, LookupFails
<1>2. LookupTypes' = LookupTypes /\ \A t : Matching(t) \subseteq Event
  BY <1>1, Lookups DEF LookupTypes
<1>3. \A p : /\ InScope(p)' <=> InScope(p)
             /\ HasFoundARN(p)' <=> HasFoundARN(p)
  BY <1>1 DEF InScope, HasFoundARN
<1>4. CASE LookupFails
  <2>1. phase' = "error" /\ page' = page /\ unseen' = unseen
    BY <1>4 DEF LookupFails
  <2>2. ParseTypeOK'
    BY <1>1, <1>4, <2>1, ParseAssumption DEF ParseInv, ParseTypeOK, LookupFails, ParseAssumption
  <2>3. LookupsOK'
    BY <1>1, <1>2, <2>1 DEF ParseInv, LookupsOK
  <2> QED
    BY <1>1, <1>3, <2>1, <2>2, <2>3 DEF ParseInv, InScopeOK, NoneMissing
<1>5. CASE LookupPage
  <2>1. PICK events \in SUBSET unseen :
          /\ page' = UNION {{e} \X ResourcesOf[e] : e \in events}
          /\ unseen' = unseen \ events
    BY <1>5 DEF LookupPage
  <2>2. phase' = "print" /\ failures' = failures
    BY <1>5 DEF LookupPage
  <2>3. events \subseteq Event /\ setup.source = "api"
    BY <1>1, Lookups DEF ParseInv, ParseTypeOK, LookupsOK
  <2>4. \A p \in page' : p \in Pair /\ p[1] \in events /\ p[2] \in ResourcesOf[p[1]]
    BY <2>1, <2>3, ParseAssumption DEF Pair, ParseAssumption
  <2>5. ParseTypeOK'
    BY <1>1, <2>1, <2>2, <2>4 DEF ParseInv, ParseTypeOK
  <2>6. LookupsOK'
    BY <1>1, <1>2, <2>1, <2>2 DEF ParseInv, LookupsOK
  <2>7. InScopeOK'
    <3>1. ASSUME NEW p \in page'
          PROVE  InScope(p)
      <4>1. p[1] \in Matching(lookups[1])
        BY <2>1, <2>4, <3>1 DEF ParseInv, LookupsOK
      <4>2. PICK j \in DOMAIN LookupTypes : lookups[1] = LookupTypes[j]
        BY <1>1 DEF ParseInv, LookupsOK
      <4> QED
        BY <1>1, <2>3, <2>4, <3>1, <4>1, <4>2, Lookups
    <3> QED
      BY <1>1, <1>3, <3>1 DEF ParseInv, InScopeOK
  <2>8. NoneMissing'
    <3>1. ASSUME NEW p \in Pair, InScope(p)
          PROVE  p \in page' \/ DealtWith(p) \/ ToBeSeen(p[1])'
      <4>1. DealtWith(p) \/ ToBeSeen(p[1])
        BY <1>1, <3>1 DEF ParseInv, NoneMissing
      <4>2. CASE p[1] \in events
        <5>1. p[1] \in Event /\ p = <<p[1], p[2]>> /\ p[2] \in ResourcesOf[p[1]]
          BY <1>1, <2>3, <3>1, Lookups DEF Pair
        <5>2. p \in {p[1]} \X ResourcesOf[p[1]]
          BY <5>1
        <5> QED
          BY <2>1, <4>2, <5>2
      <4>3. CASE p[1] \notin events
        BY <1>1, <2>1, <4>1, <4>3 DEF ToBeSeen, Matching
      <4> QED
        BY <4>2, <4>3
    <3>2. \A p : DealtWith(p)' <=> DealtWith(p)
      BY <1>1, <1>3 DEF DealtWith
    <3> QED
      BY <1>3, <3>1, <3>2 DEF NoneMissing
  <2> QED
    BY <2>5, <2>6, <2>7, <2>8 DEF ParseInv
<1> QED
  BY <1>4, <1>5

\* A resource leaves the page when it is printed or need not be.
LEMMA PrintStep ==
  ASSUME ParseInv, NEW p \in page, PrintResource(p)
  PROVE  ParseInv'
<1>1. /\ phase = "print" /\ setup \in Setups /\ page' = page \ {p} /\ p \in Pair
      /\ UNCHANGED <<setup, phase, lookups, unseen, absent>>
      /\ PrintWithARN(p) \/ AskForARN(p) \/ LeaveOut(p)
  BY DEF ParseInv, ParseTypeOK, PrintResource
<1>2. /\ \/ UNCHANGED <<pipe, printed>>
         \/ p \notin Filtered /\ pipe' = Append(pipe, p) /\ printed' = printed \cup {p}
      /\ unasked \subseteq unasked' /\ unasked' \subseteq unasked \cup {p}
      /\ failures' = failures \/ (failures < MaxLookupFaults /\ failures' = failures + 1)
  BY <1>1 DEF PrintWithARN, AskForARN, LeaveOut, Output, NoOutput
<1>3. DealtWith(p)'
  <2> SUFFICES ASSUME Named(p[2]), HasFoundARN(p)', p \notin Filtered, p \notin printed'
               PROVE  FALSE
    BY DEF DealtWith
  <2>1. ~Output(p)
    BY DEF Output
  <2>2. AskForARN(p) \/ LeaveOut(p)
    BY <1>1, <2>1 DEF PrintWithARN
  <2>3. CASE AskForARN(p)
    <3>1. p[2] \in Groups /\ (p[2] \in absent \/ p \in unasked')
      BY <2>1, <2>3 DEF AskForARN
    <3>2. TypeIn[p[2]] \notin HasARN
      BY <3>1 DEF Groups, AsksForARN, HasARN
    <3> QED
      BY <1>1, <3>1, <3>2 DEF HasFoundARN
  <2>4. CASE LeaveOut(p)
    BY <2>4 DEF LeaveOut, HasComputedARN, HasFoundARN
  <2> QED
    BY <2>2, <2>3, <2>4
<1>4. \A q : InScope(q)' <=> InScope(q)
  BY <1>1 DEF InScope
<1>5. \A q : DealtWith(q) => DealtWith(q)'
  BY <1>1, <1>2 DEF DealtWith, HasFoundARN
<1>6. /\ pipe' \in Seq(Pair) /\ \A i \in 1..Len(pipe') : pipe'[i] \in printed'
  <2>1. CASE UNCHANGED <<pipe, printed>>
    BY <2>1 DEF ParseInv, ParseTypeOK, LookupsOK
  <2>2. CASE pipe' = Append(pipe, p) /\ printed' = printed \cup {p}
    <3>1. pipe \in Seq(Pair) /\ \A i \in 1..Len(pipe) : pipe[i] \in printed
      BY DEF ParseInv, ParseTypeOK, LookupsOK
    <3> QED
      BY <1>1, <2>2, <3>1, AppendToSeq
  <2> QED
    BY <1>2, <2>1, <2>2
<1>7. ParseTypeOK'
  BY <1>1, <1>2, <1>6, ParseAssumption DEF ParseInv, ParseTypeOK, ParseAssumption
<1>8. LookupsOK'
  BY <1>1, <1>6 DEF ParseInv, LookupsOK, LookupTypes, Matching
<1>9. InScopeOK'
  BY <1>1, <1>2, <1>4 DEF ParseInv, InScopeOK
<1>10. NoneMissing'
  BY <1>1, <1>3, <1>4, <1>5 DEF ParseInv, NoneMissing, ToBeSeen, Matching
<1> QED
  BY <1>7, <1>8, <1>9, <1>10 DEF ParseInv

\* The lookups that are left are for what is still to be seen.
LEMMA FinishStep ==
  ASSUME ParseInv, FinishPage
  PROVE  ParseInv'
<1>1. /\ phase = "print" /\ page = {} /\ AfterPage /\ setup \in Setups
      /\ UNCHANGED <<setup, page, pipe, printed, unasked, absent, failures>>
      /\ lookups \in Seq(LookupKey)
      /\ unseen # {} => lookups # << >> /\ unseen \subseteq Matching(lookups[1])
      /\ \A i \in DOMAIN lookups : \E j \in DOMAIN LookupTypes : lookups[i] = LookupTypes[j]
  BY DEF ParseInv, ParseTypeOK, LookupsOK, FinishPage
<1>2. /\ LookupTypes' = LookupTypes /\ \A t : Matching(t) \subseteq Event
      /\ \A p : InScope(p)' <=> InScope(p)
      /\ \A p : DealtWith(p)' <=> DealtWith(p)
  BY <1>1, Lookups DEF LookupTypes, InScope, DealtWith, HasFoundARN
<1> DEFINE LookupsLeft ==
             /\ phase' \in {"lookup", "done"}
             /\ lookups' \in Seq(LookupKey)
             /\ \A i \in DOMAIN lookups' : \E j \in DOMAIN LookupTypes : lookups'[i] = LookupTypes[j]
             /\ unseen' # {} => lookups' # << >> /\ unseen' \subseteq Matching(lookups'[1])
             /\ unseen' \subseteq Event
             /\ lookups = << >> => lookups' = << >>
             /\ phase' = "lookup" => lookups' # << >>
             /\ phase' = "done" => unseen' = {} /\ Len(lookups') <= 1
           SeenLater == \A e : ToBeSeen(e) => phase' # "done" /\ ToBeSeen(e)'
<1>3. ASSUME unseen # {} PROVE LookupsLeft /\ SeenLater
  <2>1. phase' = "lookup" /\ lookups' = lookups /\ unseen' = unseen
    BY <1>1, <1>3 DEF AfterPage
  <2>2. LookupsLeft
    BY <1>1, <1>2, <1>3, <2>1 DEF ParseInv, ParseTypeOK
  <2>3. SeenLater
    BY <2>1 DEF ToBeSeen, Matching
  <2> QED
    BY <2>2, <2>3
<1>4. ASSUME unseen = {}, Len(lookups) > 1 PROVE LookupsLeft /\ SeenLater
  <2>1. /\ phase' = "lookup" /\ lookups' = Tail(lookups) /\ unseen' = Matching(lookups[2])
        /\ lookups # << >>
    BY <1>1, <1>4 DEF AfterPage
  <2>2. /\ Tail(lookups) \in Seq(LookupKey) /\ Tail(lookups) # << >> /\ Tail(lookups)[1] = lookups[2]
        /\ \A i \in DOMAIN Tail(lookups) : i + 1 \in DOMAIN lookups /\ Tail(lookups)[i] = lookups[i + 1]
        /\ \A i \in DOMAIN lookups : i = 1 \/ (i - 1 \in DOMAIN Tail(lookups) /\ Tail(lookups)[i - 1] = lookups[i])
        /\ DOMAIN lookups \subseteq Nat
    <3>1. /\ Tail(lookups) \in Seq(LookupKey)
          /\ \A i \in DOMAIN Tail(lookups) : i + 1 \in DOMAIN lookups /\ Tail(lookups)[i] = lookups[i + 1]
          /\ \A i \in DOMAIN lookups : i = 1 \/ (i - 1 \in DOMAIN Tail(lookups) /\ Tail(lookups)[i - 1] = lookups[i])
          /\ Len(Tail(lookups)) = Len(lookups) - 1 /\ Len(lookups) \in Nat
          /\ DOMAIN Tail(lookups) = 1..Len(Tail(lookups)) /\ DOMAIN lookups = 1..Len(lookups)
      BY <1>1, <2>1, TailOfSeq
    <3>2. 1 \in DOMAIN Tail(lookups) /\ DOMAIN lookups \subseteq Nat
      BY <1>4, <3>1
    <3>3. Tail(lookups) # << >>
      BY <3>1, <3>2
    <3>4. Tail(lookups)[1] = lookups[2]
      BY <3>1, <3>2
    <3> QED
      BY <3>1, <3>2, <3>3, <3>4
  <2>3. LookupsLeft
    BY <1>1, <1>2, <2>1, <2>2 DEF Matching
  <2>4. ASSUME NEW e, ToBeSeen(e)
        PROVE  ToBeSeen(e)'
    <3>1. PICK i \in DOMAIN lookups : i > 1 /\ e \in Matching(lookups[i])
      BY <1>4, <2>4 DEF ToBeSeen
    <3>2. CASE i = 2
      <4>1. e \in unseen'
        BY <2>1, <3>1, <3>2
      <4> QED
        BY <4>1 DEF ToBeSeen
    <3>3. CASE i > 2
      <4>1. i \in Nat /\ i # 1 /\ i - 1 > 1
        BY <2>2, <3>3
      <4>2. i - 1 \in DOMAIN lookups' /\ lookups'[i - 1] = lookups[i]
        BY <2>1, <2>2, <4>1
      <4>3. e \in Matching(lookups'[i - 1])
        BY <3>1, <4>2
      <4>4. \E k \in DOMAIN lookups' : k > 1 /\ e \in Matching(lookups'[k])
        BY <4>1, <4>2, <4>3
      <4> QED
        BY <4>4 DEF ToBeSeen, Matching
    <3> QED
      BY <2>2, <3>1, <3>2, <3>3
  <2> QED
    BY <2>1, <2>3, <2>4
<1>5. ASSUME unseen = {}, ~(Len(lookups) > 1) PROVE LookupsLeft /\ SeenLater
  <2>1. /\ phase' = "done" /\ UNCHANGED <<lookups, unseen>>
        /\ Len(lookups) <= 1 /\ \A i \in DOMAIN lookups : ~(i > 1)
    BY <1>1, <1>5 DEF AfterPage
  <2>2. LookupsLeft
    BY <1>1, <1>5, <2>1
  <2>3. SeenLater
    BY <1>5, <2>1 DEF ToBeSeen
  <2> QED
    BY <2>2, <2>3
<1>6. LookupsLeft /\ SeenLater
  BY <1>3, <1>4, <1>5
<1>7. ParseTypeOK'
  BY <1>1, <1>6 DEF ParseInv, ParseTypeOK
<1>8. LookupsOK'
  BY <1>1, <1>2, <1>6 DEF ParseInv, LookupsOK, Matching
<1>9. InScopeOK'
  BY <1>1, <1>2 DEF ParseInv, InScopeOK
<1>10. NoneMissing'
  BY <1>1, <1>2, <1>6 DEF ParseInv, NoneMissing
<1> QED
  BY <1>7, <1>8, <1>9, <1>10 DEF ParseInv

(***************************************************************************)
(* The pipe keeps the invariants of both.                                  *)
(***************************************************************************)

\* What is in the pipe can be tagged.
LEMMA PipeMembers ==
  ASSUME ParseInv, pipe # << >>
  PROVE  /\ Head(pipe) \in printed /\ Head(pipe) \in Pair /\ Head(pipe)[2] \in Resource
         /\ TagsOf[Head(pipe)[1]] \in TagSets
<1>1. Head(pipe) = pipe[1] /\ 1 \in 1..Len(pipe) /\ Head(pipe) \in Pair
  BY TailOfSeq DEF ParseInv, LookupsOK
<1>2. Head(pipe)[1] \in Event /\ Head(pipe)[2] \in DOMAIN TypeIn
  BY <1>1 DEF Pair
<1> QED
  BY <1>1, <1>2, PipeAssumption DEF ParseInv, ParseTypeOK, PipeAssumption

\* Each step of the pipe is a step of tag, or tag does nothing.
LEMMA PipeSteps ==
  ASSUME ParseInv, [PipeNext]_allVars
  PROVE  [Next]_vars
<1>1. CASE ReadRecord
  BY <1>1, PipeMembers DEF ReadRecord, Next, Program
<1> QED
  BY <1>1 DEF PipeNext, Producing, BrokenPipe, ReadEOF, Tagging, Waiting, allVars, Next, Program

LEMMA ParseInvStep ==
  ASSUME ParseInv, [PipeNext]_allVars
  PROVE  ParseInv'
<1>1. CASE ParseStep
  BY <1>1, StartStep, LookupStep, PrintStep, FinishStep DEF ParseStep
<1>2. ASSUME NEW r \in Groups, GroupDeleted(r)
      PROVE  ParseInv'
  <2>1. /\ UNCHANGED <<setup, phase, lookups, unseen, page, pipe, printed, unasked, failures>>
        /\ absent' = absent \cup {r}
    BY <1>2 DEF GroupDeleted
  <2>2. \A p : /\ InScope(p)' <=> InScope(p)
               /\ DealtWith(p) => DealtWith(p)'
    BY <2>1 DEF InScope, DealtWith, HasFoundARN
  <2>3. ParseTypeOK'
    BY <2>1 DEF ParseInv, ParseTypeOK
  <2>4. LookupsOK' /\ InScopeOK'
    BY <2>1, <2>2 DEF ParseInv, LookupsOK, InScopeOK, LookupTypes, Matching
  <2>5. NoneMissing'
    BY <2>1, <2>2 DEF ParseInv, NoneMissing, ToBeSeen, Matching
  <2> QED
    BY <2>3, <2>4, <2>5 DEF ParseInv
<1>3. CASE BrokenPipe
  <2>1. /\ UNCHANGED <<setup, lookups, unseen, page, pipe, printed, unasked, absent, failures>>
        /\ phase' = "error"
    BY <1>3 DEF BrokenPipe
  <2>2. \A p : InScope(p)' <=> InScope(p)
    BY <2>1 DEF InScope
  <2>3. ParseTypeOK'
    BY <2>1 DEF ParseInv, ParseTypeOK
  <2>4. LookupsOK'
    BY <2>1 DEF ParseInv, LookupsOK, LookupTypes, Matching
  <2> QED
    BY <2>1, <2>2, <2>3, <2>4 DEF ParseInv, InScopeOK, NoneMissing
<1>4. ASSUME UNCHANGED <<setup, phase, lookups, unseen, page, printed, unasked, absent, failures>>,
             pipe' = pipe \/ (pipe # << >> /\ pipe' = Tail(pipe))
      PROVE  ParseInv'
  <2>1. \A p : /\ InScope(p)' <=> InScope(p)
               /\ DealtWith(p)' <=> DealtWith(p)
    BY <1>4 DEF InScope, DealtWith, HasFoundARN
  <2>2. pipe' \in Seq(Pair) /\ \A i \in 1..Len(pipe') : pipe'[i] \in printed
    <3>1. pipe \in Seq(Pair) /\ \A i \in 1..Len(pipe) : pipe[i] \in printed
      BY DEF ParseInv, ParseTypeOK, LookupsOK
    <3> QED
      BY <1>4, <3>1, TailOfSeq
  <2>3. ParseTypeOK'
    BY <1>4, <2>2 DEF ParseInv, ParseTypeOK
  <2>4. LookupsOK' /\ InScopeOK'
    BY <1>4, <2>1, <2>2 DEF ParseInv, LookupsOK, InScopeOK, LookupTypes, Matching
  <2>5. NoneMissing'
    BY <1>4, <2>1 DEF ParseInv, NoneMissing, ToBeSeen, Matching
  <2> QED
    BY <2>3, <2>4, <2>5 DEF ParseInv
<1>5. CASE ReadRecord
  BY <1>4, <1>5 DEF ReadRecord
<1>6. CASE ReadEOF \/ Tagging \/ Waiting \/ UNCHANGED allVars
  BY <1>4, <1>6 DEF ReadEOF, Tagging, Waiting, allVars, parseVars
<1> QED
  BY <1>1, <1>2, <1>3, <1>5, <1>6 DEF PipeNext, Producing

\* Which tags are those of a map of tags.
LEMMA TagPairs ==
  ASSUME NEW r \in Resource, NEW m \in TagMap
  PROVE  /\ Pairs(r, m) \subseteq {r} \X Tag
         /\ \A t \in Tag : <<r, t>> \in Pairs(r, m) <=> m[t.key] = t.value
BY TagsInMap DEF Pairs

\* What tag reads of a name is given, and it reads nothing of what it cannot tag.
LEMMA GivenOnReading ==
  ASSUME TypeOK, OnlyGiven, NEW r \in Resource, NEW m \in TagMap, DecodeInput(r, m)
  PROVE  OnlyGiven'
<1>1. Bucketed(r, m) /\ awsTags' = awsTags /\ given \subseteq given'
  BY DEF DecodeInput
<1>2. CASE r \notin Name
  <2>1. /\ nameBuckets' = nameBuckets /\ \A q \in Name : wanted'[q] = wanted[q]
        /\ given' \subseteq given \cup Pairs(r, m)
    BY <1>1, <1>2, BucketedCases, Classes DEF DecodeInput, AddARNToBuckets, TypeOK
  <2>2. \A q \in Name : \A t \in Tag : <<q, t>> \in given' => <<q, t>> \in given
    BY <1>2, <2>1, TagPairs
  <2> QED
    BY <1>1, <2>1, <2>2 DEF OnlyGiven, NameGiven
<1>3. CASE r \in Name
  <2> DEFINE b == IF nameBuckets[r] = None THEN NoTags ELSE nameBuckets[r]
  <2>1. /\ nameBuckets'[r] = Merge(b, m)
        /\ \A q \in Name \ {r} : nameBuckets'[q] = nameBuckets[q]
    BY <1>1, <1>3, BucketedCases DEF AddResourceNameToBucket, TypeOK
  <2>2. /\ wanted'[r] = Merge(wanted[r], m)
        /\ \A q \in Name \ {r} : wanted'[q] = wanted[q]
        /\ given' = given \cup Pairs(r, m)
    BY <1>3, Classes DEF DecodeInput, TypeOK
  <2>3. b \in TagMap /\ wanted[r] \in TagMap
    BY <1>3, Classes DEF TypeOK, NoTags, TagMap
  <2>4. \A k \in Key : /\ Merge(b, m)[k] = (IF m[k] = None THEN b[k] ELSE m[k])
                        /\ Merge(wanted[r], m)[k] = (IF m[k] = None THEN wanted[r][k] ELSE m[k])
    BY <2>3, MergeType
  <2>5. \A t \in Tag : b[t.key] = t.value => <<r, t>> \in given
    BY <1>3, TagsInMap DEF OnlyGiven, NameGiven, NoTags
  <2> HIDE DEF b
  <2>6. ASSUME NEW t \in Tag PROVE NameGiven(r, t)'
    <3>1. t.key \in Key /\ t.value # None /\ (<<r, t>> \in Pairs(r, m) <=> m[t.key] = t.value)
      BY TagPairs, TagsInMap
    <3>2. NameGiven(r, t)
      BY <1>3 DEF OnlyGiven
    <3>3. nameBuckets'[r][t.key] = t.value => <<r, t>> \in given'
      BY <2>1, <2>2, <2>4, <2>5, <3>1
    <3>4. awsTags'[r][t.key] = t.value => <<r, t>> \in given'
      BY <1>1, <3>2 DEF NameGiven
    <3>5. wanted'[r][t.key] = t.value => <<r, t>> \in given'
      BY <2>2, <2>4, <3>1, <3>2 DEF NameGiven
    <3>6. <<r, t>> \in given' => wanted'[r][t.key] # None
      BY <2>2, <2>4, <3>1, <3>2 DEF NameGiven
    <3> QED
      BY <3>3, <3>4, <3>5, <3>6 DEF NameGiven
  <2>7. ASSUME NEW q \in Name \ {r}, NEW t \in Tag PROVE NameGiven(q, t)'
    <3>1. NameGiven(q, t) /\ nameBuckets'[q] = nameBuckets[q] /\ wanted'[q] = wanted[q]
      BY <2>1, <2>2 DEF OnlyGiven
    <3>2. <<q, t>> \in given' <=> <<q, t>> \in given
      BY <1>3, <2>2, Classes, TagPairs
    <3> QED
      BY <1>1, <3>1, <3>2 DEF NameGiven
  <2> QED
    BY <1>1, <2>6, <2>7 DEF OnlyGiven
<1> QED
  BY <1>2, <1>3

LEMMA OnlyGivenStep ==
  ASSUME TypeOK, SendingOK, OnlyGiven, [Next]_vars
  PROVE  OnlyGiven'
<1>1. CASE UNCHANGED <<given, wanted, nameBuckets, awsTags>>
  BY <1>1 DEF OnlyGiven, NameGiven
<1>2. ASSUME NEW r \in Resource, NEW m \in TagSets, DecodeInput(r, m) PROVE OnlyGiven'
  <2>1. m \in TagMap
    BY TaggerAssumption DEF TaggerAssumption
  <2> QED
    BY <1>2, <2>1, GivenOnReading
<1>3. ASSUME NEW t \in Tag, EjectARNs(t) PROVE OnlyGiven'
  <2>1. UNCHANGED <<given, wanted, nameBuckets>>
    BY <1>3 DEF EjectARNs, decodeVars, nameVars
  <2>2. \A r \in Resource \ Arn : awsTags'[r] = awsTags[r]
    <3>1. ASSUME NEW R \in SUBSET Arn, TagARNs(R, t)
          PROVE  \A r \in Resource \ Arn : awsTags'[r] = awsTags[r]
      BY <3>1 DEF TagARNs
    <3>2. arnBuckets[t] \in SUBSET Arn
      BY DEF TypeOK
    <3> QED
      BY <1>3, <3>1, <3>2 DEF EjectARNs
  <2> QED
    BY <2>1, <2>2, Classes DEF OnlyGiven, NameGiven
<1>4. CASE ClearNames
  <2>1. UNCHANGED <<given, wanted, awsTags>>
    BY <1>4 DEF ClearNames, decodeVars
  <2>2. \A r \in Name : nameBuckets'[r] # None => nameBuckets'[r] = nameBuckets[r]
    BY <1>4 DEF ClearNames
  <2> QED
    BY <2>1, <2>2 DEF OnlyGiven, NameGiven
<1>5. ASSUME NEW r \in sending, TagName(r) PROVE OnlyGiven'
  <2>1. r \in Name /\ nameBuckets[r] # None /\ nameBuckets[r] \in TagMap /\ awsTags[r] \in TagMap
    BY Classes DEF SendingOK, NamesOf, TypeOK
  <2>2. UNCHANGED <<given, wanted, nameBuckets>>
    BY <1>5 DEF TagName, decodeVars
  <2>3. CASE awsTags' = awsTags
    BY <2>2, <2>3 DEF OnlyGiven, NameGiven
  <2>4. CASE awsTags' = [awsTags EXCEPT ![r] = Merge(@, nameBuckets[r])]
    <3>1. /\ awsTags'[r] = Merge(awsTags[r], nameBuckets[r])
          /\ \A q \in Resource \ {r} : awsTags'[q] = awsTags[q]
      BY <2>1, <2>4, Classes DEF TypeOK
    <3>2. \A t \in Tag : t.key \in Key /\ (awsTags'[r][t.key] \in {awsTags[r][t.key], nameBuckets[r][t.key]})
      BY <2>1, <3>1, MergeType, TagsInMap
    <3> QED
      BY <2>1, <2>2, <3>1, <3>2, Classes DEF OnlyGiven, NameGiven
  <2> QED
    BY <1>5, <2>3, <2>4 DEF TagName
<1>6. CASE Idle
  BY <1>1, <1>6 DEF Idle, nameVars
<1>7. CASE ARNsDone \/ NamesDone \/ \E rt \in NamedType : EjectNames(rt)
  BY <1>1, <1>7 DEF ARNsDone, NamesDone, EjectNames, decodeVars, nameVars
<1> QED
  BY <1>2, <1>3, <1>4, <1>5, <1>6, <1>7, Steps

\* What is read from the pipe.
LEMMA ReadRecordIs ==
  ASSUME ReadRecord, NEW p, p = Head(pipe)
  PROVE  /\ pipe # << >> /\ pipe' = Tail(pipe) /\ DecodeInput(p[2], TagsOf[p[1]])
         /\ UNCHANGED <<phase, printed>>
BY DEF ReadRecord

\* What parse prints is in the pipe until tag reads it.
LEMMA PrintedStep ==
  ASSUME ParseInv, TypeOK, PrintedIsRead, [PipeNext]_allVars
  PROVE  PrintedIsRead'
<1> DEFINE Read(p) == p[2] \in Arn \cup Name => Pairs(p[2], TagsOf[p[1]]) \subseteq given
           Given(q) == \E p \in printed : p[2] = q[1] /\ TagsOf[p[1]][q[2].key] = q[2].value
<1>1. pipe \in Seq(Pair)
  BY DEF ParseInv, LookupsOK
<1>2. CASE ParseStep /\ UNCHANGED vars
  <2>1. ~isEOF /\ isEOF' = isEOF /\ given' = given
    BY <1>2
       DEF PrintedIsRead, ParseEnded, vars, decodeVars, ParseStep, StartLookups, ReadFile,
           StartFails, LookupPage, LookupFails, PrintResource, FinishPage
  <2>2. \/ UNCHANGED <<pipe, printed>>
        \/ \E p \in page : pipe' = Append(pipe, p) /\ printed' = printed \cup {p}
    BY <1>2
       DEF ParseStep, StartLookups, ReadFile, StartFails, LookupPage, LookupFails, PrintResource,
           PrintWithARN, AskForARN, LeaveOut, Output, NoOutput, FinishPage
  <2>3. CASE UNCHANGED <<pipe, printed>>
    BY <2>1, <2>3 DEF PrintedIsRead
  <2>4. ASSUME NEW p \in page, pipe' = Append(pipe, p), printed' = printed \cup {p}
        PROVE  PrintedIsRead'
    <3>1. p \in Pair
      BY DEF ParseInv, ParseTypeOK
    <3>2. /\ \E i \in DOMAIN pipe' : pipe'[i] = p
          /\ \A i \in DOMAIN pipe : i \in DOMAIN pipe' /\ pipe'[i] = pipe[i]
      <4>1. /\ DOMAIN pipe' = 1..(Len(pipe) + 1) /\ DOMAIN pipe = 1..Len(pipe) /\ Len(pipe) \in Nat
            /\ pipe'[Len(pipe) + 1] = p /\ \A i \in 1..Len(pipe) : pipe'[i] = pipe[i]
        BY <1>1, <2>4, <3>1, AppendToSeq
      <4> QED
        BY <4>1
    <3>3. \A q \in printed' : (\E i \in DOMAIN pipe' : pipe'[i] = q) \/ Read(q)'
      BY <2>1, <2>4, <3>2 DEF PrintedIsRead
    <3>4. \A q \in given' : Given(q)'
      BY <2>1, <2>4 DEF PrintedIsRead
    <3> QED
      BY <2>1, <3>3, <3>4 DEF PrintedIsRead
  <2> QED
    BY <2>2, <2>3, <2>4
<1>3. CASE (BrokenPipe \/ \E r \in Groups : GroupDeleted(r)) /\ UNCHANGED vars
  <2>1. /\ UNCHANGED <<pipe, printed, given, isEOF>> /\ phase' \in {phase, "error"}
    BY <1>3 DEF BrokenPipe, GroupDeleted, vars, decodeVars
  <2> QED
    BY <2>1 DEF PrintedIsRead, ParseEnded
<1>4. CASE ReadRecord
  <2> PICK p : p = Head(pipe)
    OBVIOUS
  <2> DEFINE m == TagsOf[p[1]]
  <2>1. /\ pipe # << >> /\ pipe' = Tail(pipe) /\ DecodeInput(p[2], m)
        /\ UNCHANGED <<phase, printed>> /\ ~isEOF
    BY <1>4, ReadRecordIs DEF PrintedIsRead
  <2>2. p \in printed /\ p[2] \in Resource /\ m \in TagMap
    BY <2>1, PipeMembers, TaggerAssumption DEF TaggerAssumption
  <2>3. /\ p = pipe[1]
        /\ \A i \in DOMAIN pipe : i = 1 \/ \E j \in DOMAIN pipe' : pipe'[j] = pipe[i]
    BY <1>1, <2>1, TailOfSeq
  <2>4. isEOF' = isEOF /\ given' = IF p[2] \in Arn \cup Name THEN given \cup Pairs(p[2], m) ELSE given
    BY <2>1 DEF DecodeInput
  <2>5. Read(p)'
    BY <2>4
  <2>6. ASSUME NEW q \in printed' PROVE (\E i \in DOMAIN pipe' : pipe'[i] = q) \/ Read(q)'
    <3>1. CASE q = p
      BY <2>5, <3>1
    <3>2. CASE Read(q)
      BY <2>4, <3>2
    <3>3. CASE q # p /\ \E i \in DOMAIN pipe : pipe[i] = q
      BY <2>3, <3>3
    <3> QED
      BY <2>1, <3>1, <3>2, <3>3 DEF PrintedIsRead
  <2>7. ASSUME NEW q \in given' PROVE Given(q)'
    <3>1. CASE q \in given
      BY <2>1, <3>1 DEF PrintedIsRead
    <3>2. CASE q \in Pairs(p[2], m)
      <4>1. /\ q \in {p[2]} \X Tag /\ q = <<q[1], q[2]>>
            /\ \A t \in Tag : <<p[2], t>> \in Pairs(p[2], m) <=> m[t.key] = t.value
        BY <2>2, <3>2, TagPairs
      <4>2. q[1] = p[2] /\ m[q[2].key] = q[2].value
        BY <3>2, <4>1
      <4> QED
        BY <2>1, <2>2, <4>2
    <3> QED
      BY <2>4, <3>1, <3>2
  <2> QED
    BY <2>1, <2>4, <2>6, <2>7 DEF PrintedIsRead
<1>5. CASE ReadEOF
  <2>1. pipe = << >> /\ ParseEnded /\ given' = given /\ UNCHANGED parseVars
    BY <1>5 DEF ReadEOF, DecodeEOF
  <2> QED
    BY <2>1 DEF parseVars, PrintedIsRead, ParseEnded
<1>6. CASE Tagging \/ Waiting \/ UNCHANGED allVars
  <2>1. UNCHANGED <<phase, pipe, printed, given, isEOF>>
    BY <1>6 DEF Tagging, Waiting, EjectARNs, ARNsDone, EjectNames, TagName, ClearNames, NamesDone,
                Tick, allVars, parseVars, vars, decodeVars
  <2> QED
    BY <2>1 DEF PrintedIsRead, ParseEnded
<1> QED
  BY <1>2, <1>3, <1>4, <1>5, <1>6 DEF PipeNext, Producing, BrokenPipe

LEMMA DoneStep ==
  ASSUME DoneAtEOF, [Next]_vars
  PROVE  DoneAtEOF'
<1>1. CASE Idle
  <2>1. pc' = "done" => pc = "done" /\ (isEOF' = isEOF \/ isEOF' = TRUE)
    BY <1>1
       DEF Idle, DecodeEOF, DecodeFails, DecodeFailsAgain, Tick, Terminated, vars, decodeVars
  <2> QED
    BY <2>1 DEF DoneAtEOF
<1>2. ASSUME NEW r \in Resource, NEW m \in TagSets, DecodeInput(r, m) PROVE DoneAtEOF'
  BY <1>2 DEF DecodeInput, DoneAtEOF
<1>3. ASSUME NEW t \in Tag, EjectARNs(t) PROVE DoneAtEOF'
  BY <1>3 DEF EjectARNs, DoneAtEOF
<1>4. CASE ARNsDone \/ NamesDone
  BY <1>4 DEF ARNsDone, NamesDone, decodeVars, DoneAtEOF
<1>5. CASE ClearNames \/ \E rt \in NamedType : EjectNames(rt)
  BY <1>5 DEF ClearNames, EjectNames, decodeVars, DoneAtEOF
<1>6. ASSUME NEW r \in sending, TagName(r) PROVE DoneAtEOF'
  BY <1>6 DEF TagName, AfterError, DoneAtEOF
<1> QED
  BY <1>1, <1>2, <1>3, <1>4, <1>5, <1>6, Steps

LEMMA PipeInvInit == PipeInit => PipeInv
<1> SUFFICES ASSUME PipeInit PROVE PipeInv
  OBVIOUS
<1>1. ParseInv /\ TagInv
  BY ParseInvInit, TagInit DEF PipeInit
<1>2. /\ nameBuckets = [r \in Name |-> None] /\ given = {} /\ isEOF = FALSE /\ printed = {}
      /\ awsTags = [r \in Resource |-> NoTags] /\ wanted = [r \in Resource |-> NoTags]
  BY DEF PipeInit, ParseInit, Init
<1>3. OnlyGiven
  <2>1. \A t \in Tag : NoTags[t.key] = None /\ t.value # None
    BY TaggerAssumption DEF NoTags, Tag, TaggerAssumption
  <2>2. \A r \in Name : nameBuckets[r] = None /\ awsTags[r] = NoTags /\ wanted[r] = NoTags
    BY <1>2, Classes
  <2> QED
    BY <1>2, <2>1, <2>2 DEF OnlyGiven, NameGiven
<1>4. PrintedIsRead
  BY <1>2 DEF PrintedIsRead
<1>5. DoneAtEOF
  BY <1>2 DEF PipeInit, Init, DoneAtEOF
<1> QED
  BY <1>1, <1>3, <1>4, <1>5 DEF PipeInv

LEMMA PipeInvStep == PipeInv /\ [PipeNext]_allVars => PipeInv'
<1> SUFFICES ASSUME PipeInv, [PipeNext]_allVars PROVE PipeInv'
  OBVIOUS
<1>1. ParseInv' /\ [Next]_vars
  BY ParseInvStep, PipeSteps DEF PipeInv
<1>2. TagInv'
  BY <1>1, TypeStep, SendingStep, BoundedStep, LastStep, SentStep, DroppedStep, EmptiedStep,
     NamesTaggedStep, ARNsTaggedStep
     DEF PipeInv, TagInv
<1>3. OnlyGiven' /\ PrintedIsRead' /\ DoneAtEOF'
  BY <1>1, OnlyGivenStep, PrintedStep, DoneStep DEF PipeInv, TagInv
<1> QED
  BY <1>1, <1>2, <1>3 DEF PipeInv

\* What parse is asked for and what it has printed, and where the tags of what it has
\* printed are, agree at every moment of the two commands: the inductive invariant.
THEOREM PipeInvariant == PipeSpec => []PipeInv
BY PipeInvInit, PipeInvStep, PTL DEF PipeSpec

\* The variables of parse keep their types.
THEOREM ParseTypes == PipeSpec => []ParseTypeOK
<1>1. PipeInv => ParseTypeOK
  BY DEF PipeInv, ParseInv
<1> QED
  BY PipeInvariant, <1>1, PTL

\* Read by the output of parse, tag behaves as on a stream of inputs: all that is
\* proved of the tagger holds in the pipe.
THEOREM PipeImplementsTagger == PipeSpec => Spec
<1>1. PipeInit => Init
  BY DEF PipeInit
<1>2. PipeInv /\ [PipeNext]_allVars => [Next]_vars
  BY PipeSteps DEF PipeInv
<1> QED
  BY PipeInvariant, <1>1, <1>2, PTL DEF PipeSpec, Spec

(***************************************************************************)
(* The correctness of parse.                                               *)
(***************************************************************************)

\* No page is left and no lookup, so nothing is missing.
LEMMA PrintedAtTheEnd == ParseInv => WindowIsPrinted
<1> SUFFICES ASSUME ParseInv PROVE WindowIsPrinted
  OBVIOUS
<1>1. ASSUME phase = "done", NEW p \in Pair, InScope(p), Named(p[2]), HasFoundARN(p), p \notin Filtered
      PROVE  p \in printed
  <2>1. page = {} /\ unseen = {} /\ Len(lookups) <= 1 /\ lookups \in Seq(LookupKey)
    BY <1>1 DEF ParseInv, LookupsOK
  <2>2. ~ToBeSeen(p[1])
    <3>1. DOMAIN lookups = 1..Len(lookups) /\ Len(lookups) \in Nat
      BY <2>1
    <3>2. \A i \in DOMAIN lookups : ~(i > 1)
      BY <2>1, <3>1
    <3> QED
      BY <2>1, <3>2 DEF ToBeSeen
  <2>3. DealtWith(p)
    BY <1>1, <2>1, <2>2 DEF ParseInv, NoneMissing
  <2> QED
    BY <1>1, <2>3 DEF DealtWith
<1>2. \A p \in printed : InScope(p) /\ p \notin Filtered
  BY DEF ParseInv, InScopeOK
<1> QED
  BY <1>1, <1>2 DEF WindowIsPrinted

\* When parse ends well, every resource of the window with a name and an ARN which
\* the filter lets pass is printed, over all pages of all lookups and whatever tag
\* does meanwhile, and nothing else with a name ever is.
THEOREM WindowIsPrintedHolds == PipeSpec => []WindowIsPrinted
<1>1. PipeInv => WindowIsPrinted
  BY PrintedAtTheEnd DEF PipeInv
<1> QED
  BY PipeInvariant, <1>1, PTL

(***************************************************************************)
(* The correctness of the pipe.                                            *)
(***************************************************************************)

\* A tag in AWS was given for its resource, so it was read, so it was printed.
LEMMA TagsArePrinted == PipeInv => TagsComeFromItsEvents
<1> SUFFICES ASSUME PipeInv, NEW r \in Resource, NEW k \in Key, awsTags[r][k] # None
             PROVE  awsTags[r][k] \in ValuesFor(r, k)
  BY DEF TagsComeFromItsEvents
<1> DEFINE t == [key |-> k, value |-> awsTags[r][k]]
<1>1. awsTags[r][k] \in Value
  BY DEF PipeInv, TagInv, TypeOK, TagMap
<1>2. t \in Tag /\ t.key = k /\ t.value = awsTags[r][k]
  BY <1>1 DEF Tag
<1> HIDE DEF t
<1>3. <<r, t>> \in given
  <2>1. CASE r \in Arn
    BY <1>2, <2>1 DEF PipeInv, TagInv, ARNsTagged
  <2>2. CASE r \in Name
    BY <1>2, <2>2 DEF PipeInv, OnlyGiven, NameGiven
  <2>3. r \in Arn \cup Name
    BY DEF PipeInv, OnlyGiven, NoTags
  <2> QED
    BY <2>1, <2>2, <2>3
<1>4. PICK p \in printed : p[2] = r /\ TagsOf[p[1]][k] = awsTags[r][k]
  BY <1>2, <1>3 DEF PipeInv, PrintedIsRead
<1> QED
  BY <1>4 DEF ValuesFor

\* No resource is given a tag made of another resource's events, whatever is
\* batched with it, whichever requests fail and whenever a command ends.
THEOREM TagsComeFromItsEventsHolds == PipeSpec => []TagsComeFromItsEvents
<1>1. PipeInv => TagsComeFromItsEvents
  BY TagsArePrinted
<1> QED
  BY PipeInvariant, <1>1, PTL

\* A tag that was given has left a value for its key, its own or a later one, or
\* the request for it has failed.
LEMMA GivenIsInAWS ==
  ASSUME TagInv, OnlyGiven, pc = "done", ~cfg.dryRun, NEW r \in Resource, NEW t \in Tag,
         <<r, t>> \in given
  PROVE  \/ awsTags[r][t.key] # None
         \/ \E u \in Tag : u.key = t.key /\ <<r, u>> \in lost
<1>1. t.key \in Key /\ \A u \in Tag : u.value # None
  BY TagsInMap DEF NoTags, Tag, TagMap, TaggerAssumption
<1>2. ASSUME NEW u \in Tag, u.key = t.key, <<r, u>> \in given, <<r, u>> \notin lost,
             ~Superseded(r, u)
      PROVE  awsTags[r][t.key] # None
  BY <1>1, <1>2, TaggedAtTheEnd DEF DoneMeansTagged
<1>3. CASE ~Superseded(r, t)
  BY <1>2, <1>3
<1>4. CASE Superseded(r, t)
  <2> DEFINE u == [key |-> t.key, value |-> wanted[r][t.key]]
  <2>1. r \in Name /\ wanted[r][t.key] # None
    BY <1>4 DEF Superseded, OnlyGiven, NameGiven
  <2>2. wanted[r][t.key] \in Value
    BY <1>1, <2>1 DEF TagInv, TypeOK, TagMap
  <2>3. u \in Tag /\ u.key = t.key /\ u.value = wanted[r][t.key]
    BY <1>1, <2>2 DEF Tag
  <2> HIDE DEF u
  <2>4. <<r, u>> \in given
    BY <2>1, <2>3 DEF OnlyGiven, NameGiven
  <2>5. ~Superseded(r, u)
    BY <2>3 DEF Superseded
  <2> QED
    BY <1>2, <2>3, <2>4, <2>5
<1> QED
  BY <1>3, <1>4

\* When both commands end well, every taggable resource of the window that is
\* to be printed has a value for each of its keys in AWS, made of its own events,
\* unless a request for it failed.
THEOREM WindowIsTaggedHolds == PipeSpec => []WindowIsTagged
<1>1. PipeInv => WindowIsTagged
  <2> SUFFICES ASSUME PipeInv, phase = "done", pc = "done", ~cfg.dryRun, NEW p \in Pair,
                      InScope(p), Named(p[2]), HasFoundARN(p), p \notin Filtered,
                      p[2] \in Arn \cup Name, NEW t \in TagsIn(TagsOf[p[1]])
               PROVE  \/ awsTags[p[2]][t.key] \in ValuesFor(p[2], t.key) \ {None}
                      \/ \E u \in Tag : u.key = t.key /\ <<p[2], u>> \in lost
    BY DEF WindowIsTagged
  <2>1. p \in printed
    BY PrintedAtTheEnd DEF PipeInv, WindowIsPrinted
  <2>2. pipe = << >>
    BY DEF PipeInv, PrintedIsRead, DoneAtEOF
  <2>3. ~\E i \in DOMAIN pipe : pipe[i] = p
    BY <2>2
  <2>4. Pairs(p[2], TagsOf[p[1]]) \subseteq given
    BY <2>1, <2>3 DEF PipeInv, PrintedIsRead
  <2>5. t \in Tag /\ t.key \in Key /\ p[2] \in Resource
    BY Classes DEF TagsIn, Tag
  <2>6. <<p[2], t>> \in given
    BY <2>4 DEF Pairs
  <2>7. \/ awsTags[p[2]][t.key] # None
        \/ \E u \in Tag : u.key = t.key /\ <<p[2], u>> \in lost
    BY <2>5, <2>6, GivenIsInAWS DEF PipeInv
  <2>8. awsTags[p[2]][t.key] # None => awsTags[p[2]][t.key] \in ValuesFor(p[2], t.key)
    BY <2>5, TagsArePrinted DEF TagsComeFromItsEvents
  <2> QED
    BY <2>7, <2>8
<1> QED
  BY PipeInvariant, <1>1, PTL
=============================================================================
