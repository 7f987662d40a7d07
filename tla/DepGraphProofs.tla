--------------------------- MODULE DepGraphProofs ---------------------------
(***************************************************************************)
(* Proofs about `grafiti delete --all-deps': filling the map keeps what    *)
(* the proofs about the run need of it, so they hold for the run that      *)
(* follows; what the traversal adds has an owner.                          *)
(***************************************************************************)
EXTENDS DepGraph, DeleteRunSafeProofs, FiniteSetTheorems

(***************************************************************************)
(* Adding names.                                                           *)
(***************************************************************************)

\* A name is there a second time only if it is there a first time.
LEMMA OccurrencesInOrder ==
  ASSUME NEW t, NEW ask, NEW o, TypeOK, t \in Type, o \in Object,
         <<o, 2>> \in names[TypeOf[o]] => <<o, 1>> \in names[TypeOf[o]],
         2 \in NewOccurrences(t, ask, o)
  PROVE  1 \in Occurrences(o) \cup NewOccurrences(t, ask, o)
<1>1. CASE 1 \in Occurrences(o)
  BY <1>1
<1>2. CASE 1 \notin Occurrences(o)
  <2>1. Occurrences(o) = {}
    BY <1>2 DEF Occurrences, Occurrence
  <2>2. Cardinality(Occurrences(o)) = 0
    BY <2>1, FS_EmptySet
  <2>3. TimesFound(t, ask, o) \in Nat
    <3>1. {p \in Owners(t, ask) : o \in Linked[p]} \subseteq Object
      BY DEF Owners, NamedOf, Objects, TypeOK
    <3>2. Cardinality({p \in Owners(t, ask) : o \in Linked[p]}) \in Nat
      BY <3>1, LinkedAssumption, FS_Subset, FS_CardinalityType DEF LinkedAssumption
    <3> QED
      BY <3>2 DEF TimesFound
  <2> QED
    BY <2>2, <2>3 DEF NewOccurrences, Occurrence
<1> QED
  BY <1>1, <1>2

\* What is found is filed under its type.
LEMMA NamesAdded ==
  ASSUME IInv, NamesGiven, NEW t \in Type, NEW ask, NEW found \in SUBSET Object,
         \A o \in found : cloud[o] # "unborn",
         ask.own => \A o \in found : TypeOf[o] = t,
         cloud' = cloud, AddResourceNames(t, ask, found)
  PROVE  /\ names' \in [Type -> SUBSET (Object \X Occurrence)]
         /\ NamesOK' /\ NamesGiven'
         /\ todo' = {u \in Type : names'[u] # {}}
<1> DEFINE Added(u) == UNION {{o} \X NewOccurrences(t, ask, o) : o \in {p \in found : TypeOf[p] = u}}
<1>1. /\ names' = [u \in Type |-> IF ask.own /\ u = t THEN found \X {1} ELSE names[u] \cup Added(u)]
      /\ todo' = {u \in Type : names'[u] # {}}
  BY DEF AddResourceNames
<1>2. names \in [Type -> SUBSET (Object \X Occurrence)] /\ NamesOK
  BY DEF IInv, TypeOK
<1>3. \A u \in Type : \A n \in Added(u) :
        /\ n \in Object \X Occurrence /\ n[1] \in found /\ TypeOf[n[1]] = u
        /\ n[2] \in NewOccurrences(t, ask, n[1])
  BY DEF NewOccurrences
<1>4. \A n \in found \X {1} : n \in Object \X Occurrence /\ n[1] \in found /\ n[2] = 1
  BY DEF Occurrence
<1> HIDE DEF Added
<1>5. names' \in [Type -> SUBSET (Object \X Occurrence)]
  <2>1. \A u \in Type : names[u] \cup Added(u) \subseteq Object \X Occurrence
    BY <1>2, <1>3
  <2>2. found \X {1} \subseteq Object \X Occurrence
    BY <1>4
  <2> QED
    BY <1>1, <2>1, <2>2
<1>6. ASSUME NEW u \in Type, NEW n \in names'[u] PROVE TypeOf[n[1]] = u
  <2>1. n \in names[u] \/ n \in Added(u) \/ (ask.own /\ u = t /\ n \in found \X {1})
    BY <1>1, <1>6
  <2> QED
    BY <1>2, <1>3, <1>4, <2>1 DEF NamesOK
<1>7. ASSUME NEW u \in Type, NEW n \in names'[u] PROVE cloud[n[1]] # "unborn"
  <2>1. n \in names[u] \/ n \in Added(u) \/ (ask.own /\ u = t /\ n \in found \X {1})
    BY <1>1, <1>7
  <2> QED
    BY <1>3, <1>4, <2>1 DEF NamesGiven
<1>8. ASSUME NEW u \in Type, NEW n \in names'[u] PROVE n[2] = 1 \/ <<n[1], 1>> \in names'[u]
  <2>1. CASE ask.own /\ u = t
    BY <1>1, <1>4, <1>8, <2>1
  <2>2. CASE ~(ask.own /\ u = t)
    <3>1. names'[u] = names[u] \cup Added(u)
      BY <1>1, <2>2
    <3>2. CASE n \in names[u]
      BY <3>1, <3>2 DEF NamesGiven
    <3>3. CASE n \in Added(u)
      <4> DEFINE o == n[1]
      <4>1. o \in Object /\ o \in found /\ TypeOf[o] = u /\ n[2] \in {1, 2}
            /\ n[2] \in NewOccurrences(t, ask, o)
        BY <1>3, <3>3 DEF Occurrence
      <4>2. <<o, 2>> \in names[u] => <<o, 1>> \in names[u]
        BY DEF NamesGiven
      <4>3. CASE n[2] = 2
        <5>1. 1 \in Occurrences(o) \cup NewOccurrences(t, ask, o)
          BY <4>1, <4>2, <4>3, OccurrencesInOrder DEF IInv
        <5>2. 1 \in Occurrences(o) => <<o, 1>> \in names[u]
          BY <4>1 DEF Occurrences
        <5>3. 1 \in NewOccurrences(t, ask, o) => <<o, 1>> \in Added(u)
          BY <4>1 DEF Added
        <5> QED
          BY <3>1, <5>1, <5>2, <5>3
      <4> QED
        BY <4>1, <4>3
    <3> QED
      BY <1>8, <3>1, <3>2, <3>3
  <2> QED
    BY <2>1, <2>2
<1>9. NamesOK'
  BY <1>6 DEF NamesOK
<1>10. NamesGiven'
  BY <1>7, <1>8 DEF NamesGiven
<1> QED
  BY <1>1, <1>5, <1>9, <1>10

(***************************************************************************)
(* The map is filled before anything is deleted.                           *)
(***************************************************************************)

\* Until then no deleter has begun.
NotBegun ==
  /\ exit = "running" /\ cur = None
  /\ pending = {} /\ awaited = {} /\ touched = {}
  /\ heldUp = {}
  /\ todo = {t \in Type : names[t] # {}}

GraphInv ==
  /\ TurnInv
  /\ at \in 1..Len(Rounds) + 1 /\ branch \in Nat \ {0}
  /\ ~IsFilled => NotBegun

\* There are as many rounds as types are gone through.
LEMMA RoundsLength == Len(Rounds) = 17
BY DEF Rounds

\* Names that exist are all the proofs about the run ask for: whatever the map
\* is filled with, the run can begin.
LEMMA MapFilled ==
  ASSUME TurnInv, NotBegun,
         names' \in [Type -> SUBSET (Object \X Occurrence)], NamesOK', NamesGiven',
         todo' = {t \in Type : names'[t] # {}},
         faults' \in 0..MaxFaults,
         UNCHANGED <<cfg, cur, listed, pending, item, attempt, awaited, exit, log, cloud,
                     touched, skipped, late, heldUp>>
  PROVE  TurnInv' /\ NotBegun'
<1>1. NotBegun'
  BY DEF NotBegun
<1>2. TypeOK'
  BY DEF TurnInv, IInv, TypeOK
<1>3. PendingOK' /\ AwaitedOK' /\ OwnOK'
  BY <1>1 DEF NotBegun, PendingOK, AwaitedOK, OwnOK
<1>4. ProgressOK' /\ NothingForgotten'
  BY <1>1 DEF NotBegun, ProgressOK, NothingForgotten
<1> QED
  BY <1>1, <1>2, <1>3, <1>4 DEF TurnInv, IInv

\* What an answer holds is there, and one about the resources themselves is of
\* their type.
LEMMA AnswerGiven ==
  ASSUME TurnInv, NEW t \in Type, NEW ask
  PROVE  /\ Answer(t, ask) \subseteq Object
         /\ \A o \in Answer(t, ask) : cloud[o] # "unborn" /\ IsShown(o)
         /\ ask.own => \A o \in Answer(t, ask) : TypeOf[o] = t /\ o \in NamedOf(t)
<1>1. names[t] \subseteq Object \X Occurrence /\ \A n \in names[t] : TypeOf[n[1]] = t
  BY DEF TurnInv, IInv, TypeOK, NamesOK
<1>2. \A o \in NamedOf(t) : o \in Object /\ TypeOf[o] = t
  BY <1>1 DEF NamedOf, Objects
<1>3. \A o \in Answer(t, ask) : IsShown(o)
  BY DEF Answer, Owners
<1>4. \A o : IsShown(o) => cloud[o] # "unborn"
  BY DEF IsShown, Exists
<1>5. \A p \in Owners(t, ask) : p \in Object /\ p \in NamedOf(t)
  BY <1>2 DEF Owners
<1>6. \A p \in Object : Linked[p] \subseteq Object
  BY LinkedAssumption DEF LinkedAssumption
<1>7. Answer(t, ask) \subseteq Object
  BY <1>5, <1>6 DEF Answer
<1>8. ask.own => \A o \in Answer(t, ask) : TypeOf[o] = t /\ o \in NamedOf(t)
  BY <1>2, <1>5 DEF Answer
<1> QED
  BY <1>3, <1>4, <1>7, <1>8

\* What comes with an answer is there.
LEMMA WithAnswerGiven ==
  ASSUME NEW found \in SUBSET Object, NEW ask
  PROVE  /\ WithAnswer(ask, found) \subseteq Object
         /\ \A o \in WithAnswer(ask, found) :
              /\ cloud[o] # "unborn" /\ TypeOf[o] \in ask.with
              /\ \E p \in found : o \in Linked[p]
BY LinkedAssumption DEF WithAnswer, Exists, LinkedAssumption

(***************************************************************************)
(* The table of requests.                                                  *)
(***************************************************************************)
RequestOfTable(t, i) ==
  LET ask == Traversal(t)[i] IN
  /\ ask.own <=> t = "VPC" /\ i = 1
  /\ ask.own => ask.with = {} /\ ask.finds = {"VPC"}
  /\ ~ask.keeps => ask.own \/ i = Len(Traversal(t))
  /\ ask.with \subseteq {"IAMRole"} /\ (ask.eachOwner => ask.with = {})
  /\ "IAMInstanceProfile" \in ask.finds => ask.with = {"IAMRole"}
  /\ ~ask.own /\ ~ask.records =>
       t \in {"VPC", "VPNGateway", "Instance", "NetworkInterface"}

\* The fields of the requests.
LEMMA RequestFields ==
  ASSUME NEW types, NEW type
  PROVE  /\ Ask(types).finds = types /\ Ask(types).with = {} /\ ~Ask(types).keeps
         /\ ~Ask(types).records /\ ~Ask(types).own
         /\ Gather(type).finds = {type} /\ Gather(type).with = {} /\ Gather(type).keeps
         /\ ~Gather(type).records /\ ~Gather(type).own
         /\ AskForProfiles.finds = {"IAMInstanceProfile"}
         /\ AskForProfiles.with = {"IAMRole"} /\ ~AskForProfiles.keeps
         /\ AskForProfiles.records /\ ~AskForProfiles.own
         /\ ~AskForProfiles.eachOwner
BY DEF Ask, Gather, AskForProfiles

VPCRequests ==
  {"Instance", "InternetGateway", "NatGateway", "NetworkInterface", "RouteTable",
   "SecurityGroup", "Subnet", "VPNGateway"}

\* The requests of each type.
LEMMA TraversalOf ==
  ASSUME NEW t, NEW i \in 1..Len(Traversal(t))
  PROVE  \/ /\ t = "VPC" /\ i = 1
            /\ Traversal(t)[i] = [Ask({"VPC"}) EXCEPT !.own = TRUE]
         \/ /\ t = "VPC" /\ i # 1
            /\ \E type \in VPCRequests : Traversal(t)[i] = Gather(type)
         \/ /\ t = "AutoScalingGroup" /\ i = Len(Traversal(t))
            /\ Traversal(t)[i] = [Ask({"LaunchConfiguration", "LoadBalancer"}) EXCEPT
                                    !.eachOwner = TRUE, !.records = TRUE]
         \/ /\ t = "VPNGateway" /\ i = Len(Traversal(t))
            /\ Traversal(t)[i] = Ask({"VPNConnection"})
         \/ t = "Instance" /\ Traversal(t)[i] = Gather("NetworkInterface")
         \/ /\ t \in {"Instance", "LaunchConfiguration"} /\ i = Len(Traversal(t))
            /\ Traversal(t)[i] = AskForProfiles
         \/ /\ t = "NetworkInterface" /\ i = Len(Traversal(t))
            /\ Traversal(t)[i] = Ask({"EIP", "EIPAssociation"})
         \/ /\ t = "RouteTable" /\ i = Len(Traversal(t))
            /\ Traversal(t)[i] = [Ask({"RouteTableAssociation"}) EXCEPT !.records = TRUE]
<1>1. CASE t = "VPC"
  <2>1. Traversal(t) = VPCTraversal /\ Len(VPCTraversal) = 9
    BY <1>1 DEF Traversal, VPCTraversal
  <2>2. VPCTraversal[1] = [Ask({"VPC"}) EXCEPT !.own = TRUE]
    BY DEF VPCTraversal
  <2>3. \A k \in 2..9 : \E type \in VPCRequests : VPCTraversal[k] = Gather(type)
    BY DEF VPCTraversal, VPCRequests
  <2>4. CASE i = 1
    <3>1. Traversal(t)[i] = [Ask({"VPC"}) EXCEPT !.own = TRUE]
      BY <2>1, <2>2, <2>4
    <3> QED
      BY <1>1, <2>4, <3>1
  <2>5. CASE i # 1
    <3>1. i \in 2..9
      BY <2>1, <2>5
    <3>2. \E type \in VPCRequests : Traversal(t)[i] = Gather(type)
      BY <2>1, <2>3, <3>1
    <3> QED
      BY <1>1, <2>5, <3>2
  <2> QED
    BY <2>4, <2>5
<1>2. CASE t = "AutoScalingGroup"
  <2>1. Traversal(t) = AutoScalingGroupTraversal
    BY <1>2 DEF Traversal
  <2>2. /\ i = Len(Traversal(t))
        /\ Traversal(t)[i] = [Ask({"LaunchConfiguration", "LoadBalancer"}) EXCEPT
                                !.eachOwner = TRUE, !.records = TRUE]
    BY <2>1 DEF AutoScalingGroupTraversal
  <2> QED
    BY <1>2, <2>2
<1>3. CASE t = "VPNGateway"
  <2>1. Traversal(t) = << Ask({"VPNConnection"}) >>
    BY <1>3 DEF Traversal
  <2>2. i = Len(Traversal(t)) /\ Traversal(t)[i] = Ask({"VPNConnection"})
    BY <2>1
  <2> QED
    BY <1>3, <2>2
<1>4. CASE t = "Instance"
  <2>1. Traversal(t) = << Gather("NetworkInterface"), AskForProfiles >>
    BY <1>4 DEF Traversal
  <2> QED
    BY <1>4, <2>1
<1>5. CASE t = "NetworkInterface"
  <2>1. Traversal(t) = << Ask({"EIP", "EIPAssociation"}) >>
    BY <1>5 DEF Traversal
  <2>2. i = Len(Traversal(t)) /\ Traversal(t)[i] = Ask({"EIP", "EIPAssociation"})
    BY <2>1
  <2> QED
    BY <1>5, <2>2
<1>6. CASE t = "RouteTable"
  <2>1. Traversal(t) = << [Ask({"RouteTableAssociation"}) EXCEPT !.records = TRUE] >>
    BY <1>6 DEF Traversal
  <2>2. Len(Traversal(t)) = 1
    BY <2>1
  <2>3. i = Len(Traversal(t)) /\ Traversal(t)[i] = Traversal(t)[1]
    BY <2>2
  <2>4. Traversal(t)[1] = [Ask({"RouteTableAssociation"}) EXCEPT !.records = TRUE]
    BY <2>1
  <2> QED
    BY <1>6, <2>3, <2>4
<1>7. CASE t = "LaunchConfiguration"
  <2>1. Traversal(t) = << AskForProfiles >>
    BY <1>7 DEF Traversal
  <2>2. i = Len(Traversal(t)) /\ Traversal(t)[i] = AskForProfiles
    BY <2>1
  <2> QED
    BY <1>7, <2>2
<1>8. CASE t \notin {"VPC", "AutoScalingGroup", "VPNGateway", "Instance", "NetworkInterface",
                     "RouteTable", "LaunchConfiguration"}
  <2>1. Traversal(t) = << >>
    BY <1>8 DEF Traversal
  <2> QED
    BY <2>1
<1> QED
  BY <1>1, <1>2, <1>3, <1>4, <1>5, <1>6, <1>7, <1>8

\* Only the VPC traversal replaces names, with its first request; only a type's
\* last request may end its traversal early without an error.
LEMMA AskTable ==
  ASSUME NEW t, NEW i \in 1..Len(Traversal(t))
  PROVE  RequestOfTable(t, i)
<1> DEFINE ask == Traversal(t)[i]
<1>1. CASE t = "VPC" /\ i = 1
  <2>1. ask = [Ask({"VPC"}) EXCEPT !.own = TRUE]
    BY <1>1, TraversalOf
  <2>2. ask.own /\ ask.with = {} /\ ask.finds = {"VPC"}
    BY <2>1 DEF Ask
  <2> QED
    BY <1>1, <2>2 DEF RequestOfTable
<1>2. CASE \E type \in VPCRequests : t = "VPC" /\ i # 1 /\ ask = Gather(type)
  BY <1>2, RequestFields DEF RequestOfTable, VPCRequests
<1>3. CASE t = "AutoScalingGroup"
  <2>1. /\ i = Len(Traversal(t))
        /\ ask = [Ask({"LaunchConfiguration", "LoadBalancer"}) EXCEPT
                    !.eachOwner = TRUE, !.records = TRUE]
    BY <1>3, TraversalOf
  <2>2. ~ask.own /\ ask.records /\ ask.with = {} /\ "IAMInstanceProfile" \notin ask.finds
    BY <2>1 DEF Ask
  <2> QED
    BY <1>3, <2>1, <2>2 DEF RequestOfTable
<1>4. CASE t = "RouteTable"
  <2>1. /\ i = Len(Traversal(t))
        /\ ask = [Ask({"RouteTableAssociation"}) EXCEPT !.records = TRUE]
    BY <1>4, TraversalOf
  <2>2. ~ask.own /\ ask.records /\ ask.with = {} /\ "IAMInstanceProfile" \notin ask.finds
    BY <2>1 DEF Ask
  <2> QED
    BY <1>4, <2>1, <2>2 DEF RequestOfTable
<1>5. CASE \E types \in {{"VPNConnection"}, {"EIP", "EIPAssociation"}} :
             /\ t \in {"VPNGateway", "NetworkInterface"}
             /\ i = Len(Traversal(t)) /\ ask = Ask(types)
  BY <1>5, RequestFields DEF RequestOfTable
<1>6. CASE t = "Instance" /\ ask = Gather("NetworkInterface")
  BY <1>6, RequestFields DEF RequestOfTable
<1>7. CASE /\ t \in {"Instance", "LaunchConfiguration"} /\ i = Len(Traversal(t))
           /\ ask = AskForProfiles
  BY <1>7, RequestFields DEF RequestOfTable
<1> QED
  BY <1>1, <1>2, <1>3, <1>4, <1>5, <1>6, <1>7, TraversalOf

\* The rounds of the types that others are found for.
LEMMA RoundOf ==
  ASSUME NEW k \in 1..Len(Rounds)
  PROVE  /\ Rounds[k] = "VPC" <=> k = 1
         /\ Rounds[k] = "AutoScalingGroup" <=> k = 2
         /\ Rounds[k] = "VPNGateway" <=> k = 5
         /\ Rounds[k] = "NatGateway" <=> k = 6
         /\ Rounds[k] = "InternetGateway" <=> k = 7
         /\ Rounds[k] = "Instance" <=> k = 8
         /\ Rounds[k] = "Subnet" <=> k = 9
         /\ Rounds[k] = "NetworkInterface" <=> k = 10
         /\ Rounds[k] = "SecurityGroup" <=> k = 11
         /\ Rounds[k] = "RouteTable" <=> k = 12
         /\ Rounds[k] = "LaunchConfiguration" <=> k = 13
         /\ Rounds[k] = "RouteTableAssociation" <=> k = 14
         /\ Rounds[k] = "EIP" <=> k = 15
         /\ Rounds[k] = "EIPAssociation" <=> k = 16
         /\ Rounds[k] \notin {"LoadBalancer", "VPNConnection", "IAMInstanceProfile", "IAMRole"}
<1>1. k \in 1..17
  BY RoundsLength
<1> QED
  BY <1>1 DEF Rounds

\* What is found for a type has its own round later, or none: the traversal has
\* not left the types it adds names to.
LEMMA FoundForLaterRounds ==
  ASSUME NEW j \in 1..Len(Rounds), NEW i \in 1..Len(Traversal(Rounds[j])),
         ~Traversal(Rounds[j])[i].own,
         NEW u \in Traversal(Rounds[j])[i].finds \cup Traversal(Rounds[j])[i].with
  PROVE  \A k \in 1..j : Rounds[k] # u
<1> DEFINE t == Rounds[j]  ask == Traversal(t)[i]
<1>1. j \in Nat /\ \A k \in 1..j : k \in 1..Len(Rounds)
  BY RoundsLength
<1>2. t \in {"VPC", "AutoScalingGroup", "VPNGateway", "Instance", "NetworkInterface",
             "RouteTable", "LaunchConfiguration"}
  BY TraversalOf
<1>3. CASE t = "VPC"
  <2>1. PICK type \in VPCRequests : ask = Gather(type)
    BY <1>3, TraversalOf, AskTable DEF RequestOfTable
  <2>2. u \in VPCRequests
    BY <2>1, RequestFields
  <2> QED
    BY <1>1, <1>3, <2>2, RoundOf DEF VPCRequests
<1>4. CASE t = "AutoScalingGroup"
  <2>1. ask = [Ask({"LaunchConfiguration", "LoadBalancer"}) EXCEPT
                 !.eachOwner = TRUE, !.records = TRUE]
    BY <1>4, TraversalOf
  <2>2. u \in {"LaunchConfiguration", "LoadBalancer"}
    BY <2>1 DEF Ask
  <2> QED
    BY <1>1, <1>4, <2>2, RoundOf
<1>5. CASE t = "VPNGateway"
  <2>1. u = "VPNConnection"
    BY <1>5, TraversalOf, RequestFields
  <2> QED
    BY <1>1, <2>1, RoundOf
<1>6. CASE t \in {"Instance", "LaunchConfiguration"}
  <2>1. u \in {"IAMInstanceProfile", "IAMRole"} \/ (u = "NetworkInterface" /\ t = "Instance")
    BY <1>6, TraversalOf, RequestFields
  <2> QED
    BY <1>1, <2>1, RoundOf
<1>7. CASE t = "NetworkInterface"
  <2>1. u \in {"EIP", "EIPAssociation"}
    BY <1>7, TraversalOf, RequestFields
  <2> QED
    BY <1>1, <1>7, <2>1, RoundOf
<1>8. CASE t = "RouteTable"
  <2>1. ask = [Ask({"RouteTableAssociation"}) EXCEPT !.records = TRUE]
    BY <1>8, TraversalOf
  <2>2. u = "RouteTableAssociation"
    BY <2>1 DEF Ask
  <2> QED
    BY <1>1, <1>8, <2>2, RoundOf
<1> QED
  BY <1>2, <1>3, <1>4, <1>5, <1>6, <1>7, <1>8

(***************************************************************************)
(* Filling the map.                                                        *)
(***************************************************************************)

\* No request makes a name of something that does not exist, so whatever fails the
\* run can begin with the map as it is.
LEMMA FillStep == ASSUME GraphInv, Fill PROVE GraphInv'
<1>1. TurnInv /\ IInv /\ NamesGiven /\ ~IsFilled /\ NotBegun /\ faults \in 0..MaxFaults
  BY DEF GraphInv, TurnInv, IInv, TypeOK, Fill, NextType, RequestLinked, RequestLinkedFails,
         HasRequest
<1>2. UNCHANGED <<cfg, cur, listed, pending, item, attempt, awaited, exit, log, cloud,
                  touched, skipped, late, heldUp>>
  BY DEF Fill, NextType, RequestLinked, RequestLinkedFails, Unmoved
<1>3. faults' \in 0..MaxFaults
  BY <1>1, ConstantAssumption
     DEF Fill, NextType, RequestLinked, RequestLinkedFails, ConstantAssumption
<1>4. at' \in 1..Len(Rounds) + 1 /\ branch' \in Nat \ {0}
  <2>1. at \in 1..17
    BY <1>1, RoundsLength DEF GraphInv, IsFilled
  <2> QED
    BY <2>1, RoundsLength
       DEF GraphInv, Fill, NextType, RequestLinked, RequestLinkedFails, LeaveType
<1>5. CASE UNCHANGED <<names, todo>>
  <2>1. /\ names' \in [Type -> SUBSET (Object \X Occurrence)] /\ NamesOK' /\ NamesGiven'
        /\ todo' = {t \in Type : names'[t] # {}}
    BY <1>1, <1>2, <1>5 DEF IInv, TypeOK, NamesOK, NamesGiven, NotBegun
  <2>2. TurnInv' /\ NotBegun'
    BY <1>1, <1>2, <1>3, <2>1, MapFilled
  <2> QED
    BY <1>4, <2>2 DEF GraphInv
<1>6. ASSUME NEW t \in Type, NEW ask, NEW found \in SUBSET Object,
             \A o \in found : cloud[o] # "unborn",
             ask.own => \A o \in found : TypeOf[o] = t,
             AddResourceNames(t, ask, found)
      PROVE  GraphInv'
  <2>1. /\ names' \in [Type -> SUBSET (Object \X Occurrence)] /\ NamesOK' /\ NamesGiven'
        /\ todo' = {u \in Type : names'[u] # {}}
    BY <1>1, <1>2, <1>6, NamesAdded
  <2>2. TurnInv' /\ NotBegun'
    BY <1>1, <1>2, <1>3, <2>1, MapFilled
  <2> QED
    BY <1>4, <2>2 DEF GraphInv
<1>7. CASE HasRequest /\ ~UNCHANGED <<names, todo>>
  <2> DEFINE t == Rounds[at]  ask == Traversal(t)[branch]
  <2>1. t \in Type /\ branch \in 1..Len(Traversal(t))
    <3>1. t \in Type /\ branch <= Len(Traversal(t)) /\ branch \in Nat \ {0}
      BY <1>7 DEF HasRequest, GraphInv
    <3>2. Len(Traversal(t)) \in Nat
      BY DEF Traversal, VPCTraversal, AutoScalingGroupTraversal
    <3> QED
      BY <3>1, <3>2
  <2>2. ask.own => ask.with = {}
    BY <2>1, AskTable DEF RequestOfTable
  <2>3. PICK found \in SUBSET Answer(t, ask) :
          \/ AddResourceNames(t, ask, found)
          \/ AddResourceNames(t, ask, found \cup WithAnswer(ask, found))
    BY <1>7 DEF Fill, NextType, RequestLinked, RequestLinkedFails
  <2>4. /\ found \subseteq Object /\ \A o \in found : cloud[o] # "unborn"
        /\ ask.own => \A o \in found : TypeOf[o] = t
    BY <1>1, <2>1, <2>3, AnswerGiven
  <2>5. /\ WithAnswer(ask, found) \subseteq Object
        /\ \A o \in WithAnswer(ask, found) : cloud[o] # "unborn" /\ TypeOf[o] \in ask.with
    BY <2>4, WithAnswerGiven
  <2> HIDE DEF t, ask
  <2>6. CASE AddResourceNames(t, ask, found)
    BY <1>6, <2>1, <2>4, <2>6
  <2>7. CASE AddResourceNames(t, ask, found \cup WithAnswer(ask, found))
    BY <1>6, <2>1, <2>2, <2>4, <2>5, <2>7
  <2> QED
    BY <2>3, <2>6, <2>7
<1> QED
  BY <1>5, <1>7 DEF Fill, NextType, RequestLinked, RequestLinkedFails

\* What starts from the filled map is the run of DeleteRun.
LEMMA RunStep ==
  ASSUME GraphInv, Delete \/ ((Environment \/ Terminated) /\ UNCHANGED graphVars)
  PROVE  [Next]_vars /\ GraphInv'
<1>1. [Next]_vars
  BY DEF Delete, Next
<1>2. TurnInv'
  BY <1>1, TurnStep DEF GraphInv
<1>3. at' = at /\ branch' = branch
  BY DEF Delete, graphVars
<1>4. CASE Delete
  BY <1>1, <1>2, <1>3, <1>4 DEF Delete, GraphInv, IsFilled
<1>5. CASE Environment \/ Terminated
  <2>1. UNCHANGED <<exit, cur, pending, awaited, touched, todo, names, heldUp>>
    BY <1>5 DEF Environment, FinishDeletion, Relaunch, OwnerDeletes, Terminated, vars, runVars,
                histVars
  <2>2. ~IsFilled => NotBegun'
    BY <2>1 DEF NotBegun, GraphInv
  <2> QED
    BY <1>1, <1>2, <1>3, <2>2 DEF GraphInv, IsFilled
<1> QED
  BY <1>1, <1>4, <1>5 DEF Delete

LEMMA GraphStep == GraphInv /\ [GraphNext]_allVars => GraphInv'
<1> SUFFICES ASSUME GraphInv, [GraphNext]_allVars PROVE GraphInv'
  OBVIOUS
<1>1. CASE UNCHANGED allVars
  <2>1. UNCHANGED vars /\ UNCHANGED <<at, branch>>
    BY <1>1 DEF allVars, graphVars
  <2>2. TurnInv'
    BY <2>1, TurnStep DEF GraphInv
  <2>3. NotBegun => NotBegun'
    BY <2>1 DEF vars, runVars, histVars, NotBegun
  <2> QED
    BY <2>1, <2>2, <2>3 DEF GraphInv, IsFilled
<1> QED
  BY <1>1, FillStep, RunStep DEF GraphNext

\* The map is filled with names that exist before the first deletion, so the run
\* that follows gives each of them its turn.
THEOREM FilledMapHasItsTurns == GraphSpec => []GraphInv
<1>1. GraphInit => GraphInv
  <2> SUFFICES ASSUME GraphInit PROVE GraphInv
    OBVIOUS
  <2>1. TurnInv
    BY TurnInit DEF GraphInit
  <2>2. at \in 1..Len(Rounds) + 1 /\ branch \in Nat \ {0}
    BY RoundsLength DEF GraphInit
  <2>3. NotBegun
    BY DEF GraphInit, Init, NotBegun
  <2> QED
    BY <2>1, <2>2, <2>3 DEF GraphInv
<1> QED
  BY <1>1, GraphStep, PTL DEF GraphSpec

\* A run with --all-deps that ends well has dealt with everything the traversal
\* added as well.
THEOREM AllDepsForgetsNothing == GraphSpec => []NothingForgotten
<1>1. GraphInv => NothingForgotten
  BY DEF GraphInv, TurnInv
<1> QED
  BY <1>1, FilledMapHasItsTurns, PTL

\* Nor does it touch anything that is default or main, whatever the traversal added.
THEOREM AllDepsTouchesOnlyWhatItMay ==
  ASSUME MarksAreHidden PROVE GraphSpec => []TouchesOnlyWhatItMay
<1>1. GraphInit => TouchesOnlyWhatItMay
  BY DEF GraphInit, Init, TouchesOnlyWhatItMay
<1>2. GraphInv /\ TouchesOnlyWhatItMay /\ [GraphNext]_allVars => TouchesOnlyWhatItMay'
  <2> SUFFICES ASSUME GraphInv, TouchesOnlyWhatItMay, [GraphNext]_allVars
               PROVE  TouchesOnlyWhatItMay'
    OBVIOUS
  <2>1. CASE Fill
    <3>1. ~IsFilled /\ UNCHANGED touched
      BY <2>1 DEF Fill, NextType, RequestLinked, RequestLinkedFails, HasRequest, Unmoved
    <3>2. touched' = {}
      BY <3>1 DEF GraphInv, NotBegun
    <3> QED
      BY <3>2 DEF TouchesOnlyWhatItMay
  <2>2. CASE [Next]_vars
    BY <2>2, TouchesStep DEF GraphInv, TurnInv
  <2>3. UNCHANGED allVars => [Next]_vars
    BY DEF allVars
  <2> QED
    BY <2>1, <2>2, <2>3, RunStep DEF GraphNext
<1> QED
  BY <1>1, <1>2, FilledMapHasItsTurns, PTL DEF GraphSpec

(***************************************************************************)
(* What the traversal adds has an owner.                                   *)
(***************************************************************************)

\* Nothing the traversal is shown is default or main.
LEMMA ShownIsNotProtected ==
  ASSUME MarksAreHidden, NEW o \in Object, IsShown(o)
  PROVE  ~Protected(o)
<1>1. Marks[o] \subseteq Deleter[TypeOf[o]].hides \cap {"default", "main", "deleting"}
  BY ConstantAssumption DEF MarksAreHidden, ConstantAssumption
<1>2. \A m \in Marks[o] : HasMark(o, m)
  BY DEF HasMark
<1> QED
  BY <1>1, <1>2 DEF IsShown, Protected

\* What is asked, and of which type.
LEMMA Asked ==
  ASSUME GraphInv, HasRequest
  PROVE  /\ at \in 1..Len(Rounds) /\ Rounds[at] \in Type
         /\ branch \in 1..Len(Traversal(Rounds[at]))
<1>1. at \in 1..Len(Rounds)
  BY RoundsLength DEF GraphInv, HasRequest, IsFilled
<1>2. branch <= Len(Traversal(Rounds[at])) /\ branch \in Nat \ {0}
  BY DEF HasRequest, GraphInv
<1>3. Len(Traversal(Rounds[at])) \in Nat
  BY DEF Traversal, VPCTraversal, AutoScalingGroupTraversal
<1> QED
  BY <1>1, <1>2, <1>3 DEF HasRequest

\* What is found is in the map afterwards, and so is what was there.
LEMMA FoundIsNamed ==
  ASSUME GraphInv, NEW t \in Type, NEW ask, ~ask.own, NEW found \in SUBSET Object,
         \A o \in found : ask.eachOwner => \E p \in Owners(t, ask) : o \in Linked[p],
         AddResourceNames(t, ask, found)
  PROVE  Named' = Named \cup found
<1>1. /\ TypeOK /\ names \in [Type -> SUBSET (Object \X Occurrence)]
      /\ TypeOf \in [Object -> Type]
  BY ConstantAssumption DEF GraphInv, TurnInv, IInv, TypeOK, ConstantAssumption
<1> DEFINE Added(u) == UNION {{o} \X NewOccurrences(t, ask, o) : o \in {p \in found : TypeOf[p] = u}}
<1>2. names' = [u \in Type |-> names[u] \cup Added(u)]
  BY DEF AddResourceNames
<1>3. \A u \in Type : \A n \in Added(u) : n[1] \in found
  OBVIOUS
<1>4. ASSUME NEW o \in found, Occurrences(o) = {} PROVE <<o, 1>> \in Added(TypeOf[o])
  <2>1. TimesFound(t, ask, o) \in Nat \ {0}
    <3>1. CASE ~ask.eachOwner
      BY <3>1 DEF TimesFound
    <3>2. CASE ask.eachOwner
      <4> DEFINE S == {p \in Owners(t, ask) : o \in Linked[p]}
      <4>1. S # {}
        BY <3>2
      <4>2. S \subseteq Object
        BY <1>1 DEF Owners, NamedOf, Objects
      <4>3. IsFiniteSet(S)
        BY <4>2, LinkedAssumption, FS_Subset DEF LinkedAssumption
      <4>4. Cardinality(S) \in Nat /\ Cardinality(S) # 0
        BY <4>1, <4>3, FS_CardinalityType, FS_EmptySet
      <4> QED
        BY <3>2, <4>4 DEF TimesFound
    <3> QED
      BY <3>1, <3>2
  <2>2. Cardinality(Occurrences(o)) = 0
    BY <1>4, FS_EmptySet
  <2>3. 1 \in NewOccurrences(t, ask, o)
    BY <2>1, <2>2 DEF NewOccurrences, Occurrence
  <2> QED
    BY <2>3
<1> HIDE DEF Added
<1>5. \A o : o \in Named' <=> \E u \in Type : \E n \in names'[u] : n[1] = o
  BY DEF Named, Objects
<1>6. \A o : o \in Named <=> \E u \in Type : \E n \in names[u] : n[1] = o
  BY DEF Named, Objects
<1>7. \A o \in Named' : o \in Named \cup found
  BY <1>2, <1>3, <1>5, <1>6
<1>8. \A o \in Named : o \in Named'
  BY <1>2, <1>5, <1>6
<1>9. ASSUME NEW o \in found PROVE o \in Named'
  <2>1. TypeOf[o] \in Type
    BY <1>1
  <2>2. CASE Occurrences(o) = {}
    <3>1. <<o, 1>> \in names'[TypeOf[o]] /\ <<o, 1>>[1] = o
      BY <1>2, <1>4, <2>1, <2>2
    <3> QED
      BY <1>5, <2>1, <3>1
  <2>3. CASE Occurrences(o) # {}
    <3>1. PICK n \in Occurrence : <<o, n>> \in names[TypeOf[o]]
      BY <2>3 DEF Occurrences
    <3>2. <<o, n>>[1] = o
      OBVIOUS
    <3> QED
      BY <1>6, <1>8, <2>1, <3>1, <3>2
  <2> QED
    BY <2>2, <2>3
<1> QED
  BY <1>7, <1>8, <1>9

\* An answer about the resources themselves replaces their names and no others.
LEMMA OwnAnswer ==
  ASSUME GraphInv, NEW t \in Type, NEW ask, ask.own, NEW found \in SUBSET Answer(t, ask),
         AddResourceNames(t, ask, found)
  PROVE  names'[t] = found \X {1} /\ \A u \in Type \ {t} : names'[u] = names[u]
<1>1. \A o \in found : TypeOf[o] = t
  BY AnswerGiven DEF GraphInv
<1> QED
  BY <1>1 DEF AddResourceNames

\* The first round is that of VPCs, whose first request leaves out the default one.
NoDefaultVPC ==
  at = 1 => IF branch = 1 THEN Named = tagged
            ELSE \A o \in NamedOf("VPC") : ~Protected(o)

PulledInv == PulledInByItsOwner /\ NoDefaultVPC

\* What is asked about is not AWS's default.
LEMMA OwnersAreNotProtected ==
  ASSUME MarksAreHidden, MarksAsInAWS, GraphInv, NoDefaultVPC, HasRequest,
         ~(at = 1 /\ branch = 1),
         NEW p \in Owners(Rounds[at], Traversal(Rounds[at])[branch])
  PROVE  p \in Object /\ p \in Named /\ ~Protected(p)
<1> DEFINE t == Rounds[at]  ask == Traversal(t)[branch]
<1>1. /\ t \in Type /\ branch \in 1..Len(Traversal(t)) /\ at \in 1..Len(Rounds)
      /\ RequestOfTable(t, branch)
  BY Asked, AskTable
<1>2. p \in NamedOf(t) /\ (ask.own \/ ask.records => IsShown(p))
  BY DEF Owners
<1>3. p \in Object /\ p \in Named /\ TypeOf[p] = t
  BY <1>1, <1>2 DEF NamedOf, Objects, Named, GraphInv, TurnInv, IInv, TypeOK, NamesOK
<1>4. CASE ask.own \/ ask.records
  BY <1>2, <1>3, <1>4, ShownIsNotProtected
<1>5. CASE t = "VPC"
  BY <1>1, <1>2, <1>3, <1>5, RoundOf DEF NoDefaultVPC
<1>6. CASE t \in {"VPNGateway", "Instance", "NetworkInterface"}
  <2>1. "default" \notin Marks[p] /\ "main" \notin Marks[p]
    BY <1>3, <1>6 DEF MarksAsInAWS, DefaultTypes
  <2>2. Marks[p] \subseteq {"default", "main"}
    BY <1>3, ConstantAssumption DEF ConstantAssumption
  <2> QED
    BY <1>3, <2>1, <2>2 DEF Protected
<1> QED
  BY <1>1, <1>4, <1>5, <1>6 DEF RequestOfTable

\* Every request of the traversal leaves each added name with an owner.
LEMMA PulledInFill ==
  ASSUME MarksAreHidden, MarksAsInAWS, GraphInv, PulledInv, Fill
  PROVE  PulledInv'
<1>1. tagged' = tagged /\ Named \subseteq Object /\ at \in Nat \ {0} /\ branch \in Nat \ {0}
  <2>1. tagged' = tagged
    BY DEF Fill, NextType, RequestLinked, RequestLinkedFails, Unmoved
  <2>2. Named \subseteq Object
    BY DEF GraphInv, TurnInv, IInv, TypeOK, Named, Objects
  <2> QED
    BY <2>1, <2>2, RoundsLength DEF GraphInv
<1>2. CASE UNCHANGED names /\ at' = at + 1
  BY <1>1, <1>2 DEF PulledInv, PulledInByItsOwner, NoDefaultVPC, Named
<1>3. CASE HasRequest /\ ~(UNCHANGED names /\ at' = at + 1)
  <2> DEFINE t == Rounds[at]  ask == Traversal(t)[branch]
  <2>1. /\ t \in Type /\ branch \in 1..Len(Traversal(t)) /\ at \in 1..Len(Rounds)
        /\ RequestOfTable(t, branch)
    BY <1>3, Asked, AskTable
  <2>2. at' = at /\ branch' = branch + 1
    BY <1>3 DEF Fill, NextType, RequestLinked, RequestLinkedFails, LeaveType
  <2>3. PICK found \in SUBSET Answer(t, ask) :
          \/ AddResourceNames(t, ask, found)
          \/ AddResourceNames(t, ask, found \cup WithAnswer(ask, found))
    BY <1>3 DEF Fill, NextType, RequestLinked, RequestLinkedFails, LeaveType
  <2>4. /\ found \subseteq Object /\ \A o \in found : ~Protected(o)
        /\ ask.own => \A o \in found : TypeOf[o] = t /\ o \in NamedOf(t)
    BY <2>1, <2>3, AnswerGiven, ShownIsNotProtected DEF GraphInv
  <2>5. CASE at = 1 /\ branch = 1
    <3>1. t = "VPC" /\ ask.own /\ ask.with = {} /\ Named = tagged
      BY <2>1, <2>5, RoundOf DEF RequestOfTable, PulledInv, NoDefaultVPC
    <3>2. AddResourceNames(t, ask, found)
      <4>1. WithAnswer(ask, found) = {}
        BY <3>1 DEF WithAnswer
      <4> QED
        BY <2>3, <4>1
    <3>3. /\ names'[t] = found \X {1}
          /\ \A u \in Type \ {t} : names'[u] = names[u]
      BY <2>1, <3>1, <3>2, OwnAnswer
    <3>4. Named' \subseteq Named
      BY <2>1, <2>4, <3>1, <3>3 DEF Named, NamedOf, Objects
    <3>5. \A o \in NamedOf("VPC")' : ~Protected(o)
      BY <2>4, <3>1, <3>3 DEF NamedOf, Objects
    <3> QED
      BY <1>1, <2>2, <2>5, <3>1, <3>4, <3>5 DEF PulledInv, PulledInByItsOwner, NoDefaultVPC
  <2>6. CASE ~(at = 1 /\ branch = 1)
    <3>1. ~ask.own
      BY <2>1, <2>6, RoundOf DEF RequestOfTable
    <3>2. \A p \in Owners(t, ask) : p \in Object /\ p \in Named /\ ~Protected(p)
      BY <1>3, <2>6, OwnersAreNotProtected DEF PulledInv
    <3>3. \A o \in found : \E p \in Owners(t, ask) : o \in Linked[p]
      BY <2>3, <3>1 DEF Answer
    <3>4. \A o \in WithAnswer(ask, found) :
            /\ o \in Object /\ ~Protected(o) /\ ~ask.eachOwner
            /\ \E p \in found : o \in Linked[p]
      <4>1. \A o \in WithAnswer(ask, found) :
              /\ o \in Object /\ TypeOf[o] \in ask.with /\ ~ask.eachOwner
              /\ \E p \in found : o \in Linked[p]
        BY <2>1, <2>4, WithAnswerGiven DEF RequestOfTable
      <4>2. \A o \in Object : TypeOf[o] = "IAMRole" => ~Protected(o)
        BY ConstantAssumption DEF MarksAsInAWS, DefaultTypes, Protected, ConstantAssumption
      <4> QED
        BY <2>1, <4>1, <4>2 DEF RequestOfTable
    <3>5. PICK added \in SUBSET (found \cup WithAnswer(ask, found)) :
            found \subseteq added /\ AddResourceNames(t, ask, added)
      BY <2>3
    <3>6. Named' = Named \cup added
      BY <2>1, <2>4, <3>1, <3>3, <3>4, <3>5, FoundIsNamed
    <3>7. PulledInByItsOwner'
      <4>1. \A o \in Named \ tagged : \E p \in Named : o \in Linked[p] /\ ~Protected(p)
        BY DEF PulledInv, PulledInByItsOwner
      <4>2. \A o \in added : \E p \in Named \cup added : o \in Linked[p] /\ ~Protected(p)
        BY <2>4, <3>2, <3>3, <3>4, <3>5
      <4> QED
        BY <1>1, <3>6, <4>1, <4>2 DEF PulledInByItsOwner
    <3>8. ASSUME at = 1 PROVE \A o \in NamedOf("VPC")' : ~Protected(o)
      <4>1. "VPC" \in Type /\ \A o \in NamedOf("VPC") : ~Protected(o)
        BY <2>1, <2>6, <3>8, RoundOf DEF PulledInv, NoDefaultVPC
      <4>2. \A o \in added : o \in Object /\ ~Protected(o)
        BY <2>4, <3>4, <3>5
      <4>3. NamesOK /\ NamesOK'
        BY FillStep DEF GraphInv, TurnInv, IInv
      <4>4. \A o \in Named : TypeOf[o] = "VPC" => o \in NamedOf("VPC")
        BY <4>3 DEF NamesOK, Named, NamedOf, Objects
      <4>5. \A o \in NamedOf("VPC")' : o \in Named' /\ TypeOf[o] = "VPC"
        BY <4>1, <4>3 DEF NamesOK, Named, NamedOf, Objects
      <4> QED
        BY <3>6, <4>1, <4>2, <4>4, <4>5
    <3> QED
      BY <1>1, <2>2, <2>6, <3>7, <3>8 DEF PulledInv, NoDefaultVPC
  <2> QED
    BY <2>5, <2>6
<1> QED
  BY <1>2, <1>3 DEF Fill, NextType, RequestLinked, RequestLinkedFails, LeaveType

\* Whatever fails, the traversal adds only what belongs to something it holds that is
\* not AWS's default, provided listings leave out what is default or main and only
\* types that have such resources are marked (TableHidesMarks, for grafiti's table).
THEOREM PulledInByItsOwnerHolds ==
  ASSUME MarksAreHidden, MarksAsInAWS PROVE GraphSpec => []PulledInByItsOwner
<1>1. GraphInit => PulledInv
  <2> SUFFICES ASSUME GraphInit PROVE PulledInv
    OBVIOUS
  <2>1. at = 1 /\ branch = 1 /\ Named = tagged
    BY DEF GraphInit, Named, NamedOf
  <2> QED
    BY <2>1 DEF PulledInv, PulledInByItsOwner, NoDefaultVPC
<1>2. GraphInv /\ PulledInv /\ [GraphNext]_allVars => PulledInv'
  <2> SUFFICES ASSUME GraphInv, PulledInv, [GraphNext]_allVars PROVE PulledInv'
    OBVIOUS
  <2>1. CASE UNCHANGED <<names, tagged, at, branch>>
    BY <2>1 DEF PulledInv, PulledInByItsOwner, NoDefaultVPC, Named, NamedOf
  <2>2. CASE Delete \/ ((Environment \/ Terminated) /\ UNCHANGED graphVars)
    <3>1. UNCHANGED names
      BY <2>2, RunStep, HistoryGrows DEF GraphInv, TurnInv
    <3> QED
      BY <2>1, <2>2, <3>1 DEF Delete, graphVars
  <2> QED
    BY <2>1, <2>2, PulledInFill DEF GraphNext, allVars, graphVars, vars
<1>3. PulledInv => PulledInByItsOwner
  BY DEF PulledInv
<1> QED
  BY <1>1, <1>2, <1>3, FilledMapHasItsTurns, PTL DEF GraphSpec

(***************************************************************************)
(* One pass is enough.                                                     *)
(***************************************************************************)

\* The account the traversal looks at: what auto scaling starts later is not linked.
LinkedAtFirst ==
  \A p \in Object : \A o \in Linked[p] : \A q \in Object : Replaces[q] # o

LinkedExist == \A p \in Object : \A o \in Linked[p] : cloud[o] # "unborn"

\* Nothing linked to what is held of type t is missing among `types'.
Complete(t, types) ==
  \A p \in Named : TypeOf[p] = t /\ ~Protected(p) =>
    \A o \in Linked[p] : TypeOf[o] \in types /\ IsShown(o) => o \in Named

RolesComplete ==
  \A p \in Named \ tagged : TypeOf[p] = "IAMInstanceProfile" =>
    \A o \in Linked[p] : TypeOf[o] = "IAMRole" /\ Exists(o) => o \in Named

\* Nothing is deleted before the map is filled.
Calm == \A o \in Object : cloud[o] \in {"unborn", "live"}

\* Whatever has been asked for stays complete.
ClosedInv ==
  /\ LinkedExist
  /\ faults = 0 =>
       /\ ~IsFilled => Calm
       /\ RolesComplete
       /\ \A i \in 1..Len(Rounds) : i < at => Complete(Rounds[i], Followed(Rounds[i]))
       /\ ~IsFilled =>
            \A i \in 1..Len(Traversal(Rounds[at])) :
              i < branch /\ ~Traversal(Rounds[at])[i].own =>
                Complete(Rounds[at], Traversal(Rounds[at])[i].finds)

\* What is gone does not come back, and what is being deleted does not live again.
LEMMA ShownBefore ==
  ASSUME IInv, [Next]_vars, NEW o \in Object, cloud[o] # "unborn"
  PROVE  (IsShown(o)' => IsShown(o)) /\ (Exists(o)' => Exists(o))
<1>1. cloud \in [Object -> States]
  BY DEF IInv, TypeOK
<1>2. /\ cloud[o] = "gone" => cloud'[o] = "gone"
      /\ cloud[o] = "going" => cloud'[o] \in {"going", "gone"}
  <2>1. CASE \E T \in SUBSET Object : cloud' = Deleted(T)
    BY <1>1, <2>1 DEF Deleted
  <2>2. CASE UNCHANGED cloud
    BY <2>2
  <2>3. CASE \E p \in Object : cloud[p] = "going" /\ cloud' = [cloud EXCEPT ![p] = "gone"]
    BY <1>1, <2>3
  <2>4. CASE \E p \in Object : cloud[p] = "unborn" /\ cloud' = [cloud EXCEPT ![p] = "live"]
    BY <1>1, <2>4
  <2> QED
    BY <2>1, <2>2, <2>3, <2>4, CloudStep
<1>3. cloud[o] \in {"live", "going", "gone"}
  BY <1>1 DEF States
<1>4. Exists(o)' => Exists(o)
  BY <1>2, <1>3 DEF Exists
<1>5. ASSUME NEW m \in {"default", "main", "deleting"}, HasMark(o, m), Exists(o)'
      PROVE  HasMark(o, m)'
  <2>1. CASE m \in Marks[o]
    BY <2>1 DEF HasMark
  <2>2. CASE m \notin Marks[o]
    <3>1. m = "deleting" /\ cloud[o] = "going"
      BY <1>5, <2>2 DEF HasMark
    <3>2. cloud'[o] = "going"
      BY <1>2, <1>5, <3>1 DEF Exists
    <3> QED
      BY <3>1, <3>2 DEF HasMark
  <2> QED
    BY <2>1, <2>2
<1>6. IsShown(o)' => IsShown(o)
  BY <1>4, <1>5 DEF IsShown
<1> QED
  BY <1>4, <1>6

\* Before the first deletion everything held that is not protected can be asked about.
LEMMA NamedAreShown ==
  ASSUME GraphInv, Calm, NEW p \in Named, ~Protected(p)
  PROVE  p \in Object /\ IsShown(p) /\ Exists(p)
<1>1. p \in Object /\ cloud[p] # "unborn"
  <2>1. PICK t \in Type : \E n \in names[t] : n[1] = p
    BY DEF Named, Objects
  <2>2. names[t] \subseteq Object \X Occurrence
    BY <2>1 DEF GraphInv, TurnInv, IInv, TypeOK
  <2> QED
    BY <2>1, <2>2 DEF GraphInv, TurnInv, NamesGiven
<1>2. cloud[p] = "live"
  BY <1>1 DEF Calm
<1>3. \A m \in {"default", "main", "deleting"} : ~HasMark(p, m)
  BY <1>2 DEF HasMark, Protected
<1> QED
  BY <1>1, <1>2, <1>3 DEF IsShown, Exists

\* A step that adds no name for a type, and shows nothing new, keeps it complete.
LEMMA StaysComplete ==
  ASSUME NEW t, NEW types, Complete(t, types), Named \subseteq Object,
         \A p \in Named' : TypeOf[p] = t /\ ~Protected(p) => p \in Named,
         \A p \in Named : TypeOf[p] = t => \A o \in Linked[p] :
           (IsShown(o)' => IsShown(o)) /\ (o \in Named => o \in Named')
  PROVE  Complete(t, types)'
BY DEF Complete, Protected

\* No step takes a fault back.
LEMMA FaultsGrow ==
  ASSUME IInv, [Next]_vars
  PROVE  faults \in Nat /\ (faults' = faults \/ faults' = faults + 1)
<1>1. faults \in Nat
  BY DEF IInv, TypeOK
<1>2. CASE (\E t \in Type : StartType(t)) \/ FinishType \/ FinishRun \/ ListResources
           \/ ListingFails \/ AwaitTermination \/ AwaitNatGateways
  BY <1>1, <1>2 DEF StartType, FinishType, FinishRun, ListResources, ListingFails,
                    AwaitTermination, AwaitNatGateways, histVars
<1>3. ASSUME NEW r \in pending,
             \/ AskKids(r) \/ AskKidsFails(r) \/ DryRunRequest(r) \/ Succeed(r)
             \/ Blocked(r) \/ Fault(r) \/ Absent(r)
      PROVE  faults' = faults \/ faults' = faults + 1
  BY <1>3 DEF AskKids, AskKidsFails, DryRunRequest, Succeed, Blocked, Fault, Absent, histVars
<1>4. CASE Environment \/ UNCHANGED vars
  BY <1>1, <1>4 DEF Environment, FinishDeletion, Relaunch, OwnerDeletes, vars, histVars
<1> QED
  BY <1>1, <1>2, <1>3, <1>4 DEF Next, Program, Requesting, Terminated

\* Once the map is filled, and while others act before, what is complete stays so.
LEMMA ClosedRun ==
  ASSUME GraphInv, ClosedInv, [Next]_vars, UNCHANGED graphVars,
         ~IsFilled => UNCHANGED cloud \/ Environment
  PROVE  ClosedInv'
<1>1. /\ IInv /\ UNCHANGED <<at, branch, tagged>> /\ UNCHANGED names /\ LinkedExist
      /\ (faults' = 0 => faults = 0)
  <2>1. IInv /\ UNCHANGED names
    BY HistoryGrows DEF GraphInv, TurnInv
  <2>2. faults \in Nat /\ faults <= faults'
    BY <2>1, FaultsGrow
  <2>3. faults' = 0 => faults = 0
    BY <2>2
  <2> QED
    BY <2>1, <2>3 DEF graphVars, ClosedInv
<1>2. UNCHANGED Named /\ Named \subseteq Object
  BY <1>1 DEF Named, IInv, TypeOK, Objects
<1>3. \A p \in Object : \A o \in Linked[p] : o \in Object /\ cloud[o] # "unborn"
  BY <1>1, LinkedAssumption DEF LinkedExist, LinkedAssumption
<1>4. LinkedExist'
  BY <1>1, <1>3, NothingReturns DEF LinkedExist
<1>5. \A p \in Object : \A o \in Linked[p] :
        (IsShown(o)' => IsShown(o)) /\ (Exists(o)' => Exists(o))
  BY <1>1, <1>3, ShownBefore
<1>6. ASSUME NEW t, NEW types, Complete(t, types) PROVE Complete(t, types)'
  BY <1>2, <1>5, <1>6, StaysComplete
<1>7. RolesComplete => RolesComplete'
  BY <1>1, <1>2, <1>5 DEF RolesComplete
<1>8. ASSUME ~IsFilled, Calm, faults' = 0 PROVE Calm'
  <2>1. \A o \in Object : ~FinishDeletion(o) /\ ~OwnerDeletes(o)
    <3>1. faults = 0
      BY <1>1, <1>8
    <3> QED
      BY <1>8, <3>1 DEF Calm, FinishDeletion, OwnerDeletes
  <2>2. UNCHANGED cloud \/ \E o \in Object : cloud' = [cloud EXCEPT ![o] = "live"]
    BY <1>8, <2>1, ConstantAssumption DEF Environment, Relaunch, ConstantAssumption
  <2>3. cloud \in [Object -> States]
    BY <1>1 DEF IInv, TypeOK
  <2> QED
    BY <1>8, <2>2, <2>3 DEF Calm
<1> QED
  BY <1>1, <1>4, <1>6, <1>7, <1>8 DEF ClosedInv, IsFilled

\* An answer has all that is linked to what is held.
LEMMA AnswerHasAll ==
  ASSUME GraphInv, Calm, NEW t \in Type, NEW ask, ~ask.own,
         NEW p \in Named, TypeOf[p] = t, ~Protected(p),
         NEW o \in Linked[p], TypeOf[o] \in ask.finds, IsShown(o)
  PROVE  o \in Answer(t, ask)
<1>1. p \in NamedOf(t)
  BY DEF GraphInv, TurnInv, IInv, NamesOK, Named, NamedOf, Objects
<1>2. p \in Owners(t, ask)
  BY <1>1, NamedAreShown DEF Owners
<1> QED
  BY <1>2 DEF Answer

\* When every request of a type has been made, all that is followed from it is there.
LEMMA AllAsked ==
  ASSUME NEW t, \A i \in 1..Len(Traversal(t)) :
                  ~Traversal(t)[i].own => Complete(t, Traversal(t)[i].finds)
  PROVE  Complete(t, Followed(t))
<1>1. \A u \in Followed(t) : \E i \in 1..Len(Traversal(t)) :
        ~Traversal(t)[i].own /\ u \in Traversal(t)[i].finds
  BY DEF Followed
<1> QED
  BY <1>1 DEF Complete

\* The traversal leaves a type only when that is so, or there is nothing of the type.
LEMMA LeftComplete ==
  ASSUME GraphInv, ClosedInv, faults = 0, Fill, at' = at + 1, faults' = 0
  PROVE  Complete(Rounds[at], Followed(Rounds[at]))
<1> DEFINE t == Rounds[at]  ask == Traversal(t)[branch]
<1>1. ~IsFilled /\ Calm /\ at \in Nat /\ branch \in Nat \ {0}
  BY RoundsLength DEF Fill, NextType, RequestLinked, RequestLinkedFails, HasRequest, ClosedInv,
                      GraphInv
<1>2. \A i \in 1..Len(Traversal(t)) :
        i < branch /\ ~Traversal(t)[i].own => Complete(t, Traversal(t)[i].finds)
  BY <1>1 DEF ClosedInv
<1>3. ASSUME \A p \in Named : ~(TypeOf[p] = t /\ ~Protected(p))
      PROVE  Complete(t, Followed(t))
  BY <1>3 DEF Complete
<1>4. CASE ~HasRequest
  <2>1. CASE ~(branch <= Len(Traversal(t)))
    <3>1. Len(Traversal(t)) \in Nat
      BY DEF Traversal, VPCTraversal, AutoScalingGroupTraversal
    <3>2. \A i \in 1..Len(Traversal(t)) : i < branch
      BY <1>1, <2>1, <3>1
    <3> QED
      BY <1>2, <3>2, AllAsked
  <2>2. CASE t \notin Type \/ names[t] = {}
    <3>1. \A p \in Named : TypeOf[p] # t
      BY <2>2 DEF GraphInv, TurnInv, IInv, NamesOK, Named, Objects
    <3> QED
      BY <1>3, <3>1
  <2> QED
    BY <1>1, <1>4, <2>1, <2>2 DEF HasRequest
<1>5. CASE HasRequest
  <2>1. /\ t \in Type /\ branch \in 1..Len(Traversal(t)) /\ at \in 1..Len(Rounds)
        /\ RequestOfTable(t, branch)
    BY <1>5, Asked, AskTable
  <2>2. Answer(t, ask) = {} /\ ~ask.keeps
    BY <1>1, <1>5 DEF Fill, NextType, RequestLinked, RequestLinkedFails
  <2>3. CASE ask.own
    <3>1. \A p \in Named : TypeOf[p] = t /\ ~Protected(p) => p \in NamedOf(t) /\ IsShown(p)
      BY <1>1, NamedAreShown DEF GraphInv, TurnInv, IInv, NamesOK, Named, NamedOf, Objects
    <3>2. \A p \in NamedOf(t) : ~IsShown(p)
      BY <2>2, <2>3 DEF Answer, Owners
    <3> QED
      BY <1>3, <3>1, <3>2
  <2>4. CASE ~ask.own
    <3>1. branch = Len(Traversal(t))
      BY <2>1, <2>2, <2>4 DEF RequestOfTable
    <3>2. Complete(t, ask.finds)
      BY <1>1, <2>1, <2>2, <2>4, AnswerHasAll DEF Complete
    <3>3. \A i \in 1..Len(Traversal(t)) : i < branch \/ i = branch
      BY <2>1, <3>1
    <3> QED
      BY <1>2, <3>2, <3>3, AllAsked
  <2> QED
    BY <2>3, <2>4
<1> QED
  BY <1>4, <1>5

\* What a request adds is of types the traversal has not left, and is all it asked for.
LEMMA AddedComplete ==
  ASSUME GraphInv, ClosedInv, faults = 0, HasRequest, UNCHANGED <<cloud, cfg, tagged>>,
         LET t == Rounds[at]  ask == Traversal(t)[branch]  found == Answer(t, ask)
         IN ~ask.own /\ AddResourceNames(t, ask, found \cup WithAnswer(ask, found))
  PROVE  /\ RolesComplete'
         /\ \A i \in 1..at : \A types :
              Complete(Rounds[i], types) => Complete(Rounds[i], types)'
         /\ \A i \in 1..at : \A types :
              i = at /\ types = Traversal(Rounds[at])[branch].finds =>
                Complete(Rounds[i], types)'
<1> DEFINE t == Rounds[at]  ask == Traversal(t)[branch]  found == Answer(t, ask)
           added == found \cup WithAnswer(ask, found)
<1>1. /\ t \in Type /\ branch \in 1..Len(Traversal(t)) /\ at \in 1..Len(Rounds)
      /\ RequestOfTable(t, branch) /\ ~ask.own /\ Calm /\ RolesComplete
  BY Asked, AskTable DEF HasRequest, ClosedInv
<1>2. /\ found \subseteq Object
      /\ \A o \in found : \E p \in Owners(t, ask) : o \in Linked[p] /\ TypeOf[o] \in ask.finds
  BY <1>1, AnswerGiven DEF GraphInv, Answer
<1>3. \A o \in WithAnswer(ask, found) : o \in Object /\ TypeOf[o] \in ask.with
  BY <1>2, WithAnswerGiven
<1>4. Named' = Named \cup added
  <2>1. \A o \in added : ask.eachOwner => \E p \in Owners(t, ask) : o \in Linked[p]
    BY <1>1, <1>2, <1>3 DEF RequestOfTable
  <2>2. added \in SUBSET Object
    BY <1>2, <1>3
  <2> QED
    BY <1>1, <2>1, <2>2, FoundIsNamed
<1>5. \A o \in Object : (IsShown(o)' <=> IsShown(o)) /\ (Exists(o)' <=> Exists(o))
  BY DEF IsShown, Exists, HasMark
<1>6. Named \subseteq Object /\ \A p \in Object : Linked[p] \subseteq Object
  BY LinkedAssumption DEF GraphInv, TurnInv, IInv, TypeOK, Named, Objects, LinkedAssumption
<1>7. \A p \in added : TypeOf[p] \in ask.finds \cup ask.with
  BY <1>2, <1>3
<1>8. ASSUME NEW i \in 1..at, NEW types, Complete(Rounds[i], types)
      PROVE  Complete(Rounds[i], types)'
  <2>1. \A p \in added : TypeOf[p] # Rounds[i]
    BY <1>1, <1>7, FoundForLaterRounds
  <2> QED
    BY <1>4, <1>5, <1>6, <1>8, <2>1 DEF Complete
<1>9. ASSUME NEW i \in 1..at, NEW types, i = at, types = ask.finds
      PROVE  Complete(Rounds[i], types)'
  <2>1. \A p \in added : TypeOf[p] # t
    <3>1. at \in 1..at
      BY <1>1, RoundsLength
    <3> QED
      BY <1>1, <1>7, <3>1, FoundForLaterRounds
  <2>2. \A p \in Named : TypeOf[p] = t /\ ~Protected(p) =>
          \A o \in Linked[p] : TypeOf[o] \in ask.finds /\ IsShown(o) => o \in found
    BY <1>1, AnswerHasAll
  <2> HIDE DEF t, ask, found
  <2>3. Rounds[i] = t
    BY <1>9 DEF t
  <2> QED
    BY <1>4, <1>5, <1>6, <1>9, <2>1, <2>2, <2>3 DEF Complete
<1>10. RolesComplete'
  <2> SUFFICES ASSUME NEW p \in (Named \cup added) \ tagged, TypeOf[p] = "IAMInstanceProfile",
                      NEW o \in Linked[p], TypeOf[o] = "IAMRole", Exists(o)
               PROVE  o \in Named \cup added
    BY <1>2, <1>3, <1>4, <1>5, <1>6 DEF RolesComplete
  <2>1. CASE p \in Named
    BY <1>1, <2>1 DEF RolesComplete
  <2>2. CASE p \in added
    <3>1. TypeOf[p] \notin ask.with
      BY <1>1 DEF RequestOfTable
    <3>2. p \in found /\ TypeOf[p] \in ask.finds
      BY <1>2, <1>3, <2>2, <3>1
    <3>3. ask.with = {"IAMRole"}
      BY <1>1, <3>2 DEF RequestOfTable
    <3> QED
      BY <3>2, <3>3 DEF WithAnswer
  <2> QED
    BY <2>1, <2>2
<1> QED
  BY <1>8, <1>9, <1>10

\* A step of the traversal keeps complete what has been asked for.
LEMMA ClosedFill == ASSUME GraphInv, ClosedInv, Fill PROVE ClosedInv'
<1>1. /\ UNCHANGED <<cloud, cfg, tagged>> /\ LinkedExist' /\ faults \in Nat
      /\ at \in 1..Len(Rounds) /\ branch \in Nat \ {0}
  <2>1. UNCHANGED <<cloud, cfg, tagged>> /\ ~IsFilled
    BY DEF Fill, NextType, RequestLinked, RequestLinkedFails, HasRequest, Unmoved
  <2>2. faults \in Nat
    BY DEF GraphInv, TurnInv, IInv, TypeOK
  <2> QED
    BY <2>1, <2>2, RoundsLength DEF ClosedInv, LinkedExist, GraphInv, IsFilled
<1> SUFFICES ASSUME faults' = 0 PROVE ClosedInv'
  BY <1>1 DEF ClosedInv
<1>2. /\ NextType \/ RequestLinked
      /\ faults = 0 /\ Calm /\ RolesComplete
      /\ \A i \in 1..Len(Rounds) : i < at => Complete(Rounds[i], Followed(Rounds[i]))
      /\ \A i \in 1..Len(Traversal(Rounds[at])) :
           i < branch /\ ~Traversal(Rounds[at])[i].own =>
             Complete(Rounds[at], Traversal(Rounds[at])[i].finds)
  <2>1. NextType \/ RequestLinked
    BY <1>1 DEF Fill, RequestLinkedFails
  <2>2. faults = 0 /\ ~IsFilled
    BY <1>1, <2>1 DEF NextType, RequestLinked, HasRequest
  <2> QED
    BY <2>1, <2>2 DEF ClosedInv
<1>3. Calm'
  BY <1>1, <1>2 DEF Calm
<1>4. CASE UNCHANGED names /\ at' = at + 1 /\ branch' = 1
  <2>1. \A p : Exists(p)' <=> Exists(p)
    BY <1>1 DEF Exists
  <2>2. \A p : IsShown(p)' <=> IsShown(p)
    BY <1>1 DEF IsShown, Exists, HasMark
  <2>3. Complete(Rounds[at], Followed(Rounds[at]))
    BY <1>2, <1>4, LeftComplete
  <2>4. \A i \in 1..Len(Rounds) : i < at' => i < at \/ i = at
    BY <1>1, <1>4
  <2>5. ASSUME NEW i \in 1..Len(Rounds), i < at'
        PROVE  Complete(Rounds[i], Followed(Rounds[i]))'
    <3>1. Complete(Rounds[i], Followed(Rounds[i]))
      BY <1>2, <2>3, <2>4, <2>5
    <3> QED
      BY <1>4, <2>2, <3>1 DEF Complete, Named
  <2>6. RolesComplete'
    BY <1>1, <1>2, <1>4, <2>1 DEF RolesComplete, Named
  <2> QED
    BY <1>1, <1>3, <1>4, <2>5, <2>6 DEF ClosedInv
<1>5. CASE HasRequest /\ ~(UNCHANGED names /\ at' = at + 1 /\ branch' = 1)
  <2> DEFINE t == Rounds[at]  ask == Traversal(t)[branch]
  <2>1. /\ t \in Type /\ branch \in 1..Len(Traversal(t)) /\ RequestOfTable(t, branch)
    BY <1>5, Asked, AskTable
  <2>2. /\ AddResourceNames(t, ask, Answer(t, ask) \cup WithAnswer(ask, Answer(t, ask)))
        /\ at' = at /\ branch' = branch + 1
    BY <1>2, <1>5 DEF NextType, RequestLinked, LeaveType
  <2>3. CASE ~ask.own
    <3>1. /\ RolesComplete'
          /\ \A i \in 1..at : \A types :
               Complete(Rounds[i], types) => Complete(Rounds[i], types)'
          /\ \A i \in 1..at : \A types :
               i = at /\ types = ask.finds => Complete(Rounds[i], types)'
      BY <1>1, <1>2, <1>5, <2>2, <2>3, AddedComplete
    <3>2. ASSUME NEW i \in 1..Len(Rounds), i < at'
          PROVE  Complete(Rounds[i], Followed(Rounds[i]))'
      <4>1. i < at /\ i \in 1..at
        BY <1>1, <2>2, <3>2
      <4> QED
        BY <1>2, <3>1, <4>1
    <3>3. ASSUME NEW k \in 1..Len(Rounds), k = at', NEW i \in 1..Len(Traversal(Rounds[k])),
                 i < branch', ~Traversal(Rounds[k])[i].own
          PROVE  Complete(Rounds[k], Traversal(Rounds[k])[i].finds)'
      <4>1. k = at /\ k \in 1..at /\ (i < branch \/ i = branch)
        BY <1>1, <2>1, <2>2, <3>3
      <4>2. CASE i = branch
        BY <3>1, <4>1, <4>2
      <4>3. CASE i < branch
        <5>1. Complete(Rounds[k], Traversal(Rounds[k])[i].finds)
          BY <1>2, <3>3, <4>1, <4>3
        <5> QED
          BY <3>1, <4>1, <5>1
      <4> QED
        BY <4>1, <4>2, <4>3
    <3> QED
      BY <1>1, <1>3, <2>2, <3>1, <3>2, <3>3 DEF ClosedInv
  <2>4. CASE ask.own
    <3>1. at = 1 /\ branch = 1 /\ t = "VPC" /\ ask.with = {}
      BY <1>1, <2>1, <2>4, RoundOf DEF RequestOfTable
    <3>2. AddResourceNames(t, ask, Answer(t, ask))
      <4>1. WithAnswer(ask, Answer(t, ask)) = {}
        BY <3>1 DEF WithAnswer
      <4> QED
        BY <2>2, <4>1
    <3>3. /\ names'["VPC"] = Answer(t, ask) \X {1}
          /\ \A u \in Type \ {"VPC"} : names'[u] = names[u]
      BY <2>1, <2>4, <3>1, <3>2, OwnAnswer
    <3>4. NamesOK /\ NamesOK'
      BY FillStep DEF GraphInv, TurnInv, IInv
    <3>5. \A p : p \in Named' => p \in Named \/ TypeOf[p] = "VPC"
      BY <3>3, <3>4 DEF NamesOK, Named, Objects
    <3>6. \A o \in Named : TypeOf[o] # "VPC" => o \in Named'
      BY <3>3, <3>4 DEF NamesOK, Named, Objects
    <3>7. RolesComplete'
      BY <1>1, <1>2, <3>5, <3>6 DEF RolesComplete, Exists
    <3> QED
      BY <1>1, <1>3, <2>1, <2>2, <3>1, <3>7 DEF ClosedInv, RequestOfTable
  <2> QED
    BY <2>3, <2>4
<1> QED
  BY <1>2, <1>4, <1>5 DEF NextType, RequestLinked, LeaveType

\* One pass through the rounds is enough, for every account and whatever it was given:
\* no request adds a name to a type the traversal has left.
THEOREM ClosedHolds ==
  ASSUME LinkedAtFirst PROVE GraphSpec => []Closed
<1>1. GraphInit => ClosedInv
  <2> SUFFICES ASSUME GraphInit PROVE ClosedInv
    OBVIOUS
  <2>1. at = 1 /\ branch = 1 /\ Named = tagged /\ \A o \in Object : cloud[o] = Born(o)
    BY DEF GraphInit, Init, Named, NamedOf
  <2>2. Calm
    BY <2>1 DEF Calm, Born
  <2>3. LinkedExist
    BY <2>1, LinkedAssumption DEF LinkedExist, LinkedAtFirst, LinkedAssumption, Born
  <2>4. RolesComplete
    BY <2>1 DEF RolesComplete
  <2> QED
    BY <2>1, <2>2, <2>3, <2>4 DEF ClosedInv
<1>2. GraphInv /\ ClosedInv /\ [GraphNext]_allVars => ClosedInv'
  <2> SUFFICES ASSUME GraphInv, ClosedInv, [GraphNext]_allVars PROVE ClosedInv'
    OBVIOUS
  <2>1. CASE Delete \/ ((Environment \/ Terminated) /\ UNCHANGED graphVars)
    <3>1. UNCHANGED graphVars /\ (~IsFilled => UNCHANGED cloud \/ Environment)
      BY <2>1 DEF Delete, Terminated, vars
    <3> QED
      BY <2>1, <3>1, RunStep, ClosedRun
  <2>2. CASE UNCHANGED allVars
    BY <2>2, ClosedRun DEF allVars, vars
  <2> QED
    BY <2>1, <2>2, ClosedFill DEF GraphNext
<1>3. GraphInv /\ ClosedInv => Closed
  <2> SUFFICES ASSUME GraphInv, ClosedInv, IsFilled, faults = 0, NEW p \in Named, NEW o \in Linked[p],
                      ~Protected(p), IsShown(o), TypeOf[o] \in Followed(TypeOf[p])
               PROVE  o \in Named
    BY DEF Closed, ClosedInv, RolesComplete
  <2>1. TypeOf[p] \in {"VPC", "AutoScalingGroup", "VPNGateway", "Instance", "NetworkInterface",
                      "RouteTable", "LaunchConfiguration"}
    <3>1. PICK i \in 1..Len(Traversal(TypeOf[p])) : TRUE
      BY DEF Followed
    <3>2. \A t : \A k \in 1..Len(Traversal(t)) :
            t \in {"VPC", "AutoScalingGroup", "VPNGateway", "Instance", "NetworkInterface",
                  "RouteTable", "LaunchConfiguration"}
      BY TraversalOf
    <3> QED
      BY <3>1, <3>2
  <2>2. \E i \in 1..Len(Rounds) : Rounds[i] = TypeOf[p]
    <3>1. \A i \in {1, 2, 5, 8, 10, 12, 13} : i \in 1..Len(Rounds)
      BY RoundsLength
    <3>2. /\ Rounds[1] = "VPC" /\ Rounds[2] = "AutoScalingGroup" /\ Rounds[5] = "VPNGateway"
          /\ Rounds[8] = "Instance" /\ Rounds[10] = "NetworkInterface"
          /\ Rounds[12] = "RouteTable" /\ Rounds[13] = "LaunchConfiguration"
      BY DEF Rounds
    <3> QED
      BY <2>1, <3>1, <3>2
  <2>3. \A i \in 1..Len(Rounds) : Complete(Rounds[i], Followed(Rounds[i]))
    <3>1. \A i \in 1..Len(Rounds) : i < at
      BY RoundsLength DEF GraphInv, IsFilled
    <3> QED
      BY <3>1 DEF ClosedInv
  <2> QED
    BY <2>2, <2>3 DEF Complete
<1> QED
  BY <1>1, <1>2, <1>3, FilledMapHasItsTurns, PTL DEF GraphSpec

(***************************************************************************)
(* The success of an undisturbed run with --all-deps.                      *)
(***************************************************************************)

\* What is known while the map is filled.
Calmly == Started /\ CascadesDone /\ (~IsFilled /\ Undisturbed => Calm)

\* Before the first deletion all that a fitting run is to delete is waiting, and live.
LEMMA MapIsCalm ==
  TurnInv /\ NotBegun /\ Started /\ CascadesDone /\ (Undisturbed => Calm) /\ Fits(names)
    => CalmInv
<1> SUFFICES ASSUME TurnInv, NotBegun, Started, CascadesDone, Undisturbed => Calm, Fits(names)
             PROVE  CalmInv
  OBVIOUS
<1>1. TypeOK /\ PartsFit(names)
  BY DEF TurnInv, IInv, Fits, FitsBut
<1>2. /\ cur = None /\ pending = {} /\ exit = "running" /\ heldUp = {}
      /\ todo = {t \in Type : names[t] # {}}
  BY DEF NotBegun
<1>3. InTurn /\ DoneInOrder
  BY <1>2 DEF InTurn, DoneInOrder
<1>4. ShapeOK /\ PendingLive
  BY <1>2 DEF ShapeOK, PendingLive
<1>5. ASSUME Undisturbed, NEW o \in Work(names)
      PROVE  cloud[o] = "live" /\ TurnOf(names, o) \in todo
  <2>1. o \in Object /\ ~IsReplacement(o)
    BY <1>1 DEF Work, PartsFit
  <2>2. cloud[o] # "unborn" /\ cloud[o] \in {"unborn", "live"}
    BY <1>5, <2>1 DEF Started, Calm
  <2>3. TurnOf(names, o) \in Type /\ names[TurnOf(names, o)] # {}
    BY <1>1, WorkFacts
  <2> QED
    BY <1>2, <2>2, <2>3
<1>6. Undisturbed => Untouched /\ Progressed
  BY <1>5 DEF Untouched, Progressed, IsWaiting
<1> QED
  BY <1>2, <1>3, <1>4, <1>6 DEF CalmInv, CalmOK, HeldUpOK

\* Nothing begins with the traversal.
LEMMA FillBeginsNothing ==
  ASSUME GraphInv, Fill
  PROVE  NotBegun' /\ UNCHANGED <<cloud, late>> /\ (faults' = 0 => faults = 0)
<1>1. NotBegun /\ UNCHANGED <<exit, cur, pending, awaited, touched, cloud, late, heldUp>>
  BY DEF Fill, NextType, RequestLinked, RequestLinkedFails, HasRequest, Unmoved, GraphInv
<1>2. ASSUME UNCHANGED <<names, todo>> PROVE NotBegun'
  BY <1>1, <1>2 DEF NotBegun
<1>3. ASSUME \E t, ask, found : AddResourceNames(t, ask, found) PROVE NotBegun'
  BY <1>1, <1>3 DEF NotBegun, AddResourceNames
<1>4. CASE NextType
  BY <1>1, <1>2, <1>4 DEF NextType
<1> DEFINE t == Rounds[at]  ask == Traversal(t)[branch]
<1>5. CASE RequestLinked
  <2>1. /\ UNCHANGED faults
        /\ \/ UNCHANGED <<names, todo>>
           \/ AddResourceNames(t, ask, Answer(t, ask) \cup WithAnswer(ask, Answer(t, ask)))
    BY <1>5 DEF RequestLinked
  <2> QED
    BY <1>1, <1>2, <1>3, <2>1
<1>6. CASE RequestLinkedFails
  <2>1. /\ faults' = faults + 1
        /\ \/ UNCHANGED <<names, todo>>
           \/ \E found \in SUBSET Answer(t, ask) : AddResourceNames(t, ask, found)
    BY <1>6 DEF RequestLinkedFails
  <2>2. faults \in Nat
    BY DEF GraphInv, TurnInv, IInv, TypeOK
  <2> QED
    BY <1>1, <1>2, <1>3, <2>1, <2>2
<1> QED
  BY <1>4, <1>5, <1>6 DEF Fill

\* While the map is filled nobody deletes anything, unless the run is disturbed.
LEMMA CalmlyRun ==
  ASSUME GraphInv, Calmly, [Next]_vars, UNCHANGED graphVars,
         ~IsFilled => UNCHANGED cloud \/ Environment
  PROVE  Calmly'
<1>1. IInv /\ TypeOK /\ cloud \in [Object -> States] /\ UNCHANGED <<at>>
  BY DEF GraphInv, TurnInv, IInv, TypeOK, graphVars
<1>2. Started' /\ CascadesDone'
  BY <1>1, CascadeStep DEF Calmly
<1>3. ASSUME ~IsFilled, Undisturbed' PROVE Calm'
  <2>1. Calm /\ \A o \in Object : ~OwnerDeletes(o)
    BY <1>1, <1>3, UndisturbedStep DEF Calmly
  <2>2. \A o \in Object : ~FinishDeletion(o)
    BY <2>1 DEF Calm, FinishDeletion
  <2>3. UNCHANGED cloud \/ \E o \in Object : cloud' = [cloud EXCEPT ![o] = "live"]
    BY <1>3, <2>1, <2>2, ConstantAssumption DEF Environment, Relaunch, ConstantAssumption
  <2> QED
    BY <1>1, <2>1, <2>3 DEF Calm
<1> QED
  BY <1>1, <1>2, <1>3 DEF Calmly, IsFilled

\* So it is when the deletions begin, and while they go on.
CalmGraph == Calmly /\ (IsFilled /\ Fits(names) => CalmInv)

LEMMA CalmGraphHolds ==
  ASSUME DeletersFit PROVE GraphSpec => []CalmGraph
<1>1. GraphInit => CalmGraph
  <2> SUFFICES ASSUME GraphInit PROVE CalmGraph
    OBVIOUS
  <2>1. ~IsFilled /\ \A o \in Object : cloud[o] = IF IsReplacement(o) THEN "unborn" ELSE "live"
    BY RoundsLength DEF GraphInit, Init, Born, IsFilled, IsReplacement
  <2> QED
    BY <2>1 DEF CalmGraph, Calmly, Started, CascadesDone, Calm
<1>2. GraphInv /\ CalmGraph /\ [GraphNext]_allVars => CalmGraph'
  <2> SUFFICES ASSUME GraphInv, CalmGraph, [GraphNext]_allVars PROVE CalmGraph'
    OBVIOUS
  <2>1. CASE Fill
    <3>1. /\ ~IsFilled /\ NotBegun' /\ UNCHANGED <<cloud, late>>
          /\ (faults' = 0 => faults = 0) /\ TurnInv'
      BY <2>1, FillBeginsNothing, FillStep
         DEF Fill, NextType, RequestLinked, RequestLinkedFails, HasRequest, GraphInv
    <3>2. Started' /\ CascadesDone' /\ (Undisturbed' => Calm')
      BY <3>1 DEF CalmGraph, Calmly, Started, CascadesDone, Undisturbed, Calm
    <3>3. Fits(names)' => CalmInv'
      <4>1. (TurnInv /\ NotBegun /\ Started /\ CascadesDone /\ (Undisturbed => Calm)
               /\ Fits(names) => CalmInv)'
        BY MapIsCalm, PTL
      <4> QED
        BY <3>1, <3>2, <4>1
    <3> QED
      BY <3>2, <3>3 DEF CalmGraph, Calmly
  <2>2. CASE ~Fill
    <3>1. /\ [Next]_vars /\ UNCHANGED graphVars /\ (~IsFilled => UNCHANGED cloud \/ Environment)
      <4>1. CASE Delete \/ ((Environment \/ Terminated) /\ UNCHANGED graphVars)
        BY <4>1, RunStep DEF Delete, Terminated, vars
      <4>2. CASE UNCHANGED allVars
        BY <4>2 DEF allVars, vars
      <4> QED
        BY <2>2, <4>1, <4>2 DEF GraphNext
    <3>2. names' = names /\ IsFilled' = IsFilled
      BY <3>1, HistoryGrows DEF GraphInv, TurnInv, graphVars, IsFilled
    <3> QED
      BY <3>1, <3>2, CalmlyRun, CalmStep DEF CalmGraph, GraphInv
  <2> QED
    BY <2>1, <2>2
<1> QED
  BY <1>1, <1>2, FilledMapHasItsTurns, PTL DEF GraphSpec

\* When no request fails, of the traversal's or of the run's, nobody else deletes
\* anything and AWS finishes in time, a run with --all-deps deletes all that was tagged
\* and all that the traversal added but what is default or main or held up by deletions
\* that nobody waits for, provided the order fits the map that was filled.
THEOREM AllDepsRunSucceeds ==
  ASSUME DeletersFit
  PROVE  GraphSpec => [](IsFilled /\ Fits(names) => UndisturbedRunSucceeds)
<1>1. GraphInv /\ CalmGraph => (IsFilled /\ Fits(names) => UndisturbedRunSucceeds)
  BY CalmSucceeds DEF GraphInv, CalmGraph
<1> QED
  BY <1>1, CalmGraphHolds, FilledMapHasItsTurns, PTL

\* Such a run reports no failure either but of what is held up: a name the traversal
\* added again does no harm when its deleter lists by filter, as NamesFit asks.
THEOREM AllDepsRunFailsNothing ==
  ASSUME DeletersFit
  PROVE  GraphSpec => [](IsFilled /\ Fits(names) =>
                           NothingFails /\ (~late => NothingDeletedTwice))
<1> DEFINE Inv == IF IsFilled THEN Fits(names) => NothingFails ELSE log = {}
<1>1. GraphInit => Inv
  BY RoundsLength DEF GraphInit, Init, IsFilled
<1>2. GraphInv /\ CalmGraph /\ Inv /\ [GraphNext]_allVars => Inv'
  <2> SUFFICES ASSUME GraphInv, CalmGraph, Inv, [GraphNext]_allVars PROVE Inv'
    OBVIOUS
  <2>1. CASE ~IsFilled
    <3>1. log = {} /\ UNCHANGED log
      BY <2>1 DEF GraphNext, Fill, NextType, RequestLinked, RequestLinkedFails, Unmoved, Delete,
                  Environment, FinishDeletion, Relaunch, OwnerDeletes, Terminated, allVars, vars
    <3>2. NothingFails'
      BY <3>1 DEF NothingFails
    <3> QED
      BY <3>1, <3>2
  <2>2. CASE IsFilled
    <3>1. ~Fill
      BY <2>2 DEF Fill, NextType, RequestLinked, RequestLinkedFails, HasRequest
    <3>2. [Next]_vars /\ UNCHANGED graphVars
      BY <3>1, RunStep DEF GraphNext, allVars, Delete
    <3>3. names' = names /\ IsFilled' /\ TypeOK
      BY <2>2, <3>2, HistoryGrows DEF GraphInv, TurnInv, IInv, graphVars, IsFilled
    <3>4. ASSUME Fits(names) PROVE NothingFails'
      <4>1. ASSUME Undisturbed' PROVE CalmFits
        BY <2>2, <3>2, <3>3, <3>4, <4>1, UndisturbedStep, LaggardsFit
           DEF CalmFits, CalmInv, CalmGraph, GraphInv, TurnInv
      <4> QED
        BY <2>2, <3>2, <3>4, <4>1, NothingFailsStep DEF NothingFails
    <3> QED
      BY <3>3, <3>4
  <2> QED
    BY <2>1, <2>2
<1>3. Inv => (IsFilled /\ Fits(names) => NothingFails /\ (~late => NothingDeletedTwice))
  BY NoFailureNotTwice
<1> QED
  BY <1>1, <1>2, <1>3, CalmGraphHolds, FilledMapHasItsTurns, PTL DEF GraphSpec

(***************************************************************************)
(* The promise of SafeDelete.                                              *)
(***************************************************************************)

\* The traversal changes nothing, and what runs on the filled map keeps the promise
\* made to whoever names all that is in it.
THEOREM AllDepsKeepsThePromise ==
  ASSUME MarksAreHidden
  PROVE  GraphSpec => /\ [](~IsFilled => exit = "running" /\ touched = {})
                      /\ [][IsFilled => [Safe!Next]_(Safe!vars)]_allVars
<1>1. GraphInv => (~IsFilled => exit = "running" /\ touched = {})
  BY DEF GraphInv, NotBegun
<1>2. GraphInv /\ [GraphNext]_allVars => [IsFilled => [Safe!Next]_(Safe!vars)]_allVars
  <2> SUFFICES ASSUME GraphInv, [GraphNext]_allVars, IsFilled PROVE [Safe!Next]_(Safe!vars)
    OBVIOUS
  <2>1. ~Fill
    BY DEF Fill, NextType, RequestLinked, RequestLinkedFails, HasRequest
  <2>2. [Next]_vars
    BY <2>1, RunStep DEF GraphNext, allVars
  <2> QED
    BY <2>2, SafeStep DEF GraphInv
<1> QED
  BY <1>1, <1>2, FilledMapHasItsTurns, PTL DEF GraphSpec

(***************************************************************************)
(* The log, the end and the order of a run with --all-deps.                *)
(***************************************************************************)

\* Nothing is logged, touched or dropped by the traversal, so what a run without
\* --all-deps says of the log, of errors and of what it drops is true with it, and
\* blockers go first when DelOrder suits the map that was filled.
RunInv ==
  /\ LogOK /\ AwaitedDeleted /\ StopsExactlyAtErrors
  /\ OrderInv

LEMMA RunInvFill ==
  ASSUME GraphInv, RunInv, Fill
  PROVE  RunInv' /\ UNCHANGED skipped
<1>1. /\ NotBegun' /\ UNCHANGED <<cfg, cur, log, exit, touched, skipped, awaited, cloud, late>>
  BY FillBeginsNothing
     DEF Fill, NextType, RequestLinked, RequestLinkedFails, Unmoved
<1>2. LogOK' /\ AwaitedDeleted'
  BY <1>1 DEF RunInv, LogOK, IsDeleted, NotBegun, AwaitedDeleted
<1>3. StopsExactlyAtErrors'
  BY <1>1 DEF RunInv, StopsExactlyAtErrors, Failed, Swallowed
<1>4. OrderInv'
  BY <1>1 DEF NotBegun, OrderInv, InTurn, SourceOK
<1> QED
  BY <1>1, <1>2, <1>3, <1>4 DEF RunInv

\* With --all-deps as without: the log does not call deleted what lives, a run stops at
\* errors exactly when it is to, a live resource is dropped for a reason only, and
\* blockers go before what they block when the order suits the map.
THEOREM AllDepsRunsAlike ==
  GraphSpec =>
    /\ []LogIsTruthful /\ []StopsExactlyAtErrors
    /\ [](OrderSuits(names) => BlockersGoFirst)
    /\ DroppedForAReason
<1>1. GraphInit => RunInv
  BY DEF GraphInit, Init, RunInv, LogOK, AwaitedDeleted, StopsExactlyAtErrors, Failed,
         OrderInv, InTurn, SourceOK
<1>2. GraphInv /\ [GraphNext]_allVars => Fill \/ [Next]_vars
  BY RunStep DEF GraphNext, allVars
<1>3. GraphInv /\ RunInv /\ [GraphNext]_allVars => RunInv'
  <2> SUFFICES ASSUME GraphInv, RunInv, [Next]_vars PROVE RunInv'
    BY <1>2, RunInvFill
  <2> QED
    BY LogStep, AwaitedStep, StopsStep, OrderStep DEF RunInv, GraphInv, TurnInv
<1>4. GraphInv /\ RunInv =>
        /\ LogIsTruthful /\ StopsExactlyAtErrors
        /\ OrderSuits(names) => BlockersGoFirst
  BY SuitedOrder DEF RunInv, LogOK, LogIsTruthful, IsDeleted, GraphInv, TurnInv
<1>5. GraphInv /\ RunInv /\ [GraphNext]_allVars =>
        [\A o \in skipped' \ skipped : cloud[o] = "live" =>
           Hidden(o) \/ faults' > faults \/ Deleter[TypeOf[o]].kidError = "nextItem"]_vars
  BY <1>2, RunInvFill, DropStep DEF GraphInv
<1> QED
  BY <1>1, <1>3, <1>4, <1>5, FilledMapHasItsTurns, PTL DEF GraphSpec, DroppedForAReason
=============================================================================
