------------------------------ MODULE DepGraph ------------------------------
(***************************************************************************)
(* `grafiti delete --all-deps': before the first deletion the map from     *)
(* types to ResourceNames, made from what carries the tags, is filled with *)
(* what those resources need or contain (graph/graph.go).  The types are   *)
(* gone through once, in rounds; each asks AWS for what its resources are  *)
(* linked to and appends the answer to the names of other types.  Then     *)
(* deleteARNs runs on the filled map: module DeleteRun, whose `names' and  *)
(* `todo' are that map.                                                    *)
(*                                                                         *)
(* A key whose names are empty makes no request and has nothing deleted,   *)
(* so the model does not tell it from a missing key.                       *)
(***************************************************************************)
EXTENDS DeleteRun

CONSTANT Linked   \* what AWS reports when asked for what belongs to an object

ASSUME LinkedAssumption == IsFiniteSet(Object) /\ Linked \in [Object -> SUBSET Object]

VARIABLES
  at,      \* position in Rounds
  branch,  \* position in the requests of the type at that position
  tagged   \* history: what the map held at first

graphVars == <<at, branch, tagged>>
allVars == <<vars, graphVars>>

(***************************************************************************)
(* The rounds, one after the other.                                        *)
(***************************************************************************)
RoundsDependentsFirst ==
  << "VPC", "AutoScalingGroup", "HostedZone", "S3Bucket",
     "RouteTableAssociation", "EIP", "EIPAssociation", "NetworkACL",
     "VPNGateway", "NatGateway", "InternetGateway", "NetworkInterface", "Subnet",
     "Instance", "SecurityGroup", "RouteTable", "LaunchConfiguration" >>

Rounds ==
  << "VPC", "AutoScalingGroup", "HostedZone", "S3Bucket",
     "VPNGateway", "NatGateway", "InternetGateway", "Instance", "Subnet",
     "NetworkInterface", "SecurityGroup", "RouteTable", "LaunchConfiguration",
     "RouteTableAssociation", "EIP", "EIPAssociation", "NetworkACL" >>

IsFilled == at > Len(Rounds)

(***************************************************************************)
(* The requests of traverseDependencyGraph for each type:                  *)
(*   finds     the types the answer is added to                            *)
(*   with      types whose names come with an answer (roles of a profile)  *)
(*   eachOwner an answer is added once for every owner that has it         *)
(*   keeps     what was listed before an error is used; otherwise an error *)
(*             or an empty answer ends the traversal of the type           *)
(*   records   the answer is read off the listed records of the owners, so *)
(*             an owner that is not shown has none; otherwise the request  *)
(*             is filtered by the names of the owners                      *)
(*   own       the request is for the resources of the type themselves,    *)
(*             whose names the answer replaces                             *)
(***************************************************************************)
Ask(types) ==
  [finds |-> types, with |-> {}, eachOwner |-> FALSE, keeps |-> FALSE,
   records |-> FALSE, own |-> FALSE]
Gather(type) == [Ask({type}) EXCEPT !.keeps = TRUE]
AskForProfiles ==
  [Ask({"IAMInstanceProfile"}) EXCEPT !.with = {"IAMRole"}, !.records = TRUE]

VPCTraversalOfAll ==
  << Gather("Instance"), Gather("InternetGateway"), Gather("NatGateway"),
     Gather("NetworkInterface"), Gather("RouteTable"), Gather("SecurityGroup"),
     Gather("Subnet"), Gather("VPNGateway") >>

VPCTraversal ==
  << [Ask({"VPC"}) EXCEPT !.own = TRUE],
     Gather("Instance"), Gather("InternetGateway"), Gather("NatGateway"),
     Gather("NetworkInterface"), Gather("RouteTable"), Gather("SecurityGroup"),
     Gather("Subnet"), Gather("VPNGateway") >>

AutoScalingGroupTraversal ==
  << [Ask({"LaunchConfiguration", "LoadBalancer"}) EXCEPT
        !.eachOwner = TRUE, !.records = TRUE] >>

Traversal(t) ==
  CASE t = "VPC"                 -> VPCTraversal
    [] t = "AutoScalingGroup"    -> AutoScalingGroupTraversal
    [] t = "VPNGateway"          -> << Ask({"VPNConnection"}) >>
    [] t = "Instance"            -> << Gather("NetworkInterface"), AskForProfiles >>
    [] t = "NetworkInterface"    -> << Ask({"EIP", "EIPAssociation"}) >>
    [] t = "RouteTable"          -> << [Ask({"RouteTableAssociation"}) EXCEPT !.records = TRUE] >>
    [] t = "LaunchConfiguration" -> << AskForProfiles >>
    [] OTHER                     -> << >>

Followed(t) == UNION {Traversal(t)[i].finds :
                        i \in {j \in 1..Len(Traversal(t)) : ~Traversal(t)[j].own}}

(***************************************************************************)
(* What AWS answers.  The functions that ask leave out what is default or  *)
(* main or already being deleted, as the same functions do for deletion.   *)
(***************************************************************************)
IsShown(o) ==
  /\ Exists(o)
  /\ \A mark \in Deleter[TypeOf[o]].hides \cap {"default", "main", "deleting"} :
       ~HasMark(o, mark)

NamedOf(t) == Objects(names[t])

Owners(t, ask) ==
  {p \in NamedOf(t) : IF ask.own \/ ask.records THEN IsShown(p) ELSE Exists(p)}

Answer(t, ask) ==
  IF ask.own THEN Owners(t, ask)
  ELSE {o \in UNION {Linked[p] : p \in Owners(t, ask)} :
          TypeOf[o] \in ask.finds /\ IsShown(o)}

WithAnswer(ask, found) ==
  {o \in UNION {Linked[p] : p \in found} : TypeOf[o] \in ask.with /\ Exists(o)}

(***************************************************************************)
(* AddResourceNames appends: a name that is there already is there twice   *)
(* (or more often, which Occurrence does not tell from twice).             *)
(***************************************************************************)
TimesFound(t, ask, o) ==
  IF ask.eachOwner THEN Cardinality({p \in Owners(t, ask) : o \in Linked[p]}) ELSE 1

Occurrences(o) == {n \in Occurrence : <<o, n>> \in names[TypeOf[o]]}

NewOccurrences(t, ask, o) ==
  {n \in Occurrence : Cardinality(Occurrences(o)) < n
                      /\ n <= Cardinality(Occurrences(o)) + TimesFound(t, ask, o)}

AddResourceNames(t, ask, found) ==
  /\ names' = [u \in Type |->
       IF ask.own /\ u = t
       THEN found \X {1}
       ELSE names[u] \cup UNION {{o} \X NewOccurrences(t, ask, o) :
                                  o \in {p \in found : TypeOf[p] = u}}]
  /\ todo' = {u \in Type : names'[u] # {}}

(***************************************************************************)
(* FillDependencyGraph                                                     *)
(***************************************************************************)
GraphInit ==
  /\ Init
  /\ at = 1 /\ branch = 1
  /\ tagged = UNION {NamedOf(t) : t \in Type}

Unmoved ==
  UNCHANGED <<cfg, cur, listed, pending, item, attempt, awaited, exit, log, cloud,
              touched, skipped, late, heldUp, tagged>>

HasRequest == ~IsFilled /\ branch <= Len(Traversal(Rounds[at]))
              /\ Rounds[at] \in Type /\ names[Rounds[at]] # {}

NextType ==
  /\ ~IsFilled /\ ~HasRequest
  /\ at' = at + 1 /\ branch' = 1
  /\ UNCHANGED <<names, todo, faults>> /\ Unmoved

LeaveType == at' = at + 1 /\ branch' = 1

RequestLinked ==
  /\ HasRequest
  /\ LET t     == Rounds[at]
         ask   == Traversal(t)[branch]
         found == Answer(t, ask)
     IN IF found = {} /\ ~ask.keeps
        THEN LeaveType /\ UNCHANGED <<names, todo>>
        ELSE /\ AddResourceNames(t, ask, found \cup WithAnswer(ask, found))
             /\ branch' = branch + 1 /\ UNCHANGED at
  /\ UNCHANGED faults /\ Unmoved

\* No error ends the traversal, with or without --ignore-errors.
RequestLinkedFails ==
  /\ HasRequest /\ faults < MaxFaults
  /\ faults' = faults + 1
  /\ LET t == Rounds[at]  ask == Traversal(t)[branch] IN
     IF ask.keeps
     THEN /\ \E found \in SUBSET Answer(t, ask) : AddResourceNames(t, ask, found)
          /\ branch' = branch + 1 /\ UNCHANGED at
     ELSE LeaveType /\ UNCHANGED <<names, todo>>
  /\ Unmoved

(***************************************************************************)
(* Specification                                                           *)
(***************************************************************************)
Fill == NextType \/ RequestLinked \/ RequestLinkedFails

Delete == IsFilled /\ Program /\ UNCHANGED graphVars

GraphNext ==
  \/ Fill
  \/ Delete
  \/ Environment /\ UNCHANGED graphVars
  \/ Terminated /\ UNCHANGED graphVars

GraphSpec == GraphInit /\ [][GraphNext]_allVars

(***************************************************************************)
(* Correctness                                                             *)
(***************************************************************************)
\* One pass through the rounds is enough: when no request fails, the map holds
\* every resource that is linked to one it holds, however long the chain, and the
\* roles of the profiles it found.  The traversal never comes back to a type, so a
\* name found for a type it has left would be missed (graph.go:42-56).
Closed ==
  IsFilled /\ faults = 0 =>
    \A p \in Named : \A o \in Linked[p] :
      \/ /\ ~Protected(p) /\ IsShown(o)
         /\ TypeOf[o] \in Followed(TypeOf[p])
      \/ /\ TypeOf[p] = "IAMInstanceProfile" /\ p \notin tagged
         /\ TypeOf[o] = "IAMRole" /\ Exists(o)
      => o \in Named

\* Whatever fails: what the traversal adds belongs to something in the map that is
\* not AWS's default, so nothing in a tagged default VPC is deleted because of it
\* ("Ensures that no default VPC's are used", graph.go:64).
PulledInByItsOwner ==
  \A o \in Named \ tagged :
    \E p \in Named : o \in Linked[p] /\ ~Protected(p)
=============================================================================
