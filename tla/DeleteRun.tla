------------------------------ MODULE DeleteRun ------------------------------
(***************************************************************************)
(* One run of `grafiti delete' from the moment the resources are bucketed  *)
(* by type: deleteARNs walks the types in deletion order and runs the      *)
(* DeleteResources method of each (cmd/grafiti/delete.go, deleter/).  AWS  *)
(* is the environment: it refuses to delete what is still depended on,     *)
(* finishes some deletions later, fails or loses requests, and is shared   *)
(* with other actors (auto scaling, the owner of the resources).           *)
(*                                                                         *)
(* One step of the program is one request.  A retried request is several   *)
(* steps, because AWS may change between two attempts.                     *)
(***************************************************************************)
EXTENDS Naturals, FiniteSets, Sequences

CONSTANTS
  Type,           \* resource types
  Object,         \* the resources of the account, their parts included
  TypeOf,         \* the type of each
  ParentOf,       \* the resource an object is a part of; None
  None,
  Marks,          \* "default" and "main", as AWS reports them
  Blockers,       \* AWS refuses to delete an object while one of these exists
  Cascade,        \* what AWS deletes by itself with an object
  Replaces,       \* the instance auto scaling starts when this one is gone; None
  Async,          \* types whose deletion AWS finishes after the request
  Unawaited,      \* those of them whose end the code does not wait for
  Retryable,      \* types AWS refuses to delete with DependencyViolation
  Deleter,        \* the ResourceDeleter of each type (module Deleters)
  DelOrder,       \* DeleteOrder: the REVERSE order of deletion
  ResMaps,        \* the possible results of bucketARNs
  Configs,        \* the possible DeleteConfigs
  NumMaxRetries,  \* retries of one request
  MaxFaults       \* bound on failed requests and foreign deletions

States == {"unborn", "live", "going", "gone"}
Results == {"deleted", "failed", "absent"}

(***************************************************************************)
(* A name may be given twice, so the loop runs over <<object, occurrence>>.*)
(***************************************************************************)
Occurrence == {1, 2}
Item == (Object \cup {None}) \X Occurrence

(***************************************************************************)
(* A request still to be made for an item: delete `targets' or, when there *)
(* are none, list the parts of the item.  Requests of lower rank go first. *)
(***************************************************************************)
Request == [item : Item, targets : SUBSET Object, rank : Nat]

DeleterRecord ==
  [ selects : {"names", "filter", "each"},
    hides : SUBSET {"default", "main", "deleting", "attached", "in use"},
    kids : Seq(Type), kidStates : SUBSET States,
    order : {"itemByItem", "kidsFirst"}, asksKids : BOOLEAN,
    kidError : {"return", "nextItem"}, batch : BOOLEAN,
    waits : {"no", "terminated", "polled"},
    dryRun : {"flag", "local", "unchecked"}, tolerates : BOOLEAN ]

ASSUME ConstantAssumption ==
  /\ None \notin Object /\ None \notin Type
  /\ TypeOf \in [Object -> Type]
  /\ ParentOf \in [Object -> Object \cup {None}]
  /\ Marks \in [Object -> SUBSET {"default", "main"}]
  /\ Blockers \in [Object -> SUBSET Object]
  /\ Cascade \in [Object -> SUBSET Object]
  /\ Replaces \in [Object -> Object \cup {None}]
  /\ Deleter \in [Type -> DeleterRecord]
  /\ \A t \in Type : /\ Deleter[t].selects = "names" => Deleter[t].hides = {}
                     /\ Deleter[t].waits # "no" => Deleter[t].kids = << >>
                     /\ Deleter[t].tolerates => ~Deleter[t].batch
  /\ DelOrder \in Seq(STRING)
  /\ NumMaxRetries \in Nat
  /\ MaxFaults \in Nat
  /\ Configs \subseteq [DryRun : BOOLEAN, IgnoreErrors : BOOLEAN]

\* What bucketARNs files under a type is of that type and exists already; a name
\* that is there twice is there once.
ASSUME NamesAssumption ==
  \A m \in ResMaps :
    /\ m \in [Type -> SUBSET (Object \X Occurrence)]
    /\ \A t \in Type : \A n \in m[t] : TypeOf[n[1]] = t
    /\ \A t \in Type : \A n \in m[t] : n[2] = 1 \/ <<n[1], 1>> \in m[t]
    /\ \A t \in Type : \A n \in m[t] : \A o \in Object : Replaces[o] # n[1]

VARIABLES
  cfg,       \* DeleteConfig: DryRun and IgnoreErrors
  names,     \* ResourceNames of each type's deleter
  todo,      \* types whose deleter has not run
  cur,       \* the type whose deleter is running; None
  listed,    \* FALSE until the running deleter knows what it works on
  pending,   \* requests the running deleter has still to make
  item,      \* the item it is at
  attempt,   \* retries of the current request so far
  awaited,   \* resources it must wait for
  log,       \* log entries: <<object, result>>
  exit,      \* "running", "nil" or "error"
  cloud,     \* state of every object in AWS
  touched,   \* history: objects a request of this run took effect on
  skipped,   \* history: names dropped without a request
  faults,    \* failed requests and foreign deletions so far
  late,      \* history: TRUE once a wait ended before what was awaited
  heldUp     \* history: refused for the sake of deletions nobody waited for

runVars  == <<todo, cur, listed, pending, item, attempt, awaited, exit>>
histVars == <<touched, skipped, faults, late, heldUp>>
vars == <<cfg, names, runVars, log, cloud, histVars>>

NoItem == <<None, 1>>

(***************************************************************************)
(* Deletion order.  deleteARNs goes through the sorted slice backwards, so *)
(* the types DelOrder does not name, which organizeByDelOrder appends      *)
(* last and in any order, come first.                                      *)
(***************************************************************************)
PositionOf(t) ==
  IF \E i \in 1..Len(DelOrder) : DelOrder[i] = t
  THEN CHOOSE i \in 1..Len(DelOrder) : DelOrder[i] = t
  ELSE Len(DelOrder) + 1

IsNextTypeForwards(t) == t \in todo /\ \A u \in todo : PositionOf(t) <= PositionOf(u)

IsNextType(t) == t \in todo /\ \A u \in todo : PositionOf(u) <= PositionOf(t)

(***************************************************************************)
(* What AWS would answer.                                                  *)
(***************************************************************************)
Exists(o) == cloud[o] \in {"live", "going"}

IsBlocked(T) == \E o \in T : \E b \in Blockers[o] \ T : Exists(b)

KidsOf(o) == {k \in Object : ParentOf[k] = o}

HasMark(o, m) ==
  \/ m \in Marks[o]
  \/ m = "deleting" /\ cloud[o] = "going"
  \/ m = "attached" /\ \E b \in Blockers[o] : Exists(b)
  \/ m = "in use" /\ ~cfg.DryRun /\ \E k \in KidsOf(o) : cloud[k] = "live"

Hidden(o) == \E m \in Deleter[TypeOf[o]].hides : HasMark(o, m)

\* A filtered listing shows a resource once, however often it was named.
Listing(t) ==
  {n \in names[t] :
     /\ Exists(n[1])
     /\ ~Hidden(n[1])
     /\ Deleter[t].selects = "filter" => n[2] = 1}

(***************************************************************************)
(* The requests a deleter makes for the items it works on.                 *)
(***************************************************************************)
KidRank(t, k) == CHOOSE i \in 1..Len(Deleter[t].kids) : Deleter[t].kids[i] = TypeOf[k]

DeletableKids(t, o) ==
  {k \in KidsOf(o) :
     /\ \E i \in 1..Len(Deleter[t].kids) : Deleter[t].kids[i] = TypeOf[k]
     /\ cloud[k] \in Deleter[t].kidStates}

KidRequests(t, n) ==
  {[item |-> n, targets |-> {k}, rank |-> KidRank(t, k)] : k \in DeletableKids(t, n[1])}

ItemRequest(t, n) ==
  [item |-> n, targets |-> {n[1]}, rank |-> Len(Deleter[t].kids) + 1]

BatchRequest(t, items) ==
  [item |-> NoItem, targets |-> {n[1] : n \in items}, rank |-> Len(Deleter[t].kids) + 1]

AskForKids(n) == [item |-> n, targets |-> {}, rank |-> 0]

Plan(t, items) ==
  IF Deleter[t].batch
  THEN IF items = {} THEN {} ELSE {BatchRequest(t, items)}
  ELSE {ItemRequest(t, n) : n \in items} \cup
       IF Deleter[t].asksKids
       THEN {AskForKids(n) : n \in items}
       ELSE UNION {KidRequests(t, n) : n \in items}

\* r comes before s: the loops do not leave an item half done.
Precedes(r, s) ==
  IF Deleter[cur].order = "kidsFirst"
  THEN \/ r.rank < s.rank
       \/ r.rank = s.rank /\ r.item = item /\ s.item # item
  ELSE \/ r.item = item /\ s.item # item
       \/ r.item = s.item /\ r.rank < s.rank

Current(r) ==
  /\ exit = "running" /\ cur # None /\ listed
  /\ r \in pending
  /\ \A q \in pending : ~Precedes(q, r)

(***************************************************************************)
(* How DeleteConfig.DryRun reaches the request.                            *)
(***************************************************************************)
DryRunOf(r) == {Deleter[TypeOf[o]].dryRun : o \in r.targets}
IsSent(r) == ~(cfg.DryRun /\ "local" \in DryRunOf(r))
TakesEffect(r) == ~cfg.DryRun \/ DryRunOf(r) = {"unchecked"}

(***************************************************************************)
(* Init                                                                    *)
(***************************************************************************)
Born(o) == IF \E p \in Object : Replaces[p] = o THEN "unborn" ELSE "live"

Init ==
  /\ cfg \in Configs
  /\ \E m \in ResMaps :
       /\ names = m
       /\ todo = {t \in Type : m[t] # {}}
  /\ cur = None /\ listed = FALSE /\ pending = {} /\ item = NoItem
  /\ attempt = 0 /\ awaited = {} /\ exit = "running"
  /\ log = {}
  /\ cloud = [o \in Object |-> Born(o)]
  /\ touched = {} /\ skipped = {} /\ faults = 0 /\ late = FALSE
  /\ heldUp = {}

(***************************************************************************)
(* deleteARNs: next type, and the end of the loop.                         *)
(***************************************************************************)
StartType(t) ==
  /\ exit = "running" /\ cur = None /\ IsNextType(t)
  /\ todo' = todo \ {t}
  /\ cur' = t
  /\ item' = NoItem /\ attempt' = 0
  /\ IF Deleter[t].selects = "names"
     THEN listed' = TRUE /\ pending' = Plan(t, names[t])
     ELSE listed' = FALSE /\ pending' = {}
  /\ UNCHANGED <<cfg, names, awaited, exit, log, cloud, histVars>>

FinishType ==
  /\ exit = "running" /\ cur # None /\ listed /\ pending = {} /\ awaited = {}
  /\ cur' = None
  /\ UNCHANGED <<cfg, names, todo, listed, pending, item, attempt, awaited,
                 exit, log, cloud, histVars>>

FinishRunEarly ==
  /\ exit = "running" /\ cur = None /\ Cardinality(todo) <= 1
  /\ exit' = "nil"
  /\ UNCHANGED <<cfg, names, todo, cur, listed, pending, item, attempt, awaited,
                 log, cloud, histVars>>

FinishRun ==
  /\ exit = "running" /\ cur = None /\ todo = {}
  /\ exit' = "nil"
  /\ UNCHANGED <<cfg, names, todo, cur, listed, pending, item, attempt, awaited,
                 log, cloud, histVars>>

(***************************************************************************)
(* The Describe requests at the head of DeleteResources.                   *)
(***************************************************************************)
Objects(items) == {n[1] : n \in items}

WorkOn(items) ==
  /\ listed' = TRUE
  /\ pending' = Plan(cur, items)
  /\ awaited' = IF Deleter[cur].waits = "polled" /\ ~cfg.DryRun
                THEN Objects(items) ELSE {}
  /\ skipped' = skipped \cup (Objects(names[cur]) \ Objects(items))

ListResources ==
  /\ exit = "running" /\ cur # None /\ ~listed
  /\ WorkOn(Listing(cur))
  /\ UNCHANGED <<cfg, names, todo, cur, item, attempt, exit, log, cloud,
                 touched, faults, late, heldUp>>

\* With IgnoreErrors the loop runs over what was listed before the error.
ListingFails ==
  /\ exit = "running" /\ cur # None /\ ~listed
  /\ faults < MaxFaults
  /\ faults' = faults + 1
  /\ IF cfg.IgnoreErrors
     THEN /\ \E items \in SUBSET Listing(cur) : WorkOn(items)
          /\ UNCHANGED exit
     ELSE /\ exit' = "error"
          /\ UNCHANGED <<listed, pending, awaited, skipped>>
  /\ UNCHANGED <<cfg, names, todo, cur, item, attempt, log, cloud, touched,
                 late, heldUp>>

(***************************************************************************)
(* The listing of the parts of one item (IAM role policies).  If it fails  *)
(* a run that stops at errors silently goes on with the next item.         *)
(***************************************************************************)
AskKids(r) ==
  /\ Current(r) /\ r.targets = {}
  /\ pending' = (pending \ {r}) \cup KidRequests(cur, r.item)
  /\ item' = r.item /\ attempt' = 0
  /\ UNCHANGED <<cfg, names, todo, cur, listed, awaited, exit, log, cloud, histVars>>

AskKidsFails(r) ==
  /\ Current(r) /\ r.targets = {}
  /\ faults < MaxFaults
  /\ faults' = faults + 1
  /\ item' = r.item /\ attempt' = 0
  /\ IF cfg.IgnoreErrors
     THEN /\ \E kids \in SUBSET KidRequests(cur, r.item) :
               pending' = (pending \ {r}) \cup kids
          /\ UNCHANGED skipped
     ELSE /\ pending' = {q \in pending : q.item # r.item}
          /\ skipped' = skipped \cup {r.item[1]}
  /\ UNCHANGED <<cfg, names, todo, cur, listed, awaited, exit, log, cloud,
                 touched, late, heldUp>>

(***************************************************************************)
(* Delete requests.                                                        *)
(***************************************************************************)
Entries(T, result) == T \X {result}

\* What AWS does on accepting to delete T.
Deleted(T) ==
  [o \in Object |->
     IF o \in T /\ cloud[o] = "live"
     THEN IF TypeOf[o] \in Async THEN "going" ELSE "gone"
     ELSE IF cloud[o] = "live" /\ \E p \in T : o \in Cascade[p] THEN "going"
     ELSE cloud[o]]

Accepted(r) ==
  /\ TakesEffect(r) /\ \A o \in r.targets : Exists(o)
  /\ ~IsBlocked(r.targets)
  /\ cloud' = Deleted(r.targets)
  /\ touched' = touched \cup r.targets

\* Dry run: "DryRunOperation", or no request at all.
DryRunRequest(r) ==
  /\ Current(r) /\ r.targets # {} /\ ~TakesEffect(r)
  /\ pending' = pending \ {r}
  /\ item' = r.item /\ attempt' = 0
  /\ UNCHANGED <<cfg, names, todo, cur, listed, awaited, exit, log, cloud, histVars>>

Succeed(r) ==
  /\ Current(r) /\ r.targets # {}
  /\ Accepted(r)
  /\ pending' = pending \ {r}
  /\ item' = r.item /\ attempt' = 0
  /\ IF Deleter[cur].waits = "no"
     THEN log' = log \cup Entries(r.targets, "deleted") /\ UNCHANGED awaited
     ELSE awaited' = awaited \cup r.targets /\ UNCHANGED log
  /\ UNCHANGED <<cfg, names, todo, cur, listed, exit, skipped, faults, late,
                 heldUp>>

(***************************************************************************)
(* After logRequestError a method continues with its next request, goes on *)
(* with its next item, or returns the error, which ends the run.           *)
(***************************************************************************)
Continue(r) == pending' = pending \ {r} /\ UNCHANGED <<exit, skipped>>

NextItem(r) ==
  /\ pending' = {q \in pending : q.item # r.item}
  /\ skipped' = skipped \cup {r.item[1]}
  /\ UNCHANGED exit

Return == exit' = "error" /\ UNCHANGED <<pending, skipped>>

IsForKid(r) == r.rank <= Len(Deleter[cur].kids)

LeaveContinuing(r) == Continue(r)
LeaveAbandoning(r) ==
  IF cfg.IgnoreErrors THEN pending' = {} /\ UNCHANGED <<exit, skipped>> ELSE Return
LeaveForNextItem(r) ==
  IF cfg.IgnoreErrors THEN Continue(r) ELSE IF IsForKid(r) THEN NextItem(r) ELSE Return

Leave(r) ==
  IF cfg.IgnoreErrors THEN Continue(r)
  ELSE IF IsForKid(r) /\ Deleter[cur].kidError = "nextItem" THEN NextItem(r)
  ELSE Return

GiveUp(r, result) ==
  /\ log' = log \cup Entries(r.targets, result)
  /\ item' = r.item /\ attempt' = 0
  /\ Leave(r)
  /\ UNCHANGED <<cfg, names, todo, cur, listed, awaited, late>>

RetryUnbounded(r) ==
  /\ attempt' = attempt + 1 /\ item' = r.item
  /\ UNCHANGED <<cfg, names, todo, cur, listed, pending, awaited, exit, log,
                 skipped, late>>
RetryUncounted(r) ==
  /\ attempt < NumMaxRetries
  /\ item' = r.item
  /\ UNCHANGED <<cfg, names, todo, cur, listed, pending, attempt, awaited, exit,
                 log, skipped, late>>

Retry(r) ==
  /\ attempt < NumMaxRetries
  /\ attempt' = attempt + 1 /\ item' = r.item
  /\ UNCHANGED <<cfg, names, todo, cur, listed, pending, awaited, exit, log,
                 skipped, late>>

\* What stands in the way is on its way out but nobody waits for it, or was itself
\* given up for that.
IsHeldUp(T) ==
  \A o \in T : \A b \in Blockers[o] \ T : Exists(b) =>
    (cloud[b] = "going" /\ TypeOf[b] \in Unawaited) \/ b \in heldUp

HoldUp(r) == heldUp' = heldUp \cup IF IsHeldUp(r.targets) THEN r.targets ELSE {}

\* DependencyViolation is retried by DeleteRetryer until NumMaxRetries; other
\* refusals (VolumeInUse, DeleteConflict) are not.
Blocked(r) ==
  /\ Current(r) /\ TakesEffect(r) /\ IsBlocked(r.targets)
  /\ IF \A o \in r.targets : TypeOf[o] \in Retryable
     THEN \/ Retry(r) /\ UNCHANGED heldUp
          \/ attempt = NumMaxRetries /\ GiveUp(r, "failed") /\ HoldUp(r)
     ELSE GiveUp(r, "failed") /\ HoldUp(r)
  /\ UNCHANGED <<cloud, touched, faults>>

FaultUnnoticed(r) ==
  /\ Current(r) /\ r.targets # {} /\ IsSent(r)
  /\ faults < MaxFaults
  /\ faults' = faults + 1
  /\ pending' = pending \ {r} /\ item' = r.item /\ attempt' = 0
  /\ log' = log \cup Entries(r.targets, "deleted")
  /\ UNCHANGED <<cfg, names, todo, cur, listed, awaited, exit, cloud, touched,
                 skipped, late, heldUp>>

\* A throttled or failed request, or one whose answer is lost.
Fault(r) ==
  /\ Current(r) /\ r.targets # {} /\ IsSent(r)
  /\ faults < MaxFaults
  /\ faults' = faults + 1
  /\ Accepted(r) \/ UNCHANGED <<cloud, touched>>
  /\ Retry(r) \/ GiveUp(r, "failed")
  /\ UNCHANGED heldUp

\* The resource is no longer there: the .NotFound code, which one deleter
\* takes for success.
Absent(r) ==
  /\ Current(r) /\ r.targets # {} /\ IsSent(r)
  /\ \E o \in r.targets : cloud[o] = "gone"
  /\ IF \A o \in r.targets : Deleter[TypeOf[o]].tolerates
     THEN /\ pending' = pending \ {r}
          /\ item' = r.item /\ attempt' = 0
          /\ UNCHANGED <<cfg, names, todo, cur, listed, awaited, exit, log,
                         skipped, late>>
     ELSE GiveUp(r, "absent")
  /\ UNCHANGED <<cloud, touched, faults, heldUp>>

(***************************************************************************)
(* Waiting.                                                                *)
(***************************************************************************)
Waiting(how) ==
  /\ exit = "running" /\ cur # None /\ listed /\ pending = {} /\ awaited # {}
  /\ Deleter[cur].waits = how
  /\ awaited' = {}
  /\ UNCHANGED <<cfg, names, todo, cur, listed, pending, item, attempt, cloud,
                 touched, skipped, heldUp>>

\* The EC2 waiter; success is logged for all even after its error was.
AwaitTermination ==
  /\ Waiting("terminated")
  /\ \/ /\ \A o \in awaited : ~Exists(o)
        /\ log' = log \cup Entries(awaited, "deleted")
        /\ UNCHANGED late
     \/ /\ log' = log \cup Entries(awaited, "failed") \cup Entries(awaited, "deleted")
        /\ late' = TRUE
  /\ UNCHANGED <<exit, faults>>

\* waitUntilNatGatewaysDeleted over everything that was listed: until none is
\* alive, five minutes have passed, or a Describe request fails (module NatWait
\* has the steps).  What was alive when it was asked for may be gone by now.
AwaitNatGateways ==
  /\ Waiting("polled")
  /\ \E alive, dead \in SUBSET awaited :
       /\ alive \cap dead = {} /\ \A o \in dead : ~Exists(o)
       /\ \/ /\ alive \cup dead = awaited
             /\ log' = log \cup Entries(alive, "failed") \cup Entries(dead, "deleted")
             /\ late' = (late \/ alive # {})
             /\ UNCHANGED <<exit, faults>>
          \/ /\ faults < MaxFaults /\ faults' = faults + 1
             /\ IF cfg.IgnoreErrors
                THEN /\ log' = log \cup Entries(alive, "failed")
                                   \cup Entries(dead, "deleted")
                     /\ UNCHANGED exit
                ELSE exit' = "error" /\ UNCHANGED log
             /\ late' = TRUE

(***************************************************************************)
(* AWS and the other users of the account.                                 *)
(***************************************************************************)
\* A resource is not gone before what AWS deletes with it.
FinishDeletion(o) ==
  /\ cloud[o] = "going" /\ \A k \in Cascade[o] : ~Exists(k)
  /\ cloud' = [cloud EXCEPT ![o] = "gone"]
  /\ UNCHANGED <<cfg, names, runVars, log, histVars>>

\* Auto scaling replaces an instance as long as its group is there.
Relaunch(o) ==
  /\ Replaces[o] # None /\ ~Exists(o) /\ cloud[Replaces[o]] = "unborn"
  /\ \E g \in Object : Replaces[o] \in Cascade[g] /\ cloud[g] = "live"
  /\ cloud' = [cloud EXCEPT ![Replaces[o]] = "live"]
  /\ UNCHANGED <<cfg, names, runVars, log, histVars>>

OwnerDeletes(o) ==
  /\ faults < MaxFaults /\ cloud[o] = "live" /\ ~IsBlocked({o})
  /\ cloud' = Deleted({o})
  /\ faults' = faults + 1
  /\ UNCHANGED <<cfg, names, runVars, log, touched, skipped, late, heldUp>>

Terminated == exit # "running" /\ UNCHANGED vars

(***************************************************************************)
(* Specification                                                           *)
(***************************************************************************)
Requesting ==
  \E r \in pending :
    \/ AskKids(r) \/ AskKidsFails(r) \/ DryRunRequest(r) \/ Succeed(r)
    \/ Blocked(r) \/ Fault(r) \/ Absent(r)

Program ==
  \/ \E t \in Type : StartType(t)
  \/ FinishType \/ FinishRun
  \/ ListResources \/ ListingFails
  \/ Requesting
  \/ AwaitTermination \/ AwaitNatGateways

Environment ==
  \E o \in Object : FinishDeletion(o) \/ Relaunch(o) \/ OwnerDeletes(o)

Next == Program \/ Environment \/ Terminated

Spec == Init /\ [][Next]_vars

\* The process runs and every AWS call returns (the SDK has its timeouts).
FairSpec == Spec /\ WF_vars(Program)

(***************************************************************************)
(* Correctness                                                             *)
(***************************************************************************)
TypeOK ==
  /\ cfg \in [DryRun : BOOLEAN, IgnoreErrors : BOOLEAN]
  /\ names \in [Type -> SUBSET (Object \X Occurrence)]
  /\ todo \subseteq Type /\ cur \in Type \cup {None} /\ listed \in BOOLEAN
  /\ pending \subseteq Request /\ item \in Item
  /\ attempt \in 0..NumMaxRetries /\ awaited \subseteq Object
  /\ exit \in {"running", "nil", "error"}
  /\ log \subseteq Object \X Results
  /\ cloud \in [Object -> States]
  /\ touched \subseteq Object /\ skipped \subseteq Object
  /\ faults \in 0..MaxFaults /\ late \in BOOLEAN /\ heldUp \subseteq Object

Named == UNION {Objects(names[t]) : t \in Type}

\* What AWS keeps for the account or VPC itself.
Protected(o) == Marks[o] # {}

Failed(o) == \E result \in Results \ {"deleted"} : <<o, result>> \in log

\* A run changes only resources it was given and the parts of those, and never
\* a default security group, NACL, subnet or VPC or a main route table, nor
\* their rules, routes and associations, which VPC dependency traversal and
\* tags may well have named.
TouchesOnlyWhatItMay ==
  \A o \in touched :
    \E p \in {o, ParentOf[o]} : p \in Named /\ ~Protected(p)

\* "Output changes to stdout instead of AWS" (main.go:131): a dry run changes
\* nothing in AWS.
DryRunTouchesNothing == cfg.DryRun => touched = {}

\* Failures that do not end a run that stops at errors: those of parts whose
\* resource is then passed over, and those found by a wait that ended too early.
Swallowed(o) ==
  \/ \E t \in Type : /\ Deleter[t].kidError = "nextItem"
                     /\ \E i \in 1..Len(Deleter[t].kids) : Deleter[t].kids[i] = TypeOf[o]
  \/ Deleter[TypeOf[o]].waits # "no" /\ late

\* Without --ignore-errors the run ends with its first failed deletion, so
\* nothing is deleted on top of a failure; with it, it never ends with an error
\* (delete.go:476: DeleteResources only returns an error when ignoreErrors is
\* false).
StopsExactlyAtErrors ==
  /\ ~cfg.IgnoreErrors =>
       \A o \in Object : Failed(o) /\ ~Swallowed(o) => exit = "error"
  /\ exit = "error" => ~cfg.IgnoreErrors

\* A run that ends well has dealt with every resource it was given: each is
\* deleted, reported as failed, or was dropped without a request.
NothingForgotten ==
  exit = "nil" /\ ~cfg.DryRun =>
    \A o \in Named : cloud[o] # "live" \/ Failed(o) \/ o \in skipped

\* A resource is never reported as deleted while it is live: not after a wait that
\* failed (ec2.go:807), and not if its request was refused, failed or never sent.
LogIsTruthful == \A o \in Object : <<o, "deleted">> \in log => cloud[o] # "live"

\* A live resource is dropped only if its deleter leaves out such resources,
\* if a listing failed, or if one of its parts could not be deleted.
DroppedForAReason ==
  [][\A o \in skipped' \ skipped : cloud[o] = "live" =>
       Hidden(o) \/ faults' > faults \/ Deleter[TypeOf[o]].kidError = "nextItem"]_vars

\* Deletion order: when the run comes to a resource, the deleters of everything
\* it was given that still stands in the way have had their turn.
BlockersGoFirst ==
  \A r \in pending : \A o \in r.targets : \A b \in Blockers[o] \cap Named :
    TypeOf[b] \notin todo

\* When no request fails, nobody else deletes anything and AWS finishes what is
\* waited for in time, the run deletes everything it was given but what its
\* deleters leave out, in every order AWS may list and finish things.  The one thing
\* that may keep it from that are deletions AWS has begun and no deleter waits for,
\* VPN connections for one: what these hold up, and only that, is left, and only
\* that ends a run with an error.
UndisturbedRunSucceeds ==
  faults = 0 /\ ~late =>
    /\ exit = "error" => heldUp # {}
    /\ exit = "nil" /\ ~cfg.DryRun =>
         \A o \in Named : cloud[o] # "live" \/ Protected(o) \/ o \in heldUp

\* "Remove duplicates and nil resources" (delete.go:429): while no request fails,
\* nothing is reported as failed because this run has deleted it already.
NothingDeletedTwice ==
  faults = 0 => \A o \in Object : ~({<<o, "deleted">>, <<o, "absent">>} \subseteq log)

\* Retries are bounded and every wait ends, so the run ends.
Terminates == <>(exit # "running")
=============================================================================
