------------------------ MODULE DeleteRunSafeProofs ------------------------
(***************************************************************************)
(* Proofs that a run forgets nothing, reports truthfully, keeps the order  *)
(* of deletion, implements SafeDelete, and succeeds when undisturbed.      *)
(***************************************************************************)
EXTENDS DeleteRunIsSafe, DeleteRunProofs

(***************************************************************************)
(* The parts of the invariants.  NothingForgotten speaks of the end of a   *)
(* run; ProgressOK says where each name is until then.                     *)
(***************************************************************************)
\* What is named exists, and a name that is there twice is there once.
NamesGiven ==
  \A t \in Type : \A n \in names[t] :
    /\ n[2] = 1 \/ <<n[1], 1>> \in names[t]
    /\ cloud[n[1]] # "unborn"

\* A request for an item itself, not for one of its parts.
IsOwn(r) == r.targets # {} /\ r.rank = Len(Deleter[cur].kids) + 1

OwnOK ==
  \A r \in pending : IsOwn(r) =>
    IF Deleter[cur].batch THEN r.item = NoItem ELSE r.targets = {r.item[1]}

DealtWith(o) == cloud[o] # "live" \/ Failed(o) \/ o \in skipped

HasTurn(o) == \E r \in pending : IsOwn(r) /\ o \in r.targets

ProgressOK ==
  exit = "running" /\ ~cfg.DryRun =>
    \A t \in Type : \A n \in names[t] :
      \/ t \in todo
      \/ t = cur /\ (~listed \/ HasTurn(n[1]))
      \/ DealtWith(n[1])

\* LogIsTruthful alone would allow an entry for what auto scaling has yet to start.
IsDeleted(o) == cloud[o] \in {"going", "gone"}

LogOK == \A o \in Object : <<o, "deleted">> \in log => IsDeleted(o)

AwaitedDeleted ==
  \A o \in awaited : /\ cloud[o] # "unborn"
                     /\ Deleter[cur].waits = "terminated" => IsDeleted(o)

(***************************************************************************)
(* What every step does to the account and the history.                    *)
(***************************************************************************)

\* The account changes by a deletion, by the end of one, or by a new instance.
LEMMA CloudStep ==
  ASSUME IInv, [Next]_vars
  PROVE  \/ UNCHANGED cloud
         \/ \E T \in SUBSET Object : cloud' = Deleted(T)
         \/ \E o \in Object : cloud[o] = "going" /\ cloud' = [cloud EXCEPT ![o] = "gone"]
         \/ \E o \in Object : cloud[o] = "unborn" /\ cloud' = [cloud EXCEPT ![o] = "live"]
<1>1. CASE Program
  <2>1. ASSUME NEW r \in pending, Succeed(r) \/ Fault(r)
        PROVE  UNCHANGED cloud \/ cloud' = Deleted(r.targets)
    BY <2>1 DEF Succeed, Fault, Accepted
  <2>2. ASSUME NEW r \in pending,
               AskKids(r) \/ AskKidsFails(r) \/ DryRunRequest(r) \/ Blocked(r) \/ Absent(r)
        PROVE  UNCHANGED cloud
    BY <2>2 DEF AskKids, AskKidsFails, DryRunRequest, Blocked, Absent
  <2>3. \A r \in pending : r.targets \in SUBSET Object
    BY DEF IInv, TypeOK, Request
  <2>4. ~Requesting => UNCHANGED cloud
    BY <1>1 DEF Program, StartType, FinishType, FinishRun, ListResources, ListingFails,
                AwaitTermination, AwaitNatGateways, Waiting
  <2> QED
    BY <2>1, <2>2, <2>3, <2>4 DEF Requesting
<1>2. ASSUME NEW o \in Object, FinishDeletion(o)
      PROVE  cloud[o] = "going" /\ cloud' = [cloud EXCEPT ![o] = "gone"]
  BY <1>2 DEF FinishDeletion
<1>3. ASSUME NEW o \in Object, Relaunch(o)
      PROVE  /\ Replaces[o] \in Object /\ cloud[Replaces[o]] = "unborn"
             /\ cloud' = [cloud EXCEPT ![Replaces[o]] = "live"]
  BY <1>3, ConstantAssumption DEF Relaunch, ConstantAssumption
<1>4. ASSUME NEW o \in Object, OwnerDeletes(o)
      PROVE  {o} \in SUBSET Object /\ cloud' = Deleted({o})
  BY <1>4 DEF OwnerDeletes
<1>5. CASE UNCHANGED vars
  BY <1>5 DEF vars
<1> QED
  BY <1>1, <1>2, <1>3, <1>4, <1>5 DEF Next, Environment, Terminated

\* No resource comes back: what is being deleted or gone stays so.
LEMMA NothingReturns ==
  ASSUME IInv, [Next]_vars, NEW o \in Object
  PROVE  /\ cloud[o] # "unborn" => cloud'[o] # "unborn"
         /\ IsDeleted(o) => IsDeleted(o)'
<1>1. cloud \in [Object -> States]
  BY DEF IInv, TypeOK
<1>2. CASE \E T \in SUBSET Object : cloud' = Deleted(T)
  BY <1>1, <1>2 DEF Deleted, IsDeleted
<1>3. CASE UNCHANGED cloud
  BY <1>3 DEF IsDeleted
<1>4. CASE \E p \in Object : cloud[p] = "going" /\ cloud' = [cloud EXCEPT ![p] = "gone"]
  BY <1>1, <1>4 DEF IsDeleted
<1>5. CASE \E p \in Object : cloud[p] = "unborn" /\ cloud' = [cloud EXCEPT ![p] = "live"]
  BY <1>1, <1>5 DEF IsDeleted
<1> QED
  BY <1>2, <1>3, <1>4, <1>5, CloudStep

\* Nothing is taken back: entries stay in the log, and names stay dropped.
LEMMA HistoryGrows ==
  ASSUME IInv, [Next]_vars
  PROVE  /\ log \subseteq log' /\ skipped \subseteq skipped' /\ touched \subseteq touched'
         /\ UNCHANGED <<names, cfg>>
<1>1. UNCHANGED <<names, cfg>> /\ touched \subseteq touched'
  BY TouchedStep
<1>2. CASE (\E t \in Type : StartType(t)) \/ FinishType \/ FinishRun
  BY <1>1, <1>2 DEF StartType, FinishType, FinishRun, histVars
<1>3. CASE ListResources \/ ListingFails
  BY <1>1, <1>3 DEF ListResources, ListingFails, WorkOn
<1>4. ASSUME NEW r \in pending, NEW result, GiveUp(r, result)
      PROVE  log \subseteq log' /\ skipped \subseteq skipped'
  BY <1>4 DEF GiveUp, Leave, Continue, NextItem, Return
<1>5. ASSUME NEW r \in pending, Retry(r)
      PROVE  UNCHANGED <<log, skipped>>
  BY <1>5 DEF Retry
<1>6. ASSUME NEW r \in pending, Blocked(r) \/ Fault(r) \/ Absent(r)
      PROVE  log \subseteq log' /\ skipped \subseteq skipped'
  BY <1>4, <1>5, <1>6 DEF Blocked, Fault, Absent
<1>7. ASSUME NEW r \in pending,
             AskKids(r) \/ AskKidsFails(r) \/ DryRunRequest(r) \/ Succeed(r)
      PROVE  log \subseteq log' /\ skipped \subseteq skipped'
  BY <1>7 DEF AskKids, AskKidsFails, DryRunRequest, Succeed, histVars
<1>8. CASE AwaitTermination \/ AwaitNatGateways
  BY <1>1, <1>8 DEF AwaitTermination, AwaitNatGateways, Waiting
<1>9. CASE Environment
  BY <1>1, <1>9 DEF Environment, FinishDeletion, Relaunch, OwnerDeletes, histVars
<1>10. CASE UNCHANGED vars
  BY <1>1, <1>10 DEF vars, histVars
<1> QED
  BY <1>1, <1>2, <1>3, <1>6, <1>7, <1>8, <1>9, <1>10
     DEF Next, Program, Requesting, Terminated

\* A run ends at the end of the loop, or with an error if it is not to ignore them;
\* after that only AWS and other users act.
LEMMA EndStep ==
  ASSUME [Next]_vars
  PROVE  /\ \/ exit' = exit
            \/ FinishRun
            \/ exit = "running" /\ exit' = "error" /\ ~cfg.IgnoreErrors
         /\ exit = "running" \/ Environment \/ UNCHANGED vars
<1>1. ASSUME NEW r \in pending, Blocked(r) \/ Fault(r) \/ Absent(r)
      PROVE  exit = "running" /\ (exit' = exit \/ (exit' = "error" /\ ~cfg.IgnoreErrors))
  BY <1>1 DEF Blocked, Fault, Absent, Current, Retry, GiveUp, Leave, Continue, NextItem,
              Return
<1>2. ASSUME NEW r \in pending,
             AskKids(r) \/ AskKidsFails(r) \/ DryRunRequest(r) \/ Succeed(r)
      PROVE  exit = "running" /\ exit' = exit
  BY <1>2 DEF AskKids, AskKidsFails, DryRunRequest, Succeed, Current
<1>3. CASE \/ (\E t \in Type : StartType(t)) \/ FinishType
           \/ ListResources \/ ListingFails \/ AwaitTermination \/ AwaitNatGateways
  BY <1>3 DEF StartType, FinishType, ListResources, ListingFails, AwaitTermination,
              AwaitNatGateways, Waiting
<1>4. FinishRun => exit = "running"
  BY DEF FinishRun
<1>5. CASE Environment \/ UNCHANGED vars
  BY <1>5 DEF Environment, FinishDeletion, Relaunch, OwnerDeletes, runVars, vars
<1> QED
  BY <1>1, <1>2, <1>3, <1>4, <1>5 DEF Next, Program, Requesting, Terminated

\* What is dealt with stays so, if it was there when the run was given it.
LEMMA DealtWithForGood ==
  ASSUME IInv, [Next]_vars, NEW o \in Object, cloud[o] # "unborn", DealtWith(o)
  PROVE  DealtWith(o)'
<1>1. CASE cloud[o] # "live"
  <2>1. IsDeleted(o)
    BY <1>1 DEF IInv, TypeOK, States, IsDeleted
  <2> QED
    BY <2>1, NothingReturns DEF DealtWith, IsDeleted
<1>2. CASE Failed(o) \/ o \in skipped
  BY <1>2, HistoryGrows DEF DealtWith, Failed
<1> QED
  BY <1>1, <1>2 DEF DealtWith

(***************************************************************************)
(* What the log says of deletions.                                         *)
(***************************************************************************)

\* A request AWS accepts deletes all its targets.
LEMMA AcceptedDeletes ==
  ASSUME TypeOK, NEW r \in pending, Accepted(r), NEW o \in r.targets
  PROVE  IsDeleted(o)'
<1>1. o \in Object
  BY DEF TypeOK, Request
<1> QED
  BY <1>1 DEF Accepted, Deleted, Exists, IsDeleted

\* What is awaited exists or did, and what is waited for until it is terminated
\* has been asked to.
LEMMA AwaitedStep ==
  ASSUME IInv, AwaitedDeleted, [Next]_vars
  PROVE  AwaitedDeleted'
<1>1. awaited \subseteq Object
  BY DEF IInv, TypeOK
<1>2. CASE awaited' \subseteq awaited /\ (cur' = cur \/ awaited' = {})
  BY <1>1, <1>2, NothingReturns DEF AwaitedDeleted, IsDeleted
<1>3. ASSUME NEW items \in SUBSET Listing(cur), WorkOn(items), cur # None,
             UNCHANGED <<cur, cloud>>
      PROVE  AwaitedDeleted'
  <2>1. \A o \in Objects(items) : cloud[o] # "unborn"
    BY <1>3 DEF Objects, Listing, Exists
  <2> QED
    BY <1>3, <2>1 DEF WorkOn, AwaitedDeleted
<1>4. ASSUME NEW r \in pending, Succeed(r)
      PROVE  AwaitedDeleted'
  <2>1. \A o \in r.targets : IsDeleted(o)'
    BY <1>4, AcceptedDeletes DEF Succeed, IInv
  <2>2. \A o \in awaited : /\ cloud'[o] # "unborn"
                           /\ Deleter[cur].waits = "terminated" => IsDeleted(o)'
    BY <1>1, NothingReturns DEF AwaitedDeleted
  <2>3. cur' = cur /\ awaited' \subseteq awaited \cup r.targets
    BY <1>4 DEF Succeed
  <2> QED
    BY <2>1, <2>2, <2>3 DEF AwaitedDeleted, IsDeleted
<1>5. ASSUME NEW r \in pending, Blocked(r) \/ Fault(r) \/ Absent(r)
      PROVE  UNCHANGED <<awaited, cur>>
  BY <1>5 DEF Blocked, Fault, Absent, Retry, GiveUp
<1>6. ASSUME NEW r \in pending, AskKids(r) \/ AskKidsFails(r) \/ DryRunRequest(r)
      PROVE  UNCHANGED <<awaited, cur>>
  BY <1>6 DEF AskKids, AskKidsFails, DryRunRequest
<1>7. ASSUME NEW t \in Type, StartType(t) PROVE awaited' = {}
  BY <1>7, ConstantAssumption DEF StartType, IInv, AwaitedOK
<1>8. CASE FinishType \/ FinishRun \/ AwaitTermination \/ AwaitNatGateways
  BY <1>2, <1>8 DEF FinishType, FinishRun, AwaitTermination, AwaitNatGateways, Waiting
<1>9. CASE ListResources \/ ListingFails
  <2>1. cur # None /\ UNCHANGED <<cur, cloud>>
    BY <1>9 DEF ListResources, ListingFails
  <2>2. (\E items \in SUBSET Listing(cur) : WorkOn(items)) \/ UNCHANGED awaited
    BY <1>9 DEF ListResources, ListingFails
  <2> QED
    BY <1>2, <1>3, <2>1, <2>2
<1>10. CASE Environment \/ UNCHANGED vars
  BY <1>2, <1>10 DEF Environment, FinishDeletion, Relaunch, OwnerDeletes, runVars, vars
<1> QED
  BY <1>2, <1>4, <1>5, <1>6, <1>7, <1>8, <1>9, <1>10
     DEF Next, Program, Requesting, Terminated

\* A step reports as deleted only what is deleted.
LEMMA LogStep ==
  ASSUME IInv, LogOK, AwaitedDeleted, [Next]_vars
  PROVE  LogOK'
<1>1. ASSUME NEW o \in Object, <<o, "deleted">> \in log PROVE IsDeleted(o)'
  BY <1>1, NothingReturns DEF LogOK
<1>2. SUFFICES ASSUME NEW o \in Object, <<o, "deleted">> \in log' \ log
               PROVE  IsDeleted(o)'
  BY <1>1 DEF LogOK
<1>3. ASSUME NEW r \in pending, Succeed(r) PROVE IsDeleted(o)'
  <2>1. o \in r.targets
    BY <1>2, <1>3 DEF Succeed, Entries
  <2> QED
    BY <1>3, <2>1, AcceptedDeletes DEF Succeed, IInv
<1>4. ASSUME NEW r \in pending, Blocked(r) \/ Fault(r) \/ Absent(r)
      PROVE  FALSE
  BY <1>2, <1>4 DEF Blocked, Fault, Absent, Retry, GiveUp, Entries
<1>5. CASE AwaitTermination
  <2>1. o \in awaited /\ Deleter[cur].waits = "terminated" /\ UNCHANGED cloud
    BY <1>2, <1>5 DEF AwaitTermination, Waiting, Entries
  <2> QED
    BY <2>1 DEF AwaitedDeleted, IsDeleted
<1>6. CASE AwaitNatGateways
  <2>1. o \in awaited /\ ~Exists(o) /\ UNCHANGED cloud
    BY <1>2, <1>6 DEF AwaitNatGateways, Waiting, Entries
  <2>2. cloud[o] # "unborn" /\ cloud[o] \in States
    BY <2>1 DEF AwaitedDeleted, IInv, TypeOK
  <2> QED
    BY <2>1, <2>2 DEF IsDeleted, Exists, States
<1>7. ASSUME NEW r \in pending, AskKids(r) \/ AskKidsFails(r) \/ DryRunRequest(r)
      PROVE  FALSE
  BY <1>2, <1>7 DEF AskKids, AskKidsFails, DryRunRequest
<1>8. CASE \/ (\E t \in Type : StartType(t)) \/ FinishType \/ FinishRun
           \/ ListResources \/ ListingFails
  BY <1>2, <1>8 DEF StartType, FinishType, FinishRun, ListResources, ListingFails
<1>9. CASE Environment \/ UNCHANGED vars
  BY <1>2, <1>9 DEF Environment, FinishDeletion, Relaunch, OwnerDeletes, vars
<1> QED
  BY <1>3, <1>4, <1>5, <1>6, <1>7, <1>8, <1>9 DEF Next, Program, Requesting, Terminated

\* Nothing is reported as deleted while it is live, on any account, whatever fails.
THEOREM LogIsTruthfulHolds == Spec => []LogIsTruthful
<1>1. Init => LogOK /\ AwaitedDeleted
  BY DEF Init, LogOK, AwaitedDeleted
<1>2. IInv /\ LogOK /\ AwaitedDeleted /\ [Next]_vars => (LogOK /\ AwaitedDeleted)'
  BY LogStep, AwaitedStep
<1>3. LogOK => LogIsTruthful
  BY DEF LogOK, LogIsTruthful, IsDeleted
<1> QED
  BY <1>1, <1>2, <1>3, Invariance, PTL DEF Spec

(***************************************************************************)
(* Whose turn comes.                                                       *)
(***************************************************************************)

\* A plan has a request for every item, and no two kinds of requests are confused.
LEMMA PlanHasAll ==
  ASSUME NEW t \in Type, NEW items \in SUBSET (Object \X Occurrence)
  PROVE  /\ \A n \in items : \E r \in Plan(t, items) :
              r.targets # {} /\ r.rank = Len(Deleter[t].kids) + 1 /\ n[1] \in r.targets
         /\ \A r \in Plan(t, items) :
              r.targets # {} /\ r.rank = Len(Deleter[t].kids) + 1 =>
                IF Deleter[t].batch THEN r.item = NoItem ELSE r.targets = {r.item[1]}
<1>1. CASE Deleter[t].batch
  <2>1. \A r \in Plan(t, items) : r = BatchRequest(t, items)
    BY <1>1 DEF Plan
  <2>2. \A n \in items : BatchRequest(t, items) \in Plan(t, items)
    BY <1>1 DEF Plan
  <2>3. /\ BatchRequest(t, items).item = NoItem
        /\ BatchRequest(t, items).rank = Len(Deleter[t].kids) + 1
        /\ \A n \in items : n[1] \in BatchRequest(t, items).targets
    BY DEF BatchRequest
  <2> QED
    BY <1>1, <2>1, <2>2, <2>3
<1>2. CASE ~Deleter[t].batch
  <2>1. ASSUME NEW n \in items
        PROVE  \E r \in Plan(t, items) :
                 r.targets # {} /\ r.rank = Len(Deleter[t].kids) + 1 /\ n[1] \in r.targets
    <3>1. ItemRequest(t, n) \in Plan(t, items)
      BY <1>2 DEF Plan
    <3> QED
      BY <3>1 DEF ItemRequest
  <2>2. ASSUME NEW r \in Plan(t, items), r.targets # {}, r.rank = Len(Deleter[t].kids) + 1
        PROVE  r.targets = {r.item[1]}
    <3>1. Len(Deleter[t].kids) \in Nat
      BY DeleterOf
    <3>2. \A n \in items : r \notin KidRequests(t, n)
      BY <2>2, <3>1, KidRequestsOf
    <3>3. \A n \in items : r # AskForKids(n)
      BY <2>2 DEF AskForKids
    <3>4. \/ \E n \in items : r = ItemRequest(t, n)
          \/ \E n \in items : r = AskForKids(n)
          \/ \E n \in items : r \in KidRequests(t, n)
      <4>1. r \in {ItemRequest(t, n) : n \in items} \cup
                 IF Deleter[t].asksKids
                 THEN {AskForKids(n) : n \in items}
                 ELSE UNION {KidRequests(t, n) : n \in items}
        BY <1>2, <2>2 DEF Plan
      <4> QED
        BY <4>1
    <3> QED
      BY <3>2, <3>3, <3>4 DEF ItemRequest
  <2> QED
    BY <1>2, <2>1, <2>2
<1> QED
  BY <1>1, <1>2

\* Requests for parts are not requests for an item itself.
LEMMA KidsAreNotOwn ==
  ASSUME IInv, cur # None, NEW n \in names[cur], NEW r \in KidRequests(cur, n)
  PROVE  ~IsOwn(r)
<1>1. cur \in Type /\ n \in Object \X Occurrence
  BY DEF IInv, TypeOK
<1>2. r.rank \in 1..Len(Deleter[cur].kids) /\ Len(Deleter[cur].kids) \in Nat
  BY <1>1, KidRequestsOf, DeleterOf
<1> QED
  BY <1>2 DEF IsOwn

\* Whoever passes over an item drops no request for another one.
LEMMA OnlyItsOwn ==
  ASSUME IInv, OwnOK, NEW n \in names[cur], cur # None, NEW q \in pending,
         IsOwn(q), q.item = n
  PROVE  q.targets = {n[1]}
<1>1. cur \in Type /\ n \in Object \X Occurrence
  BY DEF IInv, TypeOK
<1>2. n # NoItem
  BY <1>1, ConstantAssumption DEF ConstantAssumption, NoItem
<1> QED
  BY <1>2 DEF OwnOK

\* A type starts with a request for each of its names, or has yet to list them.
LEMMA TurnsGiven ==
  ASSUME IInv, cur # None, NEW items \in SUBSET names[cur], pending' = Plan(cur, items),
         cur' = cur
  PROVE  /\ OwnOK'
         /\ \A o \in Objects(items) : HasTurn(o)'
<1>1. cur \in Type /\ items \in SUBSET (Object \X Occurrence)
  BY DEF IInv, TypeOK
<1>2. \A n \in items : \E r \in Plan(cur, items) :
        r.targets # {} /\ r.rank = Len(Deleter[cur].kids) + 1 /\ n[1] \in r.targets
  BY <1>1, PlanHasAll
<1>3. \A r \in Plan(cur, items) :
        r.targets # {} /\ r.rank = Len(Deleter[cur].kids) + 1 =>
          IF Deleter[cur].batch THEN r.item = NoItem ELSE r.targets = {r.item[1]}
  BY <1>1, PlanHasAll
<1> QED
  BY <1>2, <1>3 DEF OwnOK, IsOwn, HasTurn, Objects

\* Where the loop stands is kept by a step within a type that takes a resource's
\* turn only when it deals with it.
LEMMA ProgressWithinType ==
  ASSUME IInv, NamesGiven, ProgressOK, [Next]_vars,
         UNCHANGED <<todo, cur>>, exit' = "running" => exit = "running",
         \A n \in names[cur] :
           cur # None /\ (listed => HasTurn(n[1])) /\ ~cfg.DryRun /\ exit' = "running" =>
             \/ ~listed' \/ HasTurn(n[1])' \/ DealtWith(n[1])'
  PROVE  ProgressOK'
<1>1. UNCHANGED <<names, cfg>>
  BY HistoryGrows
<1> SUFFICES ASSUME exit' = "running", ~cfg.DryRun, NEW t \in Type, NEW n \in names[t],
                    t \notin todo
             PROVE  (t = cur /\ (~listed' \/ HasTurn(n[1])')) \/ DealtWith(n[1])'
  BY <1>1 DEF ProgressOK
<1>2. n[1] \in Object /\ cloud[n[1]] # "unborn"
  <2>1. n \in Object \X Occurrence
    BY DEF IInv, TypeOK
  <2> QED
    BY <2>1 DEF NamesGiven
<1>3. (t = cur /\ (~listed \/ HasTurn(n[1]))) \/ DealtWith(n[1])
  BY DEF ProgressOK
<1>4. CASE DealtWith(n[1])
  BY <1>2, <1>4, DealtWithForGood
<1>5. CASE t = cur /\ (~listed \/ HasTurn(n[1]))
  <2>1. cur # None
    BY <1>5, ConstantAssumption DEF ConstantAssumption
  <2> QED
    BY <1>5, <2>1
<1> QED
  BY <1>3, <1>4, <1>5

\* What a step owes to the requests it drops: their resources are dealt with.
LEMMA TurnsTaken ==
  ASSUME cur' = cur,
         \A q \in pending \ pending' : IsOwn(q) => \A o \in q.targets : DealtWith(o)'
  PROVE  \A o \in Object : HasTurn(o) => HasTurn(o)' \/ DealtWith(o)'
BY DEF HasTurn, IsOwn

\* logRequestError records a failure for what was requested; passing over an item
\* drops it.
LEMMA GiveUpDeals ==
  ASSUME IInv, OwnOK, NEW r \in pending, NEW result \in Results \ {"deleted"},
         GiveUp(r, result), exit' = "running"
  PROVE  \A o \in Object : HasTurn(o) => HasTurn(o)' \/ DealtWith(o)'
<1>1. /\ cur' = cur /\ cur \in Type /\ cur # None /\ RequestOK(r, cur)
      /\ log' = log \cup Entries(r.targets, result) /\ r.targets \subseteq Object
  BY CurrentOK DEF GiveUp
<1>2. \A o \in r.targets : DealtWith(o)'
  BY <1>1 DEF DealtWith, Failed, Entries
<1>3. CASE Continue(r)
  <2>1. pending' = pending \ {r}
    BY <1>3 DEF Continue
  <2> QED
    BY <1>1, <1>2, <2>1, TurnsTaken
<1>4. CASE NextItem(r) /\ IsForKid(r)
  <2>1. r.item \in names[cur]
    BY <1>1, <1>4, DeleterOf DEF RequestOK, IsForKid
  <2>2. /\ pending' = {q \in pending : q.item # r.item}
        /\ skipped' = skipped \cup {r.item[1]}
    BY <1>4 DEF NextItem
  <2>3. ASSUME NEW q \in pending \ pending', IsOwn(q), NEW o \in q.targets
        PROVE  DealtWith(o)'
    <3>1. q.targets = {r.item[1]}
      BY <1>1, <2>1, <2>2, <2>3, OnlyItsOwn
    <3> QED
      BY <2>2, <3>1 DEF DealtWith
  <2> QED
    BY <1>1, <2>2, <2>3, TurnsTaken
<1>5. Continue(r) \/ (NextItem(r) /\ IsForKid(r))
  BY DEF GiveUp, Leave, Return
<1> QED
  BY <1>3, <1>4, <1>5

\* A deleter that takes "not found" for success asks for one resource at a time.
LEMMA ToleratedIsGone ==
  ASSUME IInv, OwnOK, NEW r \in pending, IsOwn(r), \E o \in r.targets : cloud[o] = "gone",
         \A o \in r.targets : Deleter[TypeOf[o]].tolerates
  PROVE  \A o \in r.targets : cloud[o] = "gone"
<1>1. cur \in Type /\ RequestOK(r, cur) /\ Len(Deleter[cur].kids) \in Nat
  BY CurrentOK, DeleterOf
<1>2. \A o \in r.targets : TypeOf[o] = cur
  BY <1>1 DEF RequestOK, IsOwn
<1>3. ~Deleter[cur].batch
  BY <1>1, <1>2, ConstantAssumption DEF ConstantAssumption
<1> QED
  BY <1>3 DEF OwnOK

\* Requests, with their retries, refusals and failures, take a resource's turn only
\* when they deal with it.
LEMMA RequestProgress ==
  ASSUME IInv, NamesGiven, OwnOK, ProgressOK, [Next]_vars, NEW r \in pending,
         exit' = "running", ~cfg.DryRun,
         \/ AskKids(r) \/ AskKidsFails(r) \/ DryRunRequest(r) \/ Succeed(r)
         \/ Blocked(r) \/ Fault(r) \/ Absent(r)
  PROVE  /\ UNCHANGED <<todo, cur, listed, exit>>
         /\ \A o \in Object : HasTurn(o) => HasTurn(o)' \/ DealtWith(o)'
<1>1. /\ cur \in Type /\ cur # None /\ RequestOK(r, cur) /\ r.targets \subseteq Object
      /\ exit = "running" /\ names' = names
  BY CurrentOK, HistoryGrows
     DEF AskKids, AskKidsFails, DryRunRequest, Succeed, Blocked, Fault, Absent, Current
<1>2. UNCHANGED <<todo, cur, listed, exit>>
  BY <1>1 DEF AskKids, AskKidsFails, DryRunRequest, Succeed, Blocked, Fault, Absent,
              Retry, GiveUp
<1>3. CASE AskKids(r) \/ AskKidsFails(r)
  <2>1. r.targets = {} /\ r.item \in names[cur]
    BY <1>1, <1>3 DEF AskKids, AskKidsFails, RequestOK
  <2>2. ASSUME NEW q \in pending \ pending', IsOwn(q), NEW o \in q.targets
        PROVE  DealtWith(o)'
    <3>1. q # r
      BY <2>1, <2>2 DEF IsOwn
    <3>2. q.item = r.item /\ skipped' = skipped \cup {r.item[1]}
      BY <1>3, <2>2, <3>1 DEF AskKids, AskKidsFails
    <3>3. q.targets = {r.item[1]}
      BY <1>1, <2>1, <2>2, <3>2, OnlyItsOwn
    <3> QED
      BY <2>2, <3>2, <3>3 DEF DealtWith
  <2> QED
    BY <1>2, <2>2, TurnsTaken
<1>4. CASE DryRunRequest(r)
  BY <1>4 DEF DryRunRequest, TakesEffect
<1>5. CASE Succeed(r)
  <2>1. pending' = pending \ {r}
    BY <1>5 DEF Succeed
  <2>2. \A o \in r.targets : DealtWith(o)'
    BY <1>5, AcceptedDeletes DEF Succeed, IInv, DealtWith, IsDeleted
  <2> QED
    BY <1>2, <2>1, <2>2, TurnsTaken
<1>6. CASE Retry(r)
  BY <1>2, <1>6, TurnsTaken DEF Retry
<1>7. CASE \E result \in Results \ {"deleted"} : GiveUp(r, result)
  BY <1>2, <1>7, GiveUpDeals
<1>8. CASE Absent(r) /\ \A o \in r.targets : Deleter[TypeOf[o]].tolerates
  <2>1. pending' = pending \ {r} /\ cloud' = cloud /\ \E o \in r.targets : cloud[o] = "gone"
    BY <1>8 DEF Absent
  <2>2. IsOwn(r) => \A o \in r.targets : DealtWith(o)'
    BY <1>8, <2>1, ToleratedIsGone DEF DealtWith
  <2> QED
    BY <1>2, <2>1, <2>2, TurnsTaken
<1>9. Blocked(r) \/ Fault(r) => Retry(r) \/ \E result \in Results \ {"deleted"} : GiveUp(r, result)
  BY DEF Blocked, Fault, Results
<1>10. Absent(r) => \/ \A o \in r.targets : Deleter[TypeOf[o]].tolerates
                    \/ \E result \in Results \ {"deleted"} : GiveUp(r, result)
  BY DEF Absent, Results
<1> QED
  BY <1>3, <1>4, <1>5, <1>6, <1>7, <1>8, <1>9, <1>10

\* Steps of the loop over types, and listings.
LEMMA LoopProgress ==
  ASSUME IInv, NamesGiven, ProgressOK, [Next]_vars, exit' = "running", ~cfg.DryRun,
         (\E t \in Type : StartType(t)) \/ FinishType \/ ListResources \/ ListingFails
  PROVE  ProgressOK'
<1>1. UNCHANGED <<names, cfg>>
  BY HistoryGrows
<1>2. \A t \in Type : \A n \in names[t] :
        n[1] \in Object /\ (DealtWith(n[1]) => DealtWith(n[1])')
  <2> SUFFICES ASSUME NEW t \in Type, NEW n \in names[t]
               PROVE  n[1] \in Object /\ (DealtWith(n[1]) => DealtWith(n[1])')
    OBVIOUS
  <2>1. n \in Object \X Occurrence /\ cloud[n[1]] # "unborn"
    BY DEF IInv, TypeOK, NamesGiven
  <2> QED
    BY <2>1, DealtWithForGood
<1>3. ASSUME NEW t \in Type, StartType(t) PROVE ProgressOK'
  <2>1. /\ exit = "running" /\ cur = None /\ todo' = todo \ {t} /\ cur' = t
        /\ IF Deleter[t].selects = "names"
           THEN listed' = TRUE /\ pending' = Plan(t, names[t])
           ELSE listed' = FALSE
    BY <1>3 DEF StartType
  <2>2. \A u \in Type : u # cur
    BY <2>1, ConstantAssumption DEF ConstantAssumption
  <2>3. \A u \in Type : \A n \in names[u] : u \in todo \/ DealtWith(n[1])'
    BY <1>2, <2>1, <2>2 DEF ProgressOK
  <2>4. names[t] \subseteq Object \X Occurrence
    BY DEF IInv, TypeOK
  <2>5. ASSUME Deleter[t].selects = "names", NEW n \in names[t] PROVE HasTurn(n[1])'
    BY <2>1, <2>4, <2>5, PlanHasAll DEF HasTurn, IsOwn
  <2> QED
    BY <1>1, <2>1, <2>3, <2>5 DEF ProgressOK
<1>4. CASE FinishType
  <2>1. /\ exit = "running" /\ listed /\ pending = {} /\ cur' = None /\ todo' = todo
    BY <1>4 DEF FinishType
  <2>2. \A o : ~HasTurn(o)
    BY <2>1 DEF HasTurn
  <2> QED
    BY <1>1, <1>2, <2>1, <2>2 DEF ProgressOK
<1>5. ASSUME NEW items \in SUBSET Listing(cur), WorkOn(items), cur # None,
             UNCHANGED <<todo, cur, exit>>
      PROVE  ProgressOK'
  <2>1. cur \in Type /\ items \subseteq names[cur]
    BY <1>5, ListingGiven DEF IInv, TypeOK
  <2>2. \A o \in Objects(items) : HasTurn(o)'
    BY <1>5, <2>1, TurnsGiven DEF WorkOn
  <2>3. \A n \in names[cur] : n[1] \in Objects(items) \/ DealtWith(n[1])'
    BY <1>5 DEF WorkOn, Objects, DealtWith
  <2> QED
    BY <1>5, <2>2, <2>3, ProgressWithinType
<1>6. ListResources \/ ListingFails =>
        /\ \E items \in SUBSET Listing(cur) : WorkOn(items)
        /\ cur # None /\ UNCHANGED <<todo, cur, exit>>
  BY DEF ListResources, ListingFails
<1> QED
  BY <1>3, <1>4, <1>5, <1>6

\* Every step leaves every resource waiting for its turn, or dealt with.
LEMMA ProgressStep ==
  ASSUME IInv, NamesGiven, OwnOK, ProgressOK, [Next]_vars
  PROVE  ProgressOK'
<1>1. UNCHANGED <<names, cfg>>
  BY HistoryGrows
<1> SUFFICES ASSUME exit' = "running", ~cfg.DryRun PROVE ProgressOK'
  BY <1>1 DEF ProgressOK
<1>2. \A n \in names[cur] : cur # None => n[1] \in Object
  <2> SUFFICES ASSUME cur # None, NEW n \in names[cur] PROVE n[1] \in Object
    OBVIOUS
  <2>1. n \in Object \X Occurrence
    BY DEF IInv, TypeOK
  <2> QED
    BY <2>1
<1>3. CASE (\E t \in Type : StartType(t)) \/ FinishType \/ ListResources \/ ListingFails
  BY <1>3, LoopProgress
<1>4. CASE Requesting
  <2>1. /\ UNCHANGED <<todo, cur, listed, exit>>
        /\ \A o \in Object : HasTurn(o) => HasTurn(o)' \/ DealtWith(o)'
    BY <1>4, RequestProgress DEF Requesting
  <2> QED
    BY <1>2, <2>1, ProgressWithinType
<1>5. CASE AwaitTermination \/ AwaitNatGateways \/ Environment \/ UNCHANGED vars
  <2>1. UNCHANGED <<todo, cur, listed, pending>>
    BY <1>5 DEF AwaitTermination, AwaitNatGateways, Waiting, Environment, FinishDeletion,
                Relaunch, OwnerDeletes, runVars, vars
  <2>2. exit = "running"
    BY <1>5 DEF AwaitTermination, AwaitNatGateways, Waiting, Environment, FinishDeletion,
                Relaunch, OwnerDeletes, runVars, vars
  <2>3. \A o : HasTurn(o) => HasTurn(o)'
    BY <2>1 DEF HasTurn, IsOwn
  <2> QED
    BY <2>1, <2>2, <2>3, ProgressWithinType
<1>6. ~FinishRun
  BY DEF FinishRun
<1> QED
  BY <1>3, <1>4, <1>5, <1>6 DEF Next, Program, Terminated

\* Requests for items themselves only come from a plan.
LEMMA OwnStep ==
  ASSUME IInv, OwnOK, [Next]_vars
  PROVE  OwnOK'
<1>1. CASE cur' = cur /\ \A q \in pending' \ pending : ~IsOwn(q)
  BY <1>1 DEF OwnOK, IsOwn
<1>2. ASSUME NEW t \in Type, StartType(t) PROVE OwnOK'
  <2>1. names[t] \in SUBSET (Object \X Occurrence)
    BY DEF IInv, TypeOK
  <2>2. cur' = t /\ (pending' = Plan(t, names[t]) \/ pending' = {})
    BY <1>2 DEF StartType
  <2> QED
    BY <2>1, <2>2, PlanHasAll DEF OwnOK, IsOwn
<1>3. CASE FinishType
  BY <1>3 DEF FinishType, OwnOK
<1>4. ASSUME NEW items \in SUBSET Listing(cur), WorkOn(items), cur # None, cur' = cur
      PROVE  OwnOK'
  <2>1. cur \in Type /\ items \subseteq names[cur]
    BY <1>4, ListingGiven DEF IInv, TypeOK
  <2> QED
    BY <1>4, <2>1, TurnsGiven DEF WorkOn
<1>5. CASE ListResources \/ ListingFails
  <2>1. /\ cur # None /\ cur' = cur
        /\ \/ \E items \in SUBSET Listing(cur) : WorkOn(items)
           \/ pending' = pending
    BY <1>5 DEF ListResources, ListingFails
  <2> QED
    BY <1>1, <1>4, <2>1
<1>6. ASSUME NEW r \in pending, AskKids(r) \/ AskKidsFails(r) PROVE OwnOK'
  <2>1. cur # None /\ RequestOK(r, cur) /\ r.targets = {} /\ cur' = cur
    BY <1>6, CurrentOK DEF AskKids, AskKidsFails
  <2>2. r.item \in names[cur]
    BY <2>1 DEF RequestOK
  <2>3. \A q \in pending' \ pending : ~IsOwn(q)
    BY <1>6, <2>1, <2>2, KidsAreNotOwn DEF AskKids, AskKidsFails
  <2> QED
    BY <1>1, <2>1, <2>3
<1>7. ASSUME NEW r \in pending,
             DryRunRequest(r) \/ Succeed(r) \/ Blocked(r) \/ Fault(r) \/ Absent(r)
      PROVE  cur' = cur /\ pending' \subseteq pending
  <2>1. GiveUp(r, "failed") \/ GiveUp(r, "absent") => cur' = cur /\ pending' \subseteq pending
    BY DEF GiveUp, Leave, Continue, NextItem, Return
  <2>2. Retry(r) => cur' = cur /\ pending' \subseteq pending
    BY DEF Retry
  <2> QED
    BY <1>7, <2>1, <2>2 DEF DryRunRequest, Succeed, Blocked, Fault, Absent
<1>8. CASE FinishRun \/ AwaitTermination \/ AwaitNatGateways
  BY <1>1, <1>8 DEF FinishRun, AwaitTermination, AwaitNatGateways, Waiting
<1>9. CASE Environment \/ UNCHANGED vars
  BY <1>1, <1>9 DEF Environment, FinishDeletion, Relaunch, OwnerDeletes, runVars, vars
<1> QED
  BY <1>1, <1>2, <1>3, <1>5, <1>6, <1>7, <1>8, <1>9
     DEF Next, Program, Requesting, Terminated

\* When the loop has ended, what it was given is dealt with, and stays so.
LEMMA ForgottenStep ==
  ASSUME IInv, NamesGiven, ProgressOK, NothingForgotten, [Next]_vars
  PROVE  NothingForgotten'
<1>1. UNCHANGED <<names, cfg>>
  BY HistoryGrows
<1> SUFFICES ASSUME exit' = "nil", ~cfg.DryRun, NEW t \in Type, NEW n \in names[t]
             PROVE  DealtWith(n[1])'
  BY <1>1 DEF NothingForgotten, DealtWith, Named, Objects
<1>2. n \in Object \X Occurrence /\ cloud[n[1]] # "unborn"
  BY DEF IInv, TypeOK, NamesGiven
<1>3. exit = "nil" \/ FinishRun
  BY EndStep
<1>4. CASE exit = "nil"
  <2>1. n[1] \in Named
    BY DEF Named, Objects
  <2>2. DealtWith(n[1])
    BY <1>4, <2>1 DEF NothingForgotten, DealtWith
  <2> QED
    BY <1>2, <2>2, DealtWithForGood
<1>5. CASE FinishRun
  <2>1. exit = "running" /\ cur = None /\ todo = {}
    BY <1>5 DEF FinishRun
  <2>2. DealtWith(n[1])
    BY <2>1, ConstantAssumption DEF ProgressOK, ConstantAssumption
  <2> QED
    BY <1>2, <2>2, DealtWithForGood
<1> QED
  BY <1>3, <1>4, <1>5

(***************************************************************************)
(* The second inductive invariant.                                         *)
(***************************************************************************)
TurnInv == IInv /\ NamesGiven /\ OwnOK /\ ProgressOK /\ NothingForgotten

\* At the start every type that has names is still to come.
LEMMA TurnInit == Init => TurnInv
<1> SUFFICES ASSUME Init PROVE TurnInv
  OBVIOUS
<1>1. PICK m \in ResMaps : names = m /\ todo = {t \in Type : m[t] # {}}
  BY DEF Init
<1>2. NamesGiven
  <2> SUFFICES ASSUME NEW t \in Type, NEW n \in names[t]
               PROVE  (n[2] = 1 \/ <<n[1], 1>> \in names[t]) /\ cloud[n[1]] = "live"
    BY DEF NamesGiven
  <2>1. n \in Object \X Occurrence
    BY InitOK DEF IInv, TypeOK
  <2>2. m[t] = names[t] /\ n \in m[t]
    BY <1>1
  <2>3. /\ n[2] = 1 \/ <<n[1], 1>> \in m[t]
        /\ \A o \in Object : Replaces[o] # n[1]
    BY <2>2, NamesAssumption DEF NamesAssumption
  <2>4. cloud[n[1]] = Born(n[1])
    BY <2>1 DEF Init
  <2> QED
    BY <2>2, <2>3, <2>4 DEF Born
<1>3. OwnOK /\ NothingForgotten
  BY DEF Init, OwnOK, NothingForgotten
<1>4. ProgressOK
  BY <1>1 DEF ProgressOK
<1> QED
  BY <1>2, <1>3, <1>4, InitOK DEF TurnInv

\* Every step of the program, of AWS and of other users keeps TurnInv.
LEMMA TurnStep == TurnInv /\ [Next]_vars => TurnInv'
<1> SUFFICES ASSUME TurnInv, [Next]_vars PROVE TurnInv'
  OBVIOUS
<1>1. IInv'
  BY InvStep DEF TurnInv
<1>2. NamesGiven'
  <2>1. \A t \in Type : \A n \in names[t] : n[1] \in Object
    <3> SUFFICES ASSUME NEW t \in Type, NEW n \in names[t] PROVE n[1] \in Object
      OBVIOUS
    <3>1. n \in Object \X Occurrence
      BY DEF TurnInv, IInv, TypeOK
    <3> QED
      BY <3>1
  <2> QED
    BY <2>1, HistoryGrows, NothingReturns DEF TurnInv, NamesGiven
<1>3. OwnOK'
  BY OwnStep DEF TurnInv
<1>4. ProgressOK' /\ NothingForgotten'
  BY ProgressStep, ForgottenStep DEF TurnInv
<1> QED
  BY <1>1, <1>2, <1>3, <1>4 DEF TurnInv

\* In every run each resource it was given waits for its type, for its listing, or
\* for its request, or is dealt with.
THEOREM EveryNameHasItsTurn == Spec => []TurnInv
<1> QED
  BY TurnInit, TurnStep, PTL DEF Spec

\* A run that ends well has deleted, reported or dropped all it was given.
THEOREM NothingForgottenHolds == Spec => []NothingForgotten
<1>1. TurnInv => NothingForgotten
  BY DEF TurnInv
<1> QED
  BY <1>1, EveryNameHasItsTurn, PTL

(***************************************************************************)
(* Why a name is dropped.                                                  *)
(***************************************************************************)

\* The step that drops a live resource: its listing, when it is hidden or a
\* request failed, or the failure of one of its parts.
LEMMA DropStep ==
  ASSUME TurnInv, [Next]_vars, NEW o \in skipped' \ skipped, cloud[o] = "live"
  PROVE  Hidden(o) \/ faults' > faults \/ Deleter[TypeOf[o]].kidError = "nextItem"
<1>1. IInv /\ TypeOK /\ faults \in Nat
  BY DEF TurnInv, IInv, TypeOK
<1>2. CASE ListingFails
  BY <1>1, <1>2 DEF ListingFails
<1>3. CASE ListResources
  <2>1. cur \in Type /\ skipped' = skipped \cup (Objects(names[cur]) \ Objects(Listing(cur)))
    BY <1>1, <1>3 DEF ListResources, WorkOn, TypeOK
  <2>2. PICK n \in names[cur] : n[1] = o
    BY <2>1 DEF Objects
  <2>3. \E m \in names[cur] : m[1] = o /\ m[2] = 1
    BY <2>1, <2>2 DEF TurnInv, NamesGiven
  <2>4. \A m \in names[cur] : m[1] = o => m \notin Listing(cur)
    BY <2>1 DEF Objects
  <2> QED
    BY <2>3, <2>4 DEF Listing, Exists
<1>4. ASSUME NEW r \in pending, AskKidsFails(r)
      PROVE  faults' > faults
  BY <1>1, <1>4 DEF AskKidsFails
<1>5. ASSUME NEW r \in pending, NEW result, GiveUp(r, result)
      PROVE  Deleter[TypeOf[o]].kidError = "nextItem"
  <2>1. cur \in Type /\ RequestOK(r, cur)
    BY <1>1, CurrentOK
  <2>2. /\ IsForKid(r) /\ Deleter[cur].kidError = "nextItem" /\ o = r.item[1]
    BY <1>5 DEF GiveUp, Leave, Continue, NextItem, Return
  <2>3. r.item \in names[cur]
    BY <2>1, <2>2, DeleterOf DEF RequestOK, IsForKid
  <2> QED
    BY <1>1, <2>1, <2>2, <2>3 DEF IInv, NamesOK
<1>6. ASSUME NEW r \in pending, Blocked(r) \/ Fault(r) \/ Absent(r)
      PROVE  Deleter[TypeOf[o]].kidError = "nextItem"
  BY <1>5, <1>6 DEF Blocked, Fault, Absent, Retry
<1>7. ASSUME NEW r \in pending, AskKids(r) \/ DryRunRequest(r) \/ Succeed(r)
      PROVE  FALSE
  BY <1>7 DEF AskKids, DryRunRequest, Succeed, histVars
<1>8. CASE (\E t \in Type : StartType(t)) \/ FinishType \/ FinishRun
  BY <1>8 DEF StartType, FinishType, FinishRun, histVars
<1>9. CASE AwaitTermination \/ AwaitNatGateways
  BY <1>9 DEF AwaitTermination, AwaitNatGateways, Waiting
<1>10. CASE Environment \/ UNCHANGED vars
  BY <1>10 DEF Environment, FinishDeletion, Relaunch, OwnerDeletes, vars, histVars
<1> QED
  BY <1>2, <1>3, <1>4, <1>6, <1>7, <1>8, <1>9, <1>10
     DEF Next, Program, Requesting, Terminated

\* A live resource is dropped without a request only because its deleter leaves it
\* out, a listing failed, or one of its parts could not be deleted.
THEOREM DroppedForAReasonHolds == Spec => DroppedForAReason
<1>1. TurnInv /\ [Next]_vars =>
        [\A o \in skipped' \ skipped : cloud[o] = "live" =>
           Hidden(o) \/ faults' > faults \/ Deleter[TypeOf[o]].kidError = "nextItem"]_vars
  BY DropStep
<1> QED
  BY <1>1, EveryNameHasItsTurn, PTL DEF Spec, DroppedForAReason

(***************************************************************************)
(* DeleteRun implements SafeDelete.                                        *)
(***************************************************************************)

\* A run starts with nothing settled, because what it is given exists.
LEMMA SafeInit == Init => Safe!Init
<1> SUFFICES ASSUME Init PROVE Safe!Init
  OBVIOUS
<1>1. IInv /\ NamesGiven
  BY TurnInit DEF TurnInv
<1>2. Named \subseteq Object
  BY <1>1 DEF IInv, TypeOK, Named, Objects
<1>3. \A o \in Named : cloud[o] # "unborn"
  BY <1>1 DEF NamesGiven, Named, Objects
<1>4. \A o \in Object : cloud[o] \in {"unborn", "live"} /\ ~Failed(o) /\ o \notin skipped
  BY DEF Init, Born, Failed
<1>5. Settled = {}
  BY <1>2, <1>3, <1>4 DEF Settled
<1>6. cfg.IgnoreErrors \in BOOLEAN /\ cfg.DryRun \in BOOLEAN
  BY <1>1 DEF IInv, TypeOK
<1> QED
  BY <1>2, <1>5, <1>6 DEF Safe!Init, Init

\* No step unsettles a resource or settles one that was not given.
LEMMA SettledGrows ==
  ASSUME TurnInv, [Next]_vars
  PROVE  Settled \subseteq Settled' /\ Settled' \subseteq Named /\ Named' = Named
<1>1. Named' = Named
  BY HistoryGrows DEF Named, TurnInv
<1>2. \A o \in Named : o \in Object /\ cloud[o] # "unborn"
  <2>1. Named \subseteq Object
    BY DEF TurnInv, IInv, TypeOK, Named, Objects
  <2> QED
    BY <2>1 DEF TurnInv, NamesGiven, Named, Objects
<1>3. Settled = {o \in Named : DealtWith(o)}
  BY DEF Settled, DealtWith
<1>4. Settled' = {o \in Named : DealtWith(o)'}
  BY <1>1 DEF Settled, DealtWith
<1> QED
  BY <1>1, <1>2, <1>3, <1>4, DealtWithForGood DEF TurnInv

\* A step changes only what the run may change.
LEMMA ChangedStep ==
  ASSUME MarksAreHidden, TurnInv, [Next]_vars
  PROVE  touched' \ touched
           \subseteq MayChangeOf(Named) \cap IF cfg.DryRun THEN Unchecked ELSE Object
<1>1. SUFFICES ASSUME NEW o \in touched' \ touched
               PROVE  o \in MayChangeOf(Named) /\ (cfg.DryRun => o \in Unchecked)
  BY DEF MayChangeOf
<1>2. IInv /\ Named \subseteq Object
  BY DEF TurnInv, IInv, TypeOK, Named, Objects
<1>3. PICK r \in pending : TakesEffect(r) /\ o \in r.targets
  BY <1>1, <1>2, TouchedStep
<1>4. o \in Object /\ MayTouch(o)
  BY <1>2, <1>3, CurrentOK DEF RequestOK
<1>5. o \in MayChangeOf(Named)
  BY <1>2, <1>4, HiddenIsProtected DEF MayTouch, MayChangeOf
<1>6. cfg.DryRun => o \in Unchecked
  BY <1>3, <1>4 DEF TakesEffect, DryRunOf, Unchecked
<1> QED
  BY <1>5, <1>6

\* Every step of a run is a step of SafeDelete, or none.
LEMMA SafeStep ==
  ASSUME MarksAreHidden, TurnInv, [Next]_vars
  PROVE  [Safe!Next]_(Safe!vars)
<1>1. /\ Settled \subseteq Settled' /\ Settled' \subseteq Named /\ Named' = Named
      /\ touched \subseteq touched' /\ cfg' = cfg
  BY SettledGrows, HistoryGrows DEF TurnInv
<1>2. touched' \ touched
        \subseteq MayChangeOf(Named) \cap IF cfg.DryRun THEN Unchecked ELSE Object
  BY ChangedStep
<1>3. Safe!Progress
  BY <1>1, <1>2 DEF Safe!Progress
<1>4. CASE Environment
  <2>1. UNCHANGED <<touched, exit>>
    BY <1>4 DEF Environment, FinishDeletion, Relaunch, OwnerDeletes, runVars, histVars
  <2> QED
    BY <1>1, <2>1 DEF Safe!Next, Safe!OthersSettle
<1>5. CASE UNCHANGED vars
  <2>1. UNCHANGED <<Named, Settled, touched, exit, cfg>>
    BY <1>5 DEF vars, runVars, histVars, Named, Settled, Failed
  <2> QED
    BY <2>1 DEF Safe!vars
<1>6. CASE FinishRun
  <2>1. /\ exit = "running" /\ exit' = "nil" /\ cur = None /\ todo = {}
        /\ UNCHANGED <<log, cloud, skipped, touched>>
    BY <1>6 DEF FinishRun, histVars
  <2>2. UNCHANGED Settled
    BY <1>1, <2>1 DEF Settled, Failed
  <2>3. ~cfg.DryRun => \A t \in Type : \A n \in names[t] : DealtWith(n[1])
    BY <2>1, ConstantAssumption DEF TurnInv, ProgressOK, ConstantAssumption
  <2>4. ~cfg.DryRun => Settled = Named
    BY <2>3 DEF Settled, Named, Objects, DealtWith
  <2> QED
    BY <1>1, <2>1, <2>2, <2>4 DEF Safe!Next, Safe!EndWell
<1>7. CASE exit = "running" /\ exit' = exit
  BY <1>3, <1>7 DEF Safe!Next, Safe!Work
<1>8. CASE exit = "running" /\ exit' = "error" /\ ~cfg.IgnoreErrors
  BY <1>3, <1>8 DEF Safe!Next, Safe!EndWithError
<1> QED
  BY <1>4, <1>5, <1>6, <1>7, <1>8, EndStep

\* Every run keeps the promise of SafeDelete, provided listings hide what is
\* default or main.
THEOREM ImplementsSafeDeleteHolds ==
  ASSUME MarksAreHidden PROVE Spec => ImplementsSafeDelete
<1>1. TurnInv /\ [Next]_vars => [Safe!Next]_(Safe!vars)
  BY SafeStep
<1> QED
  BY <1>1, SafeInit, EveryNameHasItsTurn, PTL DEF Spec, ImplementsSafeDelete, Safe!Spec

(***************************************************************************)
(* The order of deletion.                                                  *)
(***************************************************************************)
\* The order suits the account: of what a run is given, whatever blocks a resource
\* or one of its parts is of the same type or is in DelOrder behind it.
OrderSuits(m) ==
  \A t \in Type : \A n \in m[t] : \A o \in Object :
    o = n[1] \/ ParentOf[o] = n[1] =>
      \A b \in Blockers[o] :
        m[TypeOf[b]] = {} \/ TypeOf[b] = t \/ PositionOf(t) < PositionOf(TypeOf[b])

OrderFits == \A m \in ResMaps : OrderSuits(m)

InTurn ==
  cur # None => cur \notin todo /\ \A t \in todo : PositionOf(t) <= PositionOf(cur)

SourceOK ==
  \A r \in pending : \A o \in r.targets :
    \E n \in names[cur] : o = n[1] \/ ParentOf[o] = n[1]

OrderInv == InTurn /\ SourceOK

\* Positions are numbers, also of types that are not in DelOrder.
LEMMA PositionType == ASSUME NEW t PROVE PositionOf(t) \in Nat
<1>1. Len(DelOrder) \in Nat
  BY ConstantAssumption DEF ConstantAssumption
<1> QED
  BY <1>1 DEF PositionOf

\* A plan for some items is about them and their parts.
LEMMA PlanSource ==
  ASSUME NEW t \in Type, NEW items \in SUBSET (Object \X Occurrence), NEW r \in Plan(t, items)
  PROVE  \A o \in r.targets : \E n \in items : o = n[1] \/ ParentOf[o] = n[1]
<1>1. CASE r.targets \subseteq Objects(items)
  BY <1>1 DEF Objects
<1>2. CASE \E n \in items : r \in KidRequests(t, n)
  BY <1>2, KidRequestsOf
<1> QED
  BY <1>1, <1>2, PlanOf

\* Types are begun in turn, and what is requested belongs to the type begun.
LEMMA OrderStep ==
  ASSUME IInv, OrderInv, [Next]_vars
  PROVE  OrderInv'
<1>1. names' = names
  BY HistoryGrows
<1>2. CASE UNCHANGED <<todo, cur>> /\ pending' \subseteq pending
  BY <1>1, <1>2 DEF OrderInv, InTurn, SourceOK
<1>3. ASSUME NEW t \in Type, StartType(t) PROVE OrderInv'
  <2>1. /\ todo' = todo \ {t} /\ cur' = t /\ \A u \in todo : PositionOf(u) <= PositionOf(t)
        /\ pending' = Plan(t, names[t]) \/ pending' = {}
    BY <1>3 DEF StartType, IsNextType
  <2>2. InTurn'
    BY <2>1 DEF InTurn, PositionOf
  <2>3. names[t] \in SUBSET (Object \X Occurrence)
    BY DEF IInv, TypeOK
  <2>4. SourceOK'
    BY <1>1, <2>1, <2>3, PlanSource DEF SourceOK
  <2> QED
    BY <1>1, <2>2, <2>4 DEF OrderInv
<1>4. CASE FinishType
  BY <1>1, <1>4 DEF FinishType, OrderInv, InTurn, SourceOK
<1>5. ASSUME NEW items \in SUBSET Listing(cur), WorkOn(items), cur # None,
             UNCHANGED <<cur, todo>>
      PROVE  OrderInv'
  <2>1. cur \in Type /\ items \subseteq names[cur] /\ items \in SUBSET (Object \X Occurrence)
    BY <1>5, ListingGiven DEF IInv, TypeOK
  <2>2. SourceOK'
    BY <1>1, <1>5, <2>1, PlanSource DEF WorkOn, SourceOK
  <2> QED
    BY <1>1, <1>5, <2>2 DEF OrderInv, InTurn
<1>6. CASE ListResources \/ ListingFails
  <2>1. /\ cur # None /\ UNCHANGED <<cur, todo>>
        /\ \/ \E items \in SUBSET Listing(cur) : WorkOn(items)
           \/ pending' = pending
    BY <1>6 DEF ListResources, ListingFails
  <2> QED
    BY <1>2, <1>5, <2>1
<1>7. ASSUME NEW r \in pending, AskKids(r) \/ AskKidsFails(r) PROVE OrderInv'
  <2>1. cur # None /\ cur \in Type /\ RequestOK(r, cur) /\ r.targets = {}
        /\ UNCHANGED <<cur, todo>>
    BY <1>7, CurrentOK DEF AskKids, AskKidsFails
  <2>2. r.item \in names[cur] /\ r.item \in Object \X Occurrence
    BY <2>1 DEF RequestOK, IInv, TypeOK
  <2>3. \A q \in pending' : q \in pending \/ q \in KidRequests(cur, r.item)
    BY <1>7 DEF AskKids, AskKidsFails
  <2>4. \A q \in KidRequests(cur, r.item) : \A o \in q.targets : ParentOf[o] = r.item[1]
    BY <2>1, <2>2, KidRequestsOf
  <2>5. SourceOK'
    BY <1>1, <2>1, <2>2, <2>3, <2>4 DEF OrderInv, SourceOK
  <2> QED
    BY <1>1, <2>1, <2>5 DEF OrderInv, InTurn
<1>8. ASSUME NEW r \in pending,
             DryRunRequest(r) \/ Succeed(r) \/ Blocked(r) \/ Fault(r) \/ Absent(r)
      PROVE  UNCHANGED <<todo, cur>> /\ pending' \subseteq pending
  <2>1. GiveUp(r, "failed") \/ GiveUp(r, "absent") =>
          UNCHANGED <<todo, cur>> /\ pending' \subseteq pending
    BY DEF GiveUp, Leave, Continue, NextItem, Return
  <2>2. Retry(r) => UNCHANGED <<todo, cur>> /\ pending' \subseteq pending
    BY DEF Retry
  <2> QED
    BY <1>8, <2>1, <2>2 DEF DryRunRequest, Succeed, Blocked, Fault, Absent
<1>9. CASE FinishRun \/ AwaitTermination \/ AwaitNatGateways
  BY <1>2, <1>9 DEF FinishRun, AwaitTermination, AwaitNatGateways, Waiting
<1>10. CASE Environment \/ UNCHANGED vars
  BY <1>2, <1>10 DEF Environment, FinishDeletion, Relaunch, OwnerDeletes, runVars, vars
<1> QED
  BY <1>2, <1>3, <1>4, <1>6, <1>7, <1>8, <1>9, <1>10
     DEF Next, Program, Requesting, Terminated

\* When the order suits what the run was given, the turn of a resource comes after
\* that of whatever blocks it.
LEMMA SuitedOrder ==
  ASSUME IInv, OrderInv, OrderSuits(names)
  PROVE  BlockersGoFirst
<1> SUFFICES ASSUME NEW r \in pending, NEW o \in r.targets,
                    NEW b \in Blockers[o] \cap Named, TypeOf[b] \in todo
             PROVE  FALSE
  BY DEF BlockersGoFirst
<1>1. cur \in Type /\ cur # None /\ o \in Object
  BY CurrentOK
<1>2. PICK n \in names[cur] : o = n[1] \/ ParentOf[o] = n[1]
  BY DEF OrderInv, SourceOK
<1>3. names[TypeOf[b]] # {}
  BY DEF Named, Objects, IInv, NamesOK
<1>4. TypeOf[b] = cur \/ PositionOf(cur) < PositionOf(TypeOf[b])
  BY <1>1, <1>2, <1>3 DEF OrderSuits
<1>5. TypeOf[b] # cur /\ PositionOf(TypeOf[b]) <= PositionOf(cur)
  BY <1>1 DEF OrderInv, InTurn
<1> QED
  BY <1>4, <1>5, PositionType

\* The loop, which goes through DelOrder backwards, comes to a resource after
\* everything it was given that blocks it, when the order suits the account.
THEOREM BlockersGoFirstHolds ==
  ASSUME OrderFits PROVE Spec => []BlockersGoFirst
<1> DEFINE Inv == names \in ResMaps /\ OrderInv
<1>1. Init => Inv
  BY DEF Init, OrderInv, InTurn, SourceOK
<1>2. IInv /\ Inv /\ [Next]_vars => Inv'
  <2> SUFFICES ASSUME IInv, Inv, [Next]_vars PROVE Inv'
    OBVIOUS
  <2>1. names' = names
    BY HistoryGrows
  <2> QED
    BY <2>1, OrderStep
<1>3. IInv /\ Inv => BlockersGoFirst
  BY SuitedOrder DEF OrderFits
<1> QED
  BY <1>1, <1>2, <1>3, Invariance, PTL DEF Spec

(***************************************************************************)
(* The success of an undisturbed run.  What a run is to delete: what it    *)
(* was given, but for what is default or main, and the parts of that which *)
(* its deleters delete; and when each is asked for.                        *)
(***************************************************************************)
IsGiven(m, o) == <<o, 1>> \in m[TypeOf[o]] /\ ~HiddenByMark(o)

IsPart(m, k) ==
  LET p == ParentOf[k] IN
  p \in Object /\ IsGiven(m, p)
  /\ \E i \in 1..Len(Deleter[TypeOf[p]].kids) : Deleter[TypeOf[p]].kids[i] = TypeOf[k]

Work(m) == {o \in Object : IsGiven(m, o) \/ IsPart(m, o)}

ItemOf(m, o) == IF IsGiven(m, o) THEN o ELSE ParentOf[o]

TurnOf(m, o) == TypeOf[ItemOf(m, o)]

RankOf(m, o) ==
  IF IsGiven(m, o) THEN Len(Deleter[TypeOf[o]].kids) + 1 ELSE KidRank(TurnOf(m, o), o)

Earlier(m, p, o) == PositionOf(TurnOf(m, o)) < PositionOf(TurnOf(m, p))

IsReplacement(o) == \E p \in Object : Replaces[p] = o

IsAwaited(m, p) == TypeOf[p] \in Async /\ Deleter[TurnOf(m, p)].waits # "no"

(***************************************************************************)
(* What of the account and of what was given the success depends on.  S is *)
(* the work that deletions nobody waits for may hold up.                   *)
(***************************************************************************)
\* Gone when the turn of o comes: b, or what AWS deletes b with, is deleted earlier,
\* at once or awaited.
GoneBefore(m, S, b, o) ==
  \E p \in Work(m) \ S :
    /\ Earlier(m, p, o)
    /\ \/ b = p /\ (TypeOf[p] \notin Async \/ IsAwaited(m, p))
       \/ b \in Cascade[p] /\ IsAwaited(m, p) /\ ~IsReplacement(b)

\* b is asked for before o, by the order of the requests of one type.
EarlierInTurn(m, b, o) ==
  /\ TurnOf(m, b) = TurnOf(m, o) /\ RankOf(m, b) < RankOf(m, o)
  /\ Deleter[TurnOf(m, o)].order = "kidsFirst" \/ ItemOf(m, b) = ItemOf(m, o)

\* Gone when o is asked for.
GoneInTurn(m, S, b, o) ==
  b \in Work(m) \ S /\ TypeOf[b] \notin Async /\ EarlierInTurn(m, b, o)

\* Gone when o is asked for, or on its way out with nobody waiting, or held up itself.
Passed(m, b, o) ==
  /\ b \in Work(m)
  /\ \/ Earlier(m, b, o) /\ (TypeOf[b] \in Async \ Unawaited => IsAwaited(m, b))
     \/ EarlierInTurn(m, b, o) /\ TypeOf[b] \notin Async \ Unawaited

BlockersFit(m, S) ==
  \A o \in Work(m) : \A b \in Blockers[o] \ {o} :
    GoneBefore(m, S, b, o) \/ GoneInTurn(m, S, b, o) \/ (o \in S /\ Passed(m, b, o))

\* What may be held up is asked for by itself, and nothing is passed over for it.
HeldUpFit(m, S) ==
  \A o \in S : /\ ~Deleter[TurnOf(m, o)].batch
               /\ IsGiven(m, o) \/ Deleter[TurnOf(m, o)].kidError = "return"

ListingsFit(m, S) ==
  \A o \in Work(m) : IsGiven(m, o) =>
    /\ "attached" \in Deleter[TypeOf[o]].hides => \A b \in Blockers[o] : GoneBefore(m, S, b, o)
    /\ "in use" \in Deleter[TypeOf[o]].hides => \A k \in KidsOf(o) : GoneBefore(m, S, k, o)

CascadesFit(m, S) ==
  \A p, o \in Work(m) : o \in Cascade[p] \ {p} =>
    \/ Earlier(m, o, p)
    \/ /\ p \notin S /\ Earlier(m, p, o) /\ IsAwaited(m, p)
       /\ IsGiven(m, o) => /\ Deleter[TypeOf[o]].selects # "names"
                           /\ \A k \in Work(m) : ItemOf(m, k) = o => k \in Cascade[p]

PartsFit(m) ==
  \A o \in Work(m) : ~IsReplacement(o) /\ (IsPart(m, o) => ~IsGiven(m, o))

UncheckedFit(m) ==
  \A o \in Work(m) : Deleter[TypeOf[o]].dryRun = "unchecked" =>
    Blockers[o] = {} /\ Cascade[o] = {}

NamesFit(m) == \A t \in Type : \A n \in m[t] : n[2] = 2 => Deleter[t].selects = "filter"

DeleterFits(d) ==
  /\ "live" \in d.kidStates /\ d.kidStates \subseteq {"live", "going"}
  /\ d.batch => d.kids = << >>

DeletersFit == \A t \in Type : DeleterFits(Deleter[t])

FitsBut(m, S) ==
  /\ BlockersFit(m, S) /\ HeldUpFit(m, S) /\ ListingsFit(m, S) /\ CascadesFit(m, S)
  /\ PartsFit(m) /\ UncheckedFit(m) /\ NamesFit(m)

Fits(m) == \E S \in SUBSET Work(m) : FitsBut(m, S)

Laggards(m) == CHOOSE S \in SUBSET Work(m) : FitsBut(m, S)

(***************************************************************************)
(* The invariant.                                                          *)
(***************************************************************************)
Undisturbed == faults = 0 /\ ~late

Started == \A o \in Object : IsReplacement(o) \/ cloud[o] # "unborn"

CascadesDone ==
  \A p \in Object : cloud[p] = "gone" /\ TypeOf[p] \in Async =>
    \A o \in Cascade[p] : IsReplacement(o) \/ cloud[o] = "gone"

DoneInOrder ==
  \A d \in Type \ todo : d # cur /\ names[d] # {} =>
    \A t \in Type : t \in todo \/ t = cur => PositionOf(t) <= PositionOf(d)

RequestFor(m, o) ==
  [item |-> <<ItemOf(m, o), 1>>, targets |-> {o}, rank |-> RankOf(m, o)]

IsBatchOf(r, m, t) ==
  r.targets # {} /\ \A o \in r.targets : o \in Work(m) /\ IsGiven(m, o) /\ TypeOf[o] = t

IsSingleOf(r, m, t) == \E o \in Work(m) : TurnOf(m, o) = t /\ r = RequestFor(m, o)

IsAskOf(r, m, t) ==
  \E o \in Work(m) : IsGiven(m, o) /\ TypeOf[o] = t /\ r = AskForKids(<<o, 1>>)

ShapeOK ==
  \A r \in pending :
    IF Deleter[cur].batch THEN pending = {r} /\ IsBatchOf(r, names, cur)
    ELSE IsSingleOf(r, names, cur) \/ IsAskOf(r, names, cur)

PendingLive == \A r \in pending : \A o \in r.targets : cloud[o] = "live"

IsWaiting(o) ==
  \/ TurnOf(names, o) \in todo
  \/ TurnOf(names, o) = cur /\ ~listed
  \/ IsPart(names, o) /\ AskForKids(<<ItemOf(names, o), 1>>) \in pending

Untouched ==
  \A o \in Work(names) : IsWaiting(o) /\ cloud[o] # "live" =>
    /\ ~cfg.DryRun
    /\ \E p \in Work(names) : o \in Cascade[p] \ {p} /\ TurnOf(names, p) \notin todo

IsRequested(o) == \E r \in pending : o \in r.targets

Progressed ==
  ~cfg.DryRun =>
    \A o \in Work(names) :
      \/ IsWaiting(o) \/ IsRequested(o) \/ cloud[o] = "gone"
      \/ /\ cloud[o] = "going" /\ TypeOf[o] \in Async
         /\ IsAwaited(names, o) => TurnOf(names, o) = cur /\ o \in awaited
      \/ o \in heldUp

HeldUpOK == (exit = "error" => heldUp # {}) /\ heldUp \subseteq Laggards(names)

CalmOK == HeldUpOK /\ ShapeOK /\ PendingLive /\ Untouched /\ Progressed

CalmInv ==
  /\ Started /\ CascadesDone /\ InTurn /\ DoneInOrder
  /\ exit = "nil" => cur = None /\ todo = {}
  /\ Undisturbed => CalmOK

(***************************************************************************)
(* What is known of the work.                                              *)
(***************************************************************************)

\* Every piece of work belongs to an item that was given, and has a rank.
LEMMA WorkFacts ==
  ASSUME TypeOK, NEW o \in Work(names)
  PROVE  /\ o \in Object /\ TypeOf[o] \in Type
         /\ ItemOf(names, o) \in Object /\ IsGiven(names, ItemOf(names, o))
         /\ TurnOf(names, o) \in Type /\ TurnOf(names, o) # None
         /\ <<ItemOf(names, o), 1>> \in names[TurnOf(names, o)]
         /\ Len(Deleter[TurnOf(names, o)].kids) \in Nat
         /\ IsGiven(names, o) =>
              /\ ItemOf(names, o) = o /\ TurnOf(names, o) = TypeOf[o]
              /\ RankOf(names, o) = Len(Deleter[TurnOf(names, o)].kids) + 1
         /\ ~IsGiven(names, o) =>
              /\ IsPart(names, o) /\ ItemOf(names, o) = ParentOf[o]
              /\ RankOf(names, o) = KidRank(TurnOf(names, o), o)
              /\ RankOf(names, o) \in 1..Len(Deleter[TurnOf(names, o)].kids)
              /\ \E i \in 1..Len(Deleter[TurnOf(names, o)].kids) :
                   Deleter[TurnOf(names, o)].kids[i] = TypeOf[o]
<1> DEFINE t == TurnOf(names, o)
<1>1. o \in Object /\ (IsGiven(names, o) \/ IsPart(names, o))
  BY DEF Work
<1>2. ItemOf(names, o) \in Object /\ IsGiven(names, ItemOf(names, o))
  BY <1>1 DEF ItemOf, IsPart
<1>3. TypeOf[o] \in Type /\ t \in Type /\ t # None
  BY <1>1, <1>2, ConstantAssumption DEF ConstantAssumption, TurnOf
<1>4. <<ItemOf(names, o), 1>> \in names[t]
  BY <1>2 DEF IsGiven, TurnOf
<1>5. Len(Deleter[t].kids) \in Nat
  BY <1>3, DeleterOf
<1>6. IsGiven(names, o) => /\ ItemOf(names, o) = o /\ t = TypeOf[o]
                           /\ RankOf(names, o) = Len(Deleter[t].kids) + 1
  BY DEF ItemOf, TurnOf, RankOf
<1>7. ASSUME ~IsGiven(names, o)
      PROVE  /\ IsPart(names, o) /\ ItemOf(names, o) = ParentOf[o]
             /\ RankOf(names, o) = KidRank(t, o)
             /\ RankOf(names, o) \in 1..Len(Deleter[t].kids)
             /\ \E i \in 1..Len(Deleter[t].kids) : Deleter[t].kids[i] = TypeOf[o]
  <2>1. IsPart(names, o) /\ ItemOf(names, o) = ParentOf[o] /\ RankOf(names, o) = KidRank(t, o)
    BY <1>1, <1>7 DEF ItemOf, RankOf
  <2>2. \E i \in 1..Len(Deleter[t].kids) : Deleter[t].kids[i] = TypeOf[o]
    BY <2>1 DEF IsPart, TurnOf
  <2> QED
    BY <2>1, <2>2 DEF KidRank
<1> QED
  BY <1>1, <1>2, <1>3, <1>4, <1>5, <1>6, <1>7

\* The name of an item has a turn of its own, and its parts have the same.
LEMMA ItemIsWork ==
  ASSUME TypeOK, NEW o \in Work(names)
  PROVE  /\ ItemOf(names, o) \in Work(names)
         /\ ItemOf(names, ItemOf(names, o)) = ItemOf(names, o)
         /\ TurnOf(names, ItemOf(names, o)) = TurnOf(names, o)
<1>1. ItemOf(names, o) \in Object /\ IsGiven(names, ItemOf(names, o))
  BY WorkFacts
<1> QED
  BY <1>1 DEF Work, ItemOf, TurnOf

\* A part that a listing of parts finds is work.
LEMMA KidIsWork ==
  ASSUME TypeOK, PartsFit(names), NEW o \in Work(names), IsGiven(names, o),
         NEW k \in DeletableKids(TypeOf[o], o)
  PROVE  /\ k \in Work(names) /\ IsPart(names, k) /\ ~IsGiven(names, k)
         /\ ItemOf(names, k) = o /\ TurnOf(names, k) = TypeOf[o]
         /\ RankOf(names, k) = KidRank(TypeOf[o], k)
         /\ cloud[k] \in Deleter[TypeOf[o]].kidStates
<1>1. /\ k \in Object /\ ParentOf[k] = o /\ cloud[k] \in Deleter[TypeOf[o]].kidStates
      /\ \E i \in 1..Len(Deleter[TypeOf[o]].kids) : Deleter[TypeOf[o]].kids[i] = TypeOf[k]
  BY DEF DeletableKids, KidsOf
<1>2. IsPart(names, k)
  BY <1>1 DEF IsPart, Work
<1>3. k \in Work(names) /\ ~IsGiven(names, k)
  BY <1>1, <1>2 DEF Work, PartsFit
<1> QED
  BY <1>1, <1>2, <1>3 DEF ItemOf, TurnOf, RankOf

\* And every part of the work that is in the right state is found.
LEMMA KidIsFound ==
  ASSUME TypeOK, NEW k \in Work(names), ~IsGiven(names, k),
         cloud[k] \in Deleter[TurnOf(names, k)].kidStates
  PROVE  k \in DeletableKids(TurnOf(names, k), ItemOf(names, k))
BY WorkFacts DEF DeletableKids, KidsOf

\* The requests for the parts of an item.
LEMMA KidRequestsAre ==
  ASSUME TypeOK, PartsFit(names), NEW o \in Work(names), IsGiven(names, o)
  PROVE  KidRequests(TypeOf[o], <<o, 1>>)
           = {RequestFor(names, k) : k \in DeletableKids(TypeOf[o], o)}
<1>1. \A k \in DeletableKids(TypeOf[o], o) :
        RequestFor(names, k)
          = [item |-> <<o, 1>>, targets |-> {k}, rank |-> KidRank(TypeOf[o], k)]
  BY KidIsWork DEF RequestFor
<1> QED
  BY <1>1 DEF KidRequests

(***************************************************************************)
(* The parts that hold whatever happens.                                   *)
(***************************************************************************)

\* What is gone stays gone; what is not auto scaling's to start is there at first.
LEMMA GoneStays ==
  ASSUME IInv, [Next]_vars, NEW o \in Object
  PROVE  /\ cloud[o] = "gone" => cloud'[o] = "gone"
         /\ cloud[o] # "unborn" => cloud'[o] # "unborn"
<1>1. cloud \in [Object -> States]
  BY DEF IInv, TypeOK
<1>2. CASE \E T \in SUBSET Object : cloud' = Deleted(T)
  BY <1>1, <1>2 DEF Deleted
<1>3. CASE UNCHANGED cloud
  BY <1>3
<1>4. CASE \E p \in Object : cloud[p] = "going" /\ cloud' = [cloud EXCEPT ![p] = "gone"]
  BY <1>1, <1>4
<1>5. CASE \E p \in Object : cloud[p] = "unborn" /\ cloud' = [cloud EXCEPT ![p] = "live"]
  BY <1>1, <1>5
<1> QED
  BY <1>2, <1>3, <1>4, <1>5, CloudStep

\* What AWS deletes later is gone only after what it deletes with it.
LEMMA CascadeStep ==
  ASSUME IInv, Started, CascadesDone, [Next]_vars
  PROVE  Started' /\ CascadesDone'
<1>1. cloud \in [Object -> States]
  BY DEF IInv, TypeOK
<1>2. Started'
  BY GoneStays DEF Started
<1>3. ASSUME NEW p \in Object, cloud'[p] = "gone", TypeOf[p] \in Async, cloud[p] # "gone"
      PROVE  FinishDeletion(p)
  <2>1. ASSUME NEW T, cloud' = Deleted(T) PROVE FALSE
    BY <1>1, <1>3, <2>1 DEF Deleted
  <2>2. ~UNCHANGED cloud
    BY <1>3
  <2>3. ~Program
    <3>1. ASSUME NEW r \in pending,
                 \/ AskKids(r) \/ AskKidsFails(r) \/ DryRunRequest(r) \/ Succeed(r)
                 \/ Blocked(r) \/ Fault(r) \/ Absent(r)
          PROVE  FALSE
      BY <2>1, <2>2, <3>1 DEF AskKids, AskKidsFails, DryRunRequest, Succeed, Blocked, Fault,
                             Absent, Accepted
    <3>2. ~Requesting => ~Program
      BY <2>2 DEF Program, StartType, FinishType, FinishRun, ListResources, ListingFails,
                  AwaitTermination, AwaitNatGateways, Waiting
    <3> QED
      BY <3>1, <3>2 DEF Requesting
  <2>4. ASSUME NEW o \in Object, FinishDeletion(o) PROVE o = p
    BY <1>1, <1>3, <2>4 DEF FinishDeletion
  <2>5. ASSUME NEW o \in Object, Relaunch(o) PROVE FALSE
    BY <1>1, <1>3, <2>5 DEF Relaunch
  <2>6. ASSUME NEW o \in Object, OwnerDeletes(o) PROVE FALSE
    BY <2>1, <2>6 DEF OwnerDeletes
  <2> QED
    BY <2>2, <2>3, <2>4, <2>5, <2>6 DEF Next, Environment, Terminated, vars
<1>4. ASSUME NEW p \in Object, cloud'[p] = "gone", TypeOf[p] \in Async,
             NEW o \in Cascade[p], ~IsReplacement(o)
      PROVE  cloud'[o] = "gone"
  <2>1. o \in Object
    BY <1>4, ConstantAssumption DEF ConstantAssumption
  <2>2. CASE cloud[p] = "gone"
    BY <1>4, <2>1, <2>2, GoneStays DEF CascadesDone
  <2>3. CASE cloud[p] # "gone"
    <3>1. ~Exists(o) /\ cloud[o] # "unborn"
      BY <1>3, <1>4, <2>1, <2>3 DEF FinishDeletion, Started
    <3>2. cloud[o] = "gone"
      BY <1>1, <2>1, <3>1 DEF Exists, States
    <3> QED
      BY <2>1, <3>2, GoneStays
  <2> QED
    BY <2>2, <2>3
<1> QED
  BY <1>2, <1>4 DEF CascadesDone

\* The loop goes through the types in order: those done come before those to do.
LEMMA DoneStep ==
  ASSUME IInv, InTurn, DoneInOrder, [Next]_vars
  PROVE  InTurn' /\ DoneInOrder'
<1>1. names' = names
  BY HistoryGrows
<1>2. CASE UNCHANGED <<todo, cur>>
  BY <1>1, <1>2 DEF InTurn, DoneInOrder
<1>3. ASSUME NEW t \in Type, StartType(t) PROVE InTurn' /\ DoneInOrder'
  <2>1. /\ cur = None /\ t \in todo /\ todo' = todo \ {t} /\ cur' = t
        /\ \A u \in todo : PositionOf(u) <= PositionOf(t)
    BY <1>3 DEF StartType, IsNextType
  <2>2. InTurn'
    BY <2>1 DEF InTurn, PositionOf
  <2>3. ASSUME NEW d \in Type \ todo', d # cur', names[d] # {},
               NEW u \in Type, u \in todo' \/ u = cur'
        PROVE  PositionOf(u) <= PositionOf(d)
    <3>1. d \in Type \ todo /\ d # cur /\ u \in todo
      BY <2>1, <2>3, ConstantAssumption DEF ConstantAssumption
    <3> QED
      BY <2>3, <3>1 DEF DoneInOrder
  <2> QED
    BY <1>1, <2>2, <2>3 DEF DoneInOrder, PositionOf
<1>4. CASE FinishType
  <2>1. cur # None /\ cur' = None /\ todo' = todo
    BY <1>4 DEF FinishType
  <2>2. cur \in Type /\ cur \notin todo
    BY <2>1 DEF IInv, TypeOK, InTurn
  <2>3. ASSUME NEW d \in Type \ todo', d # cur', names[d] # {},
               NEW u \in Type, u \in todo' \/ u = cur'
        PROVE  PositionOf(u) <= PositionOf(d)
    <3>1. u \in todo
      BY <2>1, <2>3, ConstantAssumption DEF ConstantAssumption
    <3>2. CASE d = cur
      BY <2>1, <3>1, <3>2 DEF InTurn
    <3>3. CASE d # cur
      BY <2>1, <2>3, <3>1, <3>3 DEF DoneInOrder
    <3> QED
      BY <3>2, <3>3
  <2> QED
    BY <1>1, <2>1, <2>3 DEF DoneInOrder, InTurn, PositionOf
<1>5. ASSUME NEW r \in pending,
             \/ AskKids(r) \/ AskKidsFails(r) \/ DryRunRequest(r) \/ Succeed(r)
             \/ Blocked(r) \/ Fault(r) \/ Absent(r)
      PROVE  UNCHANGED <<todo, cur>>
  BY <1>5 DEF AskKids, AskKidsFails, DryRunRequest, Succeed, Blocked, Fault, Absent, Retry,
              GiveUp
<1>6. CASE \/ FinishRun \/ ListResources \/ ListingFails
           \/ AwaitTermination \/ AwaitNatGateways
  BY <1>2, <1>6 DEF FinishRun, ListResources, ListingFails, AwaitTermination,
                    AwaitNatGateways, Waiting
<1>7. CASE Environment \/ UNCHANGED vars
  BY <1>2, <1>7 DEF Environment, FinishDeletion, Relaunch, OwnerDeletes, runVars, vars
<1> QED
  BY <1>2, <1>3, <1>4, <1>5, <1>6, <1>7 DEF Next, Program, Requesting, Terminated

(***************************************************************************)
(* What is so when a type's turn comes.                                    *)
(***************************************************************************)
HasCome(t) ==
  /\ t \in Type /\ cur \in {None, t} /\ (t \in todo \/ t = cur)
  /\ \A u \in todo : PositionOf(u) <= PositionOf(t)

\* Where the order fits, the laggards are such a set.
LEMMA LaggardsFit ==
  ASSUME NEW m, Fits(m)
  PROVE  Laggards(m) \in SUBSET Work(m) /\ FitsBut(m, Laggards(m))
BY DEF Fits, Laggards

CalmFits ==
  /\ DeletersFit /\ FitsBut(names, Laggards(names))
  /\ IInv /\ NamesGiven /\ Started /\ CascadesDone /\ InTurn /\ DoneInOrder /\ CalmOK

\* What is requested, and whose parts are asked for, is of the current type.
LEMMA RequestedIsCurrent ==
  ASSUME IInv, ShapeOK, NEW o \in Work(names)
  PROVE  /\ IsRequested(o) => TurnOf(names, o) = cur /\ cur # None
         /\ AskForKids(<<ItemOf(names, o), 1>>) \in pending =>
              TurnOf(names, o) = cur /\ cur # None
<1>1. ASSUME NEW r \in pending, o \in r.targets
      PROVE  TurnOf(names, o) = cur /\ cur # None
  <2>1. cur # None
    BY CurrentOK
  <2>2. CASE IsBatchOf(r, names, cur)
    BY <1>1, <2>1, <2>2, WorkFacts DEF IsBatchOf, IInv
  <2>3. CASE IsSingleOf(r, names, cur)
    BY <1>1, <2>1, <2>3 DEF IsSingleOf, RequestFor
  <2>4. CASE IsAskOf(r, names, cur)
    BY <1>1, <2>4 DEF IsAskOf, AskForKids
  <2> QED
    BY <2>2, <2>3, <2>4 DEF ShapeOK
<1>2. ASSUME NEW r \in pending, r = AskForKids(<<ItemOf(names, o), 1>>)
      PROVE  TurnOf(names, o) = cur /\ cur # None
  <2>1. r.targets = {} /\ r.item = <<ItemOf(names, o), 1>>
    BY <1>2 DEF AskForKids
  <2>2. cur # None
    BY CurrentOK
  <2>3. IsAskOf(r, names, cur)
    BY <2>1 DEF ShapeOK, IsBatchOf, IsSingleOf, RequestFor
  <2> QED
    BY <2>1, <2>2, <2>3 DEF IsAskOf, AskForKids, TurnOf
<1> QED
  BY <1>1, <1>2 DEF IsRequested

\* What has been done earlier is gone, if AWS deletes it at once or it was awaited;
\* or it was held up, or is still on its way out.
LEMMA EarlierIsGone ==
  ASSUME CalmFits, ~cfg.DryRun, NEW t, HasCome(t), NEW p \in Work(names),
         PositionOf(t) < PositionOf(TurnOf(names, p))
  PROVE  \/ cloud[p] = "gone" \/ p \in heldUp
         \/ cloud[p] = "going" /\ TypeOf[p] \in Async /\ ~IsAwaited(names, p)
<1>1. TypeOK
  BY DEF CalmFits, IInv
<1>2. TurnOf(names, p) \in Type /\ PositionOf(t) \in Nat /\ PositionOf(TurnOf(names, p)) \in Nat
  BY <1>1, WorkFacts, PositionType
<1>3. TurnOf(names, p) \notin todo /\ TurnOf(names, p) # cur
  <2>1. TurnOf(names, p) # None
    BY <1>1, WorkFacts
  <2>2. TurnOf(names, p) # t
    BY <1>2
  <2> QED
    BY <1>2, <2>1, <2>2 DEF HasCome
<1>4. ~IsWaiting(p) /\ ~IsRequested(p)
  BY <1>3, RequestedIsCurrent DEF CalmFits, CalmOK, IsWaiting
<1> QED
  BY <1>3, <1>4 DEF CalmFits, CalmOK, Progressed

\* What is to be gone before a turn is gone when it comes.
LEMMA GoneBeforeIsGone ==
  ASSUME CalmFits, ~cfg.DryRun, NEW t, HasCome(t), NEW o, TurnOf(names, o) = t,
         NEW b \in Object, GoneBefore(names, Laggards(names), b, o)
  PROVE  cloud[b] = "gone"
<1>1. PICK p \in Work(names) \ Laggards(names) :
        /\ Earlier(names, p, o)
        /\ \/ b = p /\ (TypeOf[p] \notin Async \/ IsAwaited(names, p))
           \/ b \in Cascade[p] /\ IsAwaited(names, p) /\ ~IsReplacement(b)
  BY DEF GoneBefore
<1>2. cloud[p] = "gone"
  BY <1>1, EarlierIsGone DEF Earlier, CalmFits, CalmOK, HeldUpOK
<1>3. p \in Object
  BY DEF Work
<1> QED
  BY <1>1, <1>2, <1>3 DEF CalmFits, CascadesDone, IsAwaited

\* When the turn of a piece of work has come it is live, or has been deleted with
\* something deleted earlier, as have been its parts.
LEMMA WaitingIsLive ==
  ASSUME CalmFits, NEW t, HasCome(t), NEW o \in Work(names), TurnOf(names, o) = t,
         IsWaiting(o), cloud[o] # "live"
  PROVE  /\ ~cfg.DryRun /\ cloud[o] = "gone"
         /\ IsGiven(names, o) =>
              /\ Deleter[t].selects # "names"
              /\ \A k \in Work(names) : ItemOf(names, k) = o => cloud[k] = "gone"
<1>1. TypeOK /\ CascadesFit(names, Laggards(names)) /\ PartsFit(names)
  BY DEF CalmFits, IInv, FitsBut
<1>2. ~cfg.DryRun
  BY DEF CalmFits, CalmOK, Untouched
<1>3. PICK p \in Work(names) : o \in Cascade[p] \ {p} /\ TurnOf(names, p) \notin todo
  BY DEF CalmFits, CalmOK, Untouched
<1> DEFINE u == TurnOf(names, p)
<1>4. /\ u \in Type /\ u # None /\ names[u] # {} /\ p \in Object
      /\ PositionOf(t) \in Nat /\ PositionOf(u) \in Nat
  BY <1>1, WorkFacts, PositionType
<1>5. ~Earlier(names, o, p)
  <2> SUFFICES ASSUME PositionOf(u) < PositionOf(t) PROVE FALSE
    BY DEF Earlier
  <2>1. u # cur
    BY <1>4 DEF HasCome
  <2>2. PositionOf(t) <= PositionOf(u)
    BY <1>3, <1>4, <2>1 DEF CalmFits, DoneInOrder, HasCome
  <2> QED
    BY <1>4, <2>2
<1>6. /\ p \notin Laggards(names) /\ Earlier(names, p, o) /\ IsAwaited(names, p)
      /\ IsGiven(names, o) => /\ Deleter[TypeOf[o]].selects # "names"
                              /\ \A k \in Work(names) : ItemOf(names, k) = o => k \in Cascade[p]
  BY <1>1, <1>3, <1>5 DEF CascadesFit
<1>7. cloud[p] = "gone"
  BY <1>2, <1>6, EarlierIsGone DEF Earlier, CalmFits, CalmOK, HeldUpOK
<1>8. \A k \in Work(names) : k \in Cascade[p] => cloud[k] = "gone"
  BY <1>1, <1>4, <1>6, <1>7 DEF CalmFits, CascadesDone, PartsFit, IsAwaited
<1>9. IsGiven(names, o) => TypeOf[o] = t
  BY <1>1, WorkFacts
<1> QED
  BY <1>2, <1>3, <1>6, <1>8, <1>9

\* A listing shows all live work of its type, unless nothing is deleted anyway.
LEMMA LiveIsListed ==
  ASSUME CalmFits, ~cfg.DryRun, cur # None, HasCome(cur), NEW o \in Work(names),
         IsGiven(names, o), TypeOf[o] = cur, cloud[o] = "live"
  PROVE  <<o, 1>> \in Listing(cur)
<1>1. TypeOK /\ ListingsFit(names, Laggards(names)) /\ o \in Object
  BY DEF CalmFits, IInv, FitsBut, Work
<1>2. TurnOf(names, o) = cur /\ <<o, 1>> \in names[cur]
  BY <1>1, WorkFacts DEF IsGiven
<1>3. \A b \in Object : GoneBefore(names, Laggards(names), b, o) => cloud[b] = "gone"
  BY <1>2, GoneBeforeIsGone
<1>4. Blockers[o] \subseteq Object /\ KidsOf(o) \subseteq Object
  BY <1>1, ConstantAssumption DEF ConstantAssumption, KidsOf
<1>5. ASSUME NEW m \in Deleter[TypeOf[o]].hides PROVE ~HasMark(o, m)
  <2>1. m \in {"default", "main", "deleting", "attached", "in use"}
    <3>1. Deleter[TypeOf[o]].hides \subseteq {"default", "main", "deleting", "attached", "in use"}
      BY <1>1, WorkFacts, DeleterOf DEF DeleterRecord
    <3> QED
      BY <3>1
  <2>2. m \notin Marks[o]
    BY DEF IsGiven, HiddenByMark
  <2>3. m = "attached" => \A b \in Blockers[o] : ~Exists(b)
    BY <1>1, <1>3, <1>4 DEF ListingsFit, Exists
  <2>4. m = "in use" => \A k \in KidsOf(o) : cloud[k] # "live"
    BY <1>1, <1>3, <1>4 DEF ListingsFit
  <2> QED
    BY <2>2, <2>3, <2>4 DEF HasMark
<1>6. ~Hidden(o) /\ Exists(o)
  BY <1>5 DEF Hidden, Exists
<1> QED
  BY <1>2, <1>6 DEF Listing

(***************************************************************************)
(* What a plan asks for.                                                   *)
(***************************************************************************)
\* Names as a listing shows them, or as they are where none is there twice.
AreNames(t, items) ==
  items \subseteq names[t] /\ \A n \in items : n[2] = 1 /\ ~HiddenByMark(n[1])

\* Such names are work.
LEMMA NamesAreWork ==
  ASSUME TypeOK, NamesOK, NEW t \in Type, NEW items, AreNames(t, items), NEW n \in items
  PROVE  /\ n = <<n[1], 1>> /\ n[1] \in Work(names)
         /\ IsGiven(names, n[1]) /\ TypeOf[n[1]] = t
<1>1. n \in names[t] /\ n \in Object \X Occurrence /\ n[2] = 1
  BY DEF AreNames, TypeOK
<1>2. n = <<n[1], 1>> /\ n[1] \in Object
  BY <1>1
<1>3. TypeOf[n[1]] = t
  BY <1>1 DEF NamesOK
<1>4. IsGiven(names, n[1])
  BY <1>1, <1>2, <1>3 DEF IsGiven, AreNames
<1> QED
  BY <1>2, <1>3, <1>4 DEF Work

\* Every request of a plan is for a piece of work, or asks for the parts of one.
LEMMA PlanShape ==
  ASSUME IInv, PartsFit(names), NEW t \in Type, NEW items, AreNames(t, items),
         NEW r \in Plan(t, items)
  PROVE  /\ IF Deleter[t].batch
            THEN Plan(t, items) = {r} /\ IsBatchOf(r, names, t)
            ELSE IsSingleOf(r, names, t) \/ IsAskOf(r, names, t)
         /\ \A o \in r.targets :
              /\ o \in Work(names) /\ TurnOf(names, o) = t
              /\ IF IsGiven(names, o) THEN <<o, 1>> \in items
                 ELSE cloud[o] \in Deleter[t].kidStates
<1>1. TypeOK /\ NamesOK
  BY DEF IInv
<1>2. \A n \in items : /\ n = <<n[1], 1>> /\ n[1] \in Work(names)
                       /\ IsGiven(names, n[1]) /\ TypeOf[n[1]] = t
                       /\ TurnOf(names, n[1]) = t
  <2> SUFFICES ASSUME NEW n \in items
               PROVE  /\ n = <<n[1], 1>> /\ n[1] \in Work(names)
                      /\ IsGiven(names, n[1]) /\ TypeOf[n[1]] = t
                      /\ TurnOf(names, n[1]) = t
    OBVIOUS
  <2>1. /\ n = <<n[1], 1>> /\ n[1] \in Work(names)
        /\ IsGiven(names, n[1]) /\ TypeOf[n[1]] = t
    BY <1>1, NamesAreWork
  <2> QED
    BY <1>1, <2>1, WorkFacts
<1>3. CASE Deleter[t].batch
  <2>1. Plan(t, items) = {BatchRequest(t, items)} /\ items # {}
    BY <1>3 DEF Plan
  <2>2. r = BatchRequest(t, items)
    BY <2>1
  <2>3. r.targets = {n[1] : n \in items}
    BY <2>2 DEF BatchRequest
  <2>4. ASSUME NEW o \in r.targets
        PROVE  /\ o \in Work(names) /\ IsGiven(names, o) /\ TypeOf[o] = t
               /\ TurnOf(names, o) = t /\ <<o, 1>> \in items
    <3>1. PICK n \in items : o = n[1]
      BY <2>3
    <3> QED
      BY <1>2, <3>1
  <2>5. r.targets # {}
    BY <2>1, <2>3
  <2> QED
    BY <1>3, <2>1, <2>2, <2>4, <2>5 DEF IsBatchOf
<1>4. CASE ~Deleter[t].batch
  <2>1. r \in {ItemRequest(t, n) : n \in items} \cup
             IF Deleter[t].asksKids
             THEN {AskForKids(n) : n \in items}
             ELSE UNION {KidRequests(t, n) : n \in items}
    BY <1>4 DEF Plan
  <2>2. ASSUME NEW n \in items, r = ItemRequest(t, n)
        PROVE  r = RequestFor(names, n[1])
    <3>1. ItemOf(names, n[1]) = n[1] /\ RankOf(names, n[1]) = Len(Deleter[t].kids) + 1
      BY <1>1, <1>2, WorkFacts
    <3> QED
      BY <1>2, <2>2, <3>1 DEF ItemRequest, RequestFor
  <2>3. ASSUME NEW n \in items, r \in KidRequests(t, n)
        PROVE  \E k \in DeletableKids(t, n[1]) : r = RequestFor(names, k)
    <3>1. KidRequests(t, <<n[1], 1>>)
            = {RequestFor(names, k) : k \in DeletableKids(t, n[1])}
      BY <1>1, <1>2, KidRequestsAre
    <3> QED
      BY <1>2, <2>3, <3>1
  <2>4. CASE \E n \in items : r = ItemRequest(t, n)
    <3>1. PICK n \in items : r = RequestFor(names, n[1])
      BY <2>2, <2>4
    <3>2. r.targets = {n[1]}
      BY <3>1 DEF RequestFor
    <3> QED
      BY <1>2, <1>4, <3>1, <3>2 DEF IsSingleOf
  <2>5. CASE \E n \in items : r = AskForKids(n)
    <3>1. PICK n \in items : r = AskForKids(n)
      BY <2>5
    <3>2. r.targets = {} /\ IsAskOf(r, names, t)
      BY <1>2, <3>1 DEF AskForKids, IsAskOf
    <3> QED
      BY <1>4, <3>2
  <2>6. CASE \E n \in items : r \in KidRequests(t, n)
    <3>1. PICK n \in items : \E k \in DeletableKids(t, n[1]) : r = RequestFor(names, k)
      BY <2>3, <2>6
    <3>2. PICK k \in DeletableKids(t, n[1]) : r = RequestFor(names, k)
      BY <3>1
    <3>3. /\ k \in Work(names) /\ ~IsGiven(names, k) /\ TurnOf(names, k) = t
          /\ cloud[k] \in Deleter[t].kidStates
      BY <1>1, <1>2, KidIsWork
    <3>4. r.targets = {k}
      BY <3>2 DEF RequestFor
    <3> QED
      BY <1>4, <3>2, <3>3, <3>4 DEF IsSingleOf
  <2> QED
    BY <2>1, <2>4, <2>5, <2>6
<1> QED
  BY <1>3, <1>4

\* A plan asks for everything it is made for, the live parts included.
LEMMA PlanHasWork ==
  ASSUME IInv, DeletersFit, NEW t \in Type, NEW items, AreNames(t, items),
         NEW o \in Work(names), TurnOf(names, o) = t, <<ItemOf(names, o), 1>> \in items,
         IsGiven(names, o) \/ cloud[o] = "live"
  PROVE  \/ \E r \in Plan(t, items) : o \in r.targets
         \/ ~IsGiven(names, o) /\ AskForKids(<<ItemOf(names, o), 1>>) \in Plan(t, items)
<1>1. TypeOK /\ items \in SUBSET (Object \X Occurrence)
  BY DEF IInv, TypeOK, AreNames
<1> DEFINE n == <<ItemOf(names, o), 1>>
<1>2. CASE IsGiven(names, o)
  <2>1. <<o, 1>> \in items /\ <<o, 1>>[1] = o
    BY <1>1, <1>2, WorkFacts
  <2> QED
    BY <1>1, <2>1, PlanHasAll
<1>3. CASE ~IsGiven(names, o)
  <2>1. cloud[o] \in Deleter[t].kidStates
    BY <1>3 DEF DeletersFit, DeleterFits
  <2>2. o \in DeletableKids(t, n[1])
    BY <1>1, <1>3, <2>1, KidIsFound
  <2>3. ~Deleter[t].batch
    <3>1. RankOf(names, o) \in 1..Len(Deleter[t].kids)
      BY <1>1, <1>3, WorkFacts
    <3>2. Deleter[t].kids # << >>
      BY <3>1
    <3> QED
      BY <3>2 DEF DeletersFit, DeleterFits
  <2>4. CASE Deleter[t].asksKids
    <3>1. AskForKids(n) \in Plan(t, items)
      BY <2>3, <2>4 DEF Plan
    <3> QED
      BY <1>3, <3>1
  <2>5. CASE ~Deleter[t].asksKids
    <3>1. KidRequests(t, n) \subseteq Plan(t, items)
      BY <2>3, <2>5 DEF Plan
    <3> DEFINE r == [item |-> n, targets |-> {o}, rank |-> KidRank(t, o)]
    <3>2. r \in KidRequests(t, n) /\ o \in r.targets
      BY <2>2 DEF KidRequests
    <3> QED
      BY <3>1, <3>2
  <2> QED
    BY <2>4, <2>5
<1> QED
  BY <1>2, <1>3

(***************************************************************************)
(* What is refused is held up.                                             *)
(***************************************************************************)

\* The request being made comes after the listing of its item's parts.
LEMMA AskedBefore ==
  ASSUME IInv, ShapeOK, NEW r \in pending, Current(r), r.targets # {},
         NEW o \in Work(names), AskForKids(<<ItemOf(names, o), 1>>) \in pending,
         Deleter[cur].order = "kidsFirst" \/ r.item = <<ItemOf(names, o), 1>>
  PROVE  FALSE
<1> DEFINE q == AskForKids(<<ItemOf(names, o), 1>>)
<1>1. q.rank = 0 /\ q.item = <<ItemOf(names, o), 1>> /\ q.targets = {}
  BY DEF AskForKids
<1>2. ~IsBatchOf(q, names, cur)
  BY <1>1 DEF IsBatchOf
<1>3. ~Deleter[cur].batch
  BY <1>2 DEF ShapeOK
<1>4. IsSingleOf(r, names, cur)
  BY <1>3 DEF ShapeOK, IsAskOf, AskForKids
<1>5. r.rank \in Nat /\ 0 < r.rank
  <2>1. PICK k \in Work(names) : r = RequestFor(names, k)
    BY <1>4 DEF IsSingleOf
  <2>2. r.rank = RankOf(names, k)
    BY <2>1 DEF RequestFor
  <2> DEFINE l == Len(Deleter[TurnOf(names, k)].kids)
  <2>3. /\ IsGiven(names, k) => RankOf(names, k) = l + 1
        /\ ~IsGiven(names, k) => RankOf(names, k) \in 1..l
        /\ l \in Nat
    BY WorkFacts DEF IInv
  <2> QED
    BY <2>2, <2>3
<1>6. ~Precedes(q, r)
  BY DEF Current
<1>7. CASE Deleter[cur].order = "kidsFirst"
  BY <1>1, <1>5, <1>6, <1>7 DEF Precedes
<1>8. CASE Deleter[cur].order # "kidsFirst"
  BY <1>1, <1>5, <1>6, <1>8 DEF Precedes
<1> QED
  BY <1>7, <1>8

\* The running deleter's turn has come.
LEMMA CurHasCome ==
  ASSUME CalmFits, cur # None
  PROVE  HasCome(cur) /\ cur \notin todo
BY DEF CalmFits, IInv, TypeOK, HasCome, InTurn

\* What a request is to delete is work of the running deleter; unless it deletes in
\* one request, each piece of work has its own.
LEMMA TargetsAreWork ==
  ASSUME IInv, ShapeOK, NEW r \in pending, NEW o \in r.targets
  PROVE  /\ o \in Work(names) /\ o \in Object /\ TurnOf(names, o) = cur
         /\ Deleter[cur].batch => pending = {r} /\ IsGiven(names, o)
         /\ ~Deleter[cur].batch => r = RequestFor(names, o)
<1>1. CASE Deleter[cur].batch
  <2>1. pending = {r} /\ IsBatchOf(r, names, cur)
    BY <1>1 DEF ShapeOK
  <2>2. o \in Work(names) /\ IsGiven(names, o) /\ TypeOf[o] = cur
    BY <2>1 DEF IsBatchOf
  <2> QED
    BY <1>1, <2>1, <2>2, WorkFacts DEF IInv
<1>2. CASE ~Deleter[cur].batch
  <2>1. ~IsAskOf(r, names, cur)
    BY DEF IsAskOf, AskForKids
  <2>2. PICK k \in Work(names) : TurnOf(names, k) = cur /\ r = RequestFor(names, k)
    BY <1>2, <2>1 DEF ShapeOK, IsSingleOf
  <2>3. o = k
    BY <2>2 DEF RequestFor
  <2> QED
    BY <1>2, <2>2, <2>3 DEF Work
<1> QED
  BY <1>1, <1>2

\* What is requested before the request being made has been deleted, or held up.
LEMMA InTurnIsDone ==
  ASSUME CalmFits, ~cfg.DryRun, NEW r \in pending, Current(r), NEW o \in r.targets,
         NEW b \in Work(names), EarlierInTurn(names, b, o)
  PROVE  \/ cloud[b] = "gone" \/ b \in heldUp
         \/ cloud[b] = "going" /\ TypeOf[b] \in Async
<1>1. IInv /\ ShapeOK /\ Progressed /\ DeletersFit
  BY DEF CalmFits, CalmOK
<1>2. /\ TurnOf(names, b) = cur /\ RankOf(names, b) < RankOf(names, o)
      /\ Deleter[cur].order = "kidsFirst" \/ ItemOf(names, b) = ItemOf(names, o)
      /\ o \in Work(names) /\ TurnOf(names, o) = cur
  BY <1>1, TargetsAreWork DEF EarlierInTurn
<1>3. cur # None /\ cur \in Type /\ listed /\ cur \notin todo
  BY <1>1, CurHasCome DEF Current, IInv, TypeOK
<1>4. ~Deleter[cur].batch
  <2> SUFFICES ASSUME Deleter[cur].batch PROVE FALSE
    OBVIOUS
  <2>1. Len(Deleter[cur].kids) = 0
    BY <1>1, <1>3 DEF DeletersFit, DeleterFits
  <2>2. ASSUME NEW k \in Work(names), TurnOf(names, k) = cur PROVE RankOf(names, k) = 1
    <3>1. /\ IsGiven(names, k) => RankOf(names, k) = Len(Deleter[cur].kids) + 1
          /\ ~IsGiven(names, k) => RankOf(names, k) \in 1..Len(Deleter[cur].kids)
      BY <1>1, <2>2, WorkFacts DEF IInv
    <3> QED
      BY <2>1, <3>1
  <2>3. RankOf(names, b) = 1 /\ RankOf(names, o) = 1
    BY <1>2, <2>2
  <2> QED
    BY <1>2, <2>3
<1>5. r = RequestFor(names, o)
  BY <1>1, <1>4, TargetsAreWork
<1>6. r.item = <<ItemOf(names, o), 1>> /\ r.rank = RankOf(names, o)
  BY <1>5 DEF RequestFor
<1>7. ~IsWaiting(b)
  BY <1>1, <1>2, <1>3, <1>6, AskedBefore DEF IsWaiting
<1>8. ~IsRequested(b)
  <2> SUFFICES ASSUME NEW q \in pending, b \in q.targets PROVE FALSE
    BY DEF IsRequested
  <2>1. q = RequestFor(names, b)
    BY <1>1, <1>4, TargetsAreWork
  <2>2. q.item = <<ItemOf(names, b), 1>> /\ q.rank = RankOf(names, b)
    BY <2>1 DEF RequestFor
  <2>3. ~Precedes(q, r)
    BY DEF Current
  <2> QED
    BY <1>2, <1>6, <2>2, <2>3 DEF Precedes
<1> QED
  BY <1>1, <1>2, <1>7, <1>8 DEF Progressed

\* When a piece of work is asked for AWS has no reason to refuse, unless something in
\* its way is on its way out with nobody waiting, or was held up before it.
LEMMA WhatIsInTheWay ==
  ASSUME CalmFits, ~cfg.DryRun, NEW r \in pending, Current(r), NEW o \in r.targets,
         NEW b \in Blockers[o] \ {o}, Exists(b)
  PROVE  /\ o \in Laggards(names)
         /\ (cloud[b] = "going" /\ TypeOf[b] \in Unawaited) \/ b \in heldUp
<1>1. /\ IInv /\ ShapeOK /\ BlockersFit(names, Laggards(names)) /\ cur # None
      /\ heldUp \subseteq Laggards(names)
  BY DEF CalmFits, CalmOK, HeldUpOK, FitsBut, Current
<1>2. o \in Work(names) /\ o \in Object /\ TurnOf(names, o) = cur
  BY <1>1, TargetsAreWork
<1>3. b \in Object /\ cloud[b] # "gone" /\ HasCome(cur)
  BY <1>1, <1>2, CurHasCome, ConstantAssumption DEF ConstantAssumption, Exists
<1>4. ~GoneBefore(names, Laggards(names), b, o)
  BY <1>2, <1>3, GoneBeforeIsGone
<1>5. ~GoneInTurn(names, Laggards(names), b, o)
  BY <1>1, <1>3, InTurnIsDone DEF GoneInTurn
<1>6. o \in Laggards(names) /\ Passed(names, b, o)
  BY <1>1, <1>2, <1>4, <1>5 DEF BlockersFit
<1>7. CASE Earlier(names, b, o) /\ (TypeOf[b] \in Async \ Unawaited => IsAwaited(names, b))
  BY <1>2, <1>3, <1>6, <1>7, EarlierIsGone DEF Earlier, Passed
<1>8. CASE EarlierInTurn(names, b, o) /\ TypeOf[b] \notin Async \ Unawaited
  BY <1>3, <1>6, <1>8, InTurnIsDone DEF Passed
<1> QED
  BY <1>6, <1>7, <1>8 DEF Passed

\* So a request is refused only for what is held up.
LEMMA RefusedIsHeldUp ==
  ASSUME CalmFits, NEW r \in pending, Current(r), TakesEffect(r), IsBlocked(r.targets)
  PROVE  /\ r.targets \subseteq Laggards(names) /\ r.targets # {} /\ IsHeldUp(r.targets)
         /\ IsForKid(r) => Deleter[cur].kidError = "return"
<1>1. /\ IInv /\ ShapeOK /\ HeldUpFit(names, Laggards(names)) /\ UncheckedFit(names)
      /\ cur # None /\ cur \in Type
  BY DEF CalmFits, CalmOK, FitsBut, Current, IInv, TypeOK
<1>2. PICK o \in r.targets : \E b \in Blockers[o] \ r.targets : Exists(b)
  BY DEF IsBlocked
<1>3. o \in Work(names) /\ TurnOf(names, o) = cur
  BY <1>1, TargetsAreWork
<1>4. ~cfg.DryRun
  <2> SUFFICES ASSUME cfg.DryRun PROVE FALSE
    OBVIOUS
  <2>1. Deleter[TypeOf[o]].dryRun = "unchecked"
    BY DEF TakesEffect, DryRunOf
  <2> QED
    BY <1>1, <1>2, <1>3, <2>1 DEF UncheckedFit
<1>5. o \in Laggards(names)
  BY <1>2, <1>4, WhatIsInTheWay
<1>6. ~Deleter[cur].batch /\ (IsGiven(names, o) \/ Deleter[cur].kidError = "return")
  BY <1>1, <1>3, <1>5 DEF HeldUpFit
<1>7. r = RequestFor(names, o)
  BY <1>1, <1>6, TargetsAreWork
<1>8. r.targets = {o} /\ r.rank = RankOf(names, o)
  BY <1>7 DEF RequestFor
<1>9. IsHeldUp(r.targets)
  BY <1>4, <1>8, WhatIsInTheWay DEF IsHeldUp
<1>10. IsGiven(names, o) => ~IsForKid(r)
  <2>1. IsGiven(names, o) => RankOf(names, o) = Len(Deleter[cur].kids) + 1
    BY <1>1, <1>3, WorkFacts DEF IInv
  <2> QED
    BY <1>1, <1>8, <2>1, DeleterOf DEF IsForKid
<1> QED
  BY <1>5, <1>6, <1>8, <1>9, <1>10

(***************************************************************************)
(* Every step of an undisturbed run keeps CalmOK.                          *)
(***************************************************************************)

\* A plan for all that is live of the type whose turn it is.
LEMMA PlanKeepsCalm ==
  ASSUME CalmFits, NEW t, HasCome(t), t \in todo \/ ~listed,
         NEW items, AreNames(t, items),
         \A n \in items : Exists(n[1]) \/ Deleter[t].selects = "names",
         ~cfg.DryRun => \A o \in Work(names) :
           IsGiven(names, o) /\ TypeOf[o] = t /\ cloud[o] = "live" => <<o, 1>> \in items,
         cur' = t, todo' = todo \ {t}, pending' = Plan(t, items), listed' = TRUE,
         UNCHANGED <<names, cloud, cfg, exit, heldUp>>
  PROVE  CalmOK'
<1>1. /\ IInv /\ TypeOK /\ PartsFit(names) /\ DeletersFit
      /\ HeldUpOK /\ ShapeOK /\ Untouched /\ Progressed /\ t \in Type
  BY DEF CalmFits, CalmOK, IInv, FitsBut, HasCome
<1>2. \A o \in Work(names) : TurnOf(names, o) = t => IsWaiting(o)
  BY DEF IsWaiting, HasCome
<1>3. ShapeOK'
  BY <1>1, PlanShape DEF ShapeOK
<1>4. \A o \in Work(names) : TurnOf(names, o) = t /\ cloud[o] # "live" =>
        /\ ~cfg.DryRun /\ cloud[o] = "gone"
        /\ IsGiven(names, o) =>
             /\ Deleter[t].selects # "names"
             /\ \A k \in Work(names) : ItemOf(names, k) = o => cloud[k] = "gone"
  BY <1>2, WaitingIsLive
<1>5. PendingLive'
  <2> SUFFICES ASSUME NEW r \in Plan(t, items), NEW o \in r.targets PROVE cloud[o] = "live"
    BY DEF PendingLive
  <2>1. /\ o \in Work(names) /\ TurnOf(names, o) = t
        /\ IF IsGiven(names, o) THEN <<o, 1>> \in items ELSE cloud[o] \in Deleter[t].kidStates
    BY <1>1, PlanShape
  <2>2. CASE IsGiven(names, o)
    <3>1. <<o, 1>> \in items /\ <<o, 1>>[1] = o
      BY <2>1, <2>2
    <3>2. Exists(o) \/ Deleter[t].selects = "names"
      BY <3>1
    <3> QED
      BY <1>4, <2>1, <2>2, <3>2 DEF Exists
  <2>3. CASE ~IsGiven(names, o)
    BY <1>1, <1>4, <2>1, <2>3 DEF DeletersFit, DeleterFits
  <2> QED
    BY <2>2, <2>3
<1>6. \A o \in Work(names) : AskForKids(<<ItemOf(names, o), 1>>) \in pending' =>
        TurnOf(names, o) = t
  <2> SUFFICES ASSUME NEW o \in Work(names),
                      NEW q \in Plan(t, items), q = AskForKids(<<ItemOf(names, o), 1>>)
               PROVE  TurnOf(names, o) = t
    OBVIOUS
  <2>1. q.targets = {} /\ q.item = <<ItemOf(names, o), 1>>
    BY DEF AskForKids
  <2>2. IsAskOf(q, names, t)
    BY <1>1, <2>1, PlanShape DEF IsBatchOf, IsSingleOf, RequestFor
  <2> QED
    BY <2>1, <2>2 DEF IsAskOf, AskForKids, TurnOf
<1>7. Untouched'
  <2> SUFFICES ASSUME NEW o \in Work(names), IsWaiting(o)', cloud[o] # "live"
               PROVE  /\ ~cfg.DryRun
                      /\ \E p \in Work(names) :
                           o \in Cascade[p] \ {p} /\ TurnOf(names, p) \notin todo'
    BY DEF Untouched
  <2>1. IsWaiting(o)
    BY <1>2, <1>6 DEF IsWaiting
  <2> QED
    BY <1>1, <2>1 DEF Untouched
<1>8. Progressed'
  <2> SUFFICES ASSUME ~cfg.DryRun, NEW o \in Work(names), cloud[o] # "gone", o \notin heldUp,
                      ~IsWaiting(o)', ~IsRequested(o)'
               PROVE  /\ cloud[o] = "going" /\ TypeOf[o] \in Async
                      /\ IsAwaited(names, o) => TurnOf(names, o) = t /\ o \in awaited'
    BY DEF Progressed
  <2>1. TurnOf(names, o) # t
    <3> SUFFICES ASSUME TurnOf(names, o) = t PROVE FALSE
      OBVIOUS
    <3>1. cloud[o] = "live"
      BY <1>4
    <3> DEFINE i == ItemOf(names, o)
    <3>2. i \in Work(names) /\ IsGiven(names, i) /\ TypeOf[i] = t /\ TurnOf(names, i) = t
      BY <1>1, ItemIsWork, WorkFacts
    <3>3. cloud[i] = "live"
      BY <1>4, <3>1, <3>2
    <3>4. <<i, 1>> \in items
      BY <3>2, <3>3
    <3>5. \/ \E r \in Plan(t, items) : o \in r.targets
          \/ ~IsGiven(names, o) /\ AskForKids(<<i, 1>>) \in Plan(t, items)
      BY <1>1, <3>1, <3>4, PlanHasWork
    <3>6. ~IsGiven(names, o) => IsPart(names, o)
      BY <1>1, WorkFacts
    <3> QED
      BY <3>5, <3>6 DEF IsWaiting, IsRequested
  <2>2. TurnOf(names, o) \notin todo
    BY <2>1 DEF IsWaiting
  <2>3. TurnOf(names, o) # cur
    BY <1>1, <2>1, WorkFacts DEF HasCome
  <2>4. ~IsWaiting(o) /\ ~IsRequested(o)
    BY <1>1, <2>2, <2>3, RequestedIsCurrent DEF IsWaiting
  <2> QED
    BY <1>1, <2>3, <2>4 DEF Progressed
<1> QED
  BY <1>1, <1>3, <1>5, <1>7, <1>8 DEF CalmOK, HeldUpOK

\* The next type's turn.
LEMMA StartIsCalm ==
  ASSUME CalmFits, NEW t \in Type, StartType(t)
  PROVE  CalmOK'
<1>1. /\ IInv /\ TypeOK /\ NamesOK /\ NamesFit(names) /\ Untouched /\ Progressed /\ HeldUpOK
      /\ cur = None /\ t # None /\ t \in todo /\ todo' = todo \ {t} /\ cur' = t
      /\ UNCHANGED <<cfg, names, awaited, exit, cloud, heldUp>> /\ pending = {} /\ HasCome(t)
  BY ConstantAssumption
     DEF CalmFits, CalmOK, IInv, PendingOK, FitsBut, StartType, IsNextType, HasCome,
         ConstantAssumption, histVars
<1>2. CASE Deleter[t].selects = "names"
  <2>1. AreNames(t, names[t])
    <3> SUFFICES ASSUME NEW n \in names[t] PROVE n[2] = 1 /\ ~HiddenByMark(n[1])
      BY DEF AreNames
    <3>1. n \in Object \X Occurrence
      BY <1>1 DEF TypeOK
    <3>2. n[2] \in {1, 2} /\ n[2] # 2
      BY <1>1, <1>2, <3>1 DEF NamesFit, Occurrence
    <3>3. ~HiddenByMark(n[1])
      BY <1>1, <1>2, ListingOK
    <3> QED
      BY <3>2, <3>3
  <2>2. \A o \in Work(names) : IsGiven(names, o) /\ TypeOf[o] = t => <<o, 1>> \in names[t]
    BY DEF IsGiven
  <2>3. listed' = TRUE /\ pending' = Plan(t, names[t])
    BY <1>2 DEF StartType
  <2> QED
    BY <1>1, <1>2, <2>1, <2>2, <2>3, PlanKeepsCalm
<1>3. CASE Deleter[t].selects # "names"
  <2>1. listed' = FALSE /\ pending' = {}
    BY <1>3 DEF StartType
  <2>2. ShapeOK' /\ PendingLive'
    BY <2>1 DEF ShapeOK, PendingLive
  <2>3. \A o \in Work(names) : IsWaiting(o)' => IsWaiting(o)
    BY <1>1, <2>1 DEF IsWaiting
  <2>4. \A o \in Work(names) : IsWaiting(o) => IsWaiting(o)'
    BY <1>1, <2>1, WorkFacts DEF IsWaiting
  <2>5. Untouched'
    BY <1>1, <2>3 DEF Untouched
  <2>6. Progressed'
    <3> SUFFICES ASSUME ~cfg.DryRun, NEW o \in Work(names), cloud[o] # "gone", ~IsWaiting(o)',
                        o \notin heldUp
                 PROVE  /\ cloud[o] = "going" /\ TypeOf[o] \in Async /\ ~IsAwaited(names, o)
      BY <1>1 DEF Progressed
    <3>1. ~IsWaiting(o) /\ ~IsRequested(o) /\ TurnOf(names, o) # cur
      BY <1>1, <2>4, WorkFacts DEF IsRequested
    <3> QED
      BY <1>1, <3>1 DEF Progressed
  <2> QED
    BY <1>1, <2>2, <2>5, <2>6 DEF CalmOK, HeldUpOK
<1> QED
  BY <1>2, <1>3

\* Its listing.
LEMMA ListingIsCalm ==
  ASSUME CalmFits, ListResources
  PROVE  CalmOK'
<1>1. /\ TypeOK /\ NamesOK /\ NamesFit(names) /\ cur # None /\ cur \in Type /\ ~listed
      /\ UNCHANGED <<cfg, names, todo, cur, exit, cloud, heldUp>>
      /\ listed' = TRUE /\ pending' = Plan(cur, Listing(cur))
  BY DEF CalmFits, IInv, TypeOK, FitsBut, ListResources, WorkOn
<1>2. HasCome(cur) /\ cur \notin todo
  BY <1>1, CurHasCome
<1>3. AreNames(cur, Listing(cur))
  <2>1. Listing(cur) \subseteq names[cur] /\ \A n \in Listing(cur) : ~HiddenByMark(n[1])
    BY <1>1, ListingOK
  <2>2. ASSUME NEW n \in Listing(cur) PROVE n[2] = 1
    <3>1. n \in names[cur] /\ (Deleter[cur].selects = "filter" => n[2] = 1)
      BY DEF Listing
    <3>2. n \in Object \X Occurrence
      BY <1>1, <3>1 DEF TypeOK
    <3>3. n[2] \in {1, 2}
      BY <3>2 DEF Occurrence
    <3> QED
      BY <1>1, <3>1, <3>3 DEF NamesFit
  <2> QED
    BY <2>1, <2>2 DEF AreNames
<1>4. \A n \in Listing(cur) : Exists(n[1])
  BY DEF Listing
<1>5. ~cfg.DryRun => \A o \in Work(names) :
        IsGiven(names, o) /\ TypeOf[o] = cur /\ cloud[o] = "live" => <<o, 1>> \in Listing(cur)
  BY <1>1, <1>2, LiveIsListed
<1>6. todo' = todo \ {cur}
  BY <1>1, <1>2
<1> QED
  BY <1>1, <1>2, <1>3, <1>4, <1>5, <1>6, PlanKeepsCalm

\* The end of its turn, or of the wait that ends it.
LEMMA EndOfTurnIsCalm ==
  ASSUME CalmFits, listed, pending = {}, \A o \in awaited : ~Exists(o),
         awaited' = {}, cur' \in {None, cur}, UNCHANGED <<cfg, names, todo, listed, pending, cloud>>,
         exit' = exit, heldUp' = heldUp
  PROVE  CalmOK'
<1>1. TypeOK /\ Untouched /\ Progressed /\ HeldUpOK
  BY DEF CalmFits, CalmOK, IInv
<1>2. ShapeOK' /\ PendingLive'
  BY DEF ShapeOK, PendingLive
<1>3. \A o \in Work(names) : TurnOf(names, o) # None
  BY <1>1, WorkFacts
<1>4. \A o \in Work(names) : IsWaiting(o)' <=> IsWaiting(o)
  BY <1>3 DEF IsWaiting
<1>5. Untouched'
  BY <1>1, <1>4 DEF Untouched
<1>6. Progressed'
  <2> SUFFICES ASSUME ~cfg.DryRun, NEW o \in Work(names), cloud[o] # "gone", ~IsWaiting(o)',
                      o \notin heldUp
               PROVE  /\ cloud[o] = "going" /\ TypeOf[o] \in Async /\ ~IsAwaited(names, o)
    BY DEF Progressed
  <2>1. ~IsWaiting(o) /\ ~IsRequested(o)
    BY <1>4 DEF IsRequested
  <2>2. o \notin awaited \/ cloud[o] # "going"
    BY DEF Exists
  <2> QED
    BY <1>1, <2>1, <2>2 DEF Progressed
<1> QED
  BY <1>1, <1>2, <1>5, <1>6 DEF CalmOK, HeldUpOK

\* The listing of the parts of one item.
LEMMA AskKidsIsCalm ==
  ASSUME CalmFits, NEW r \in pending, AskKids(r)
  PROVE  CalmOK'
<1>1. /\ IInv /\ TypeOK /\ PartsFit(names) /\ DeletersFit /\ HeldUpOK
      /\ ShapeOK /\ PendingLive /\ Untouched /\ Progressed
  BY DEF CalmFits, CalmOK, IInv, FitsBut
<1>2. /\ r.targets = {} /\ cur # None /\ listed /\ HasCome(cur) /\ cur \notin todo
      /\ pending' = (pending \ {r}) \cup KidRequests(cur, r.item)
      /\ UNCHANGED <<cfg, names, todo, cur, listed, awaited, exit, cloud, heldUp>>
  BY CurHasCome DEF AskKids, Current, histVars
<1>3. ~Deleter[cur].batch
  BY <1>1, <1>2 DEF ShapeOK, IsBatchOf
<1>4. IsAskOf(r, names, cur)
  BY <1>1, <1>2, <1>3 DEF ShapeOK, IsSingleOf, RequestFor
<1>5. PICK i \in Work(names) :
        IsGiven(names, i) /\ TypeOf[i] = cur /\ r = AskForKids(<<i, 1>>)
  BY <1>4 DEF IsAskOf
<1>6. r.item = <<i, 1>>
  BY <1>5 DEF AskForKids
<1> DEFINE Kids == DeletableKids(cur, i)
<1>7. KidRequests(cur, r.item) = {RequestFor(names, k) : k \in Kids}
  BY <1>1, <1>5, <1>6, KidRequestsAre
<1>8. \A k \in Kids : /\ k \in Work(names) /\ IsPart(names, k) /\ ItemOf(names, k) = i
                      /\ TurnOf(names, k) = cur /\ cloud[k] \in Deleter[cur].kidStates
  BY <1>1, <1>5, KidIsWork
<1>9. \A q \in pending' :
        q \in pending \/ \E k \in Kids : q = RequestFor(names, k) /\ q.targets = {k}
  BY <1>2, <1>7 DEF RequestFor
<1>10. ShapeOK'
  BY <1>1, <1>2, <1>3, <1>8, <1>9 DEF ShapeOK, IsSingleOf
<1>11. \A o \in Work(names) : ItemOf(names, o) = i /\ IsPart(names, o) /\ cloud[o] # "live" =>
         cloud[o] = "gone"
  <2> SUFFICES ASSUME NEW o \in Work(names), ItemOf(names, o) = i, IsPart(names, o),
                      cloud[o] # "live"
               PROVE  cloud[o] = "gone"
    OBVIOUS
  <2>1. IsWaiting(o) /\ TurnOf(names, o) = cur
    BY <1>5 DEF IsWaiting, TurnOf
  <2> QED
    BY <1>2, <2>1, WaitingIsLive
<1>12. PendingLive'
  <2>1. \A k \in Kids : cloud[k] = "live"
    BY <1>1, <1>2, <1>8, <1>11, CurrentOK DEF DeletersFit, DeleterFits
  <2> QED
    BY <1>1, <1>2, <1>9, <2>1 DEF PendingLive
<1>13. \A o \in Work(names) : IsWaiting(o)' => IsWaiting(o)
  <2>1. \A o : AskForKids(<<o, 1>>) \in pending' => AskForKids(<<o, 1>>) \in pending
    BY <1>9 DEF AskForKids
  <2> QED
    BY <1>2, <2>1 DEF IsWaiting
<1>14. Untouched'
  BY <1>1, <1>2, <1>13 DEF Untouched
<1>15. \A o \in Work(names) : IsRequested(o) => IsRequested(o)'
  BY <1>2 DEF IsRequested
<1>16. ASSUME NEW o \in Work(names), IsWaiting(o), ~IsWaiting(o)'
       PROVE  IsRequested(o)' \/ cloud[o] = "gone"
  <2>1. IsPart(names, o) /\ AskForKids(<<ItemOf(names, o), 1>>) = r
    BY <1>2, <1>16 DEF IsWaiting
  <2>2. ItemOf(names, o) = i
    BY <1>6, <2>1 DEF AskForKids
  <2>3. CASE cloud[o] = "live"
    <3>1. ~IsGiven(names, o) /\ TurnOf(names, o) = cur
      BY <1>1, <1>5, <2>1, <2>2 DEF PartsFit, TurnOf
    <3>2. cur \in Type
      BY <1>1, <1>2 DEF TypeOK
    <3>3. o \in Kids
      BY <1>1, <2>2, <2>3, <3>1, <3>2, KidIsFound DEF DeletersFit, DeleterFits
    <3>4. RequestFor(names, o) \in pending' /\ o \in RequestFor(names, o).targets
      BY <1>2, <1>7, <3>3 DEF RequestFor
    <3> QED
      BY <3>4 DEF IsRequested
  <2> QED
    BY <1>11, <2>1, <2>2, <2>3
<1>17. Progressed'
  <2> SUFFICES ASSUME ~cfg.DryRun, NEW o \in Work(names), cloud[o] # "gone",
                      ~IsWaiting(o)', ~IsRequested(o)', o \notin heldUp
               PROVE  /\ cloud[o] = "going" /\ TypeOf[o] \in Async
                      /\ IsAwaited(names, o) => TurnOf(names, o) = cur /\ o \in awaited
    BY <1>2 DEF Progressed
  <2>1. ~IsWaiting(o) /\ ~IsRequested(o)
    BY <1>15, <1>16
  <2> QED
    BY <1>1, <2>1 DEF Progressed
<1> QED
  BY <1>1, <1>2, <1>10, <1>12, <1>14, <1>17 DEF CalmOK, HeldUpOK

\* A request that is answered leaves the others as they are.
LEMMA FewerKeepShape ==
  ASSUME ShapeOK, NEW r \in pending, pending' = pending \ {r}, UNCHANGED <<names, cur>>
  PROVE  ShapeOK'
BY DEF ShapeOK

\* A request of a dry run.
LEMMA DryRunIsCalm ==
  ASSUME CalmFits, NEW r \in pending, DryRunRequest(r)
  PROVE  CalmOK'
<1>1. HeldUpOK /\ ShapeOK /\ PendingLive /\ Untouched /\ cfg.DryRun
  BY DEF CalmFits, CalmOK, DryRunRequest, TakesEffect
<1>2. /\ pending' = pending \ {r}
      /\ UNCHANGED <<cfg, names, todo, cur, listed, awaited, exit, cloud, heldUp>>
  BY DEF DryRunRequest, histVars
<1>3. ShapeOK' /\ PendingLive'
  BY <1>1, <1>2, FewerKeepShape DEF PendingLive
<1>4. Untouched'
  BY <1>1, <1>2 DEF Untouched, IsWaiting
<1> QED
  BY <1>1, <1>2, <1>3, <1>4 DEF CalmOK, HeldUpOK, Progressed

\* A request AWS accepts.
LEMMA SucceedIsCalm ==
  ASSUME CalmFits, NEW r \in pending, Succeed(r)
  PROVE  CalmOK'
<1>1. /\ IInv /\ TypeOK /\ CascadesFit(names, Laggards(names)) /\ UncheckedFit(names) /\ HeldUpOK
      /\ ShapeOK /\ PendingLive /\ Untouched /\ Progressed /\ cloud \in [Object -> States]
  BY DEF CalmFits, CalmOK, IInv, TypeOK, FitsBut
<1>2. /\ Current(r) /\ TakesEffect(r) /\ cur # None /\ listed /\ cur \notin todo
      /\ cloud' = Deleted(r.targets) /\ pending' = pending \ {r} /\ r.targets # {}
      /\ awaited' = IF Deleter[cur].waits = "no" THEN awaited ELSE awaited \cup r.targets
      /\ UNCHANGED <<cfg, names, todo, cur, listed, exit, heldUp>>
  BY CurHasCome DEF Succeed, Accepted, Current
<1>3. \A o \in r.targets : /\ o \in Work(names) /\ o \in Object /\ TurnOf(names, o) = cur
                           /\ cloud[o] = "live"
  BY <1>1, TargetsAreWork DEF PendingLive
<1>4. cur \in Type
  BY <1>1, <1>2 DEF TypeOK
<1>5. PositionOf(cur) \in Nat
  BY <1>4, PositionType
<1>6. ASSUME NEW q \in pending', NEW o \in q.targets PROVE cloud'[o] = "live"
  <2>1. /\ o \in Work(names) /\ o \in Object /\ TurnOf(names, o) = cur
        /\ cloud[o] = "live" /\ q \in pending /\ q # r
    BY <1>1, <1>2, <1>6, TargetsAreWork DEF PendingLive
  <2>2. o \notin r.targets
    BY <1>1, <2>1, TargetsAreWork
  <2>3. ASSUME NEW p \in r.targets, o \in Cascade[p] PROVE FALSE
    <3>1. Earlier(names, o, p) \/ Earlier(names, p, o)
      BY <1>1, <1>3, <2>1, <2>2, <2>3 DEF CascadesFit
    <3> QED
      BY <1>3, <1>5, <2>1, <3>1 DEF Earlier
  <2> QED
    BY <1>2, <2>1, <2>2, <2>3 DEF Deleted
<1>7. ShapeOK' /\ PendingLive'
  BY <1>1, <1>2, <1>6, FewerKeepShape DEF PendingLive
<1>8. \A o \in Work(names) : IsWaiting(o) <=> IsWaiting(o)'
  <2>1. \A n : AskForKids(n) # r
    BY <1>2 DEF AskForKids
  <2> QED
    BY <1>2, <2>1 DEF IsWaiting
<1>9. \A o \in Work(names) : o \in Object
  BY DEF Work
<1>10. Untouched'
  <2> SUFFICES ASSUME NEW o \in Work(names), IsWaiting(o), cloud'[o] # "live"
               PROVE  /\ ~cfg.DryRun
                      /\ \E p \in Work(names) : o \in Cascade[p] \ {p} /\ TurnOf(names, p) \notin todo
    BY <1>2, <1>8 DEF Untouched
  <2>1. CASE cloud[o] # "live"
    BY <1>1, <2>1 DEF Untouched
  <2>2. CASE cloud[o] = "live"
    <3>1. o \notin r.targets
      <4> SUFFICES ASSUME o \in r.targets PROVE FALSE
        OBVIOUS
      <4>1. TurnOf(names, o) = cur
        BY <1>3
      <4>2. IsPart(names, o) /\ AskForKids(<<ItemOf(names, o), 1>>) \in pending
        BY <1>2, <4>1 DEF IsWaiting
      <4>3. ~Deleter[cur].batch
        <5>1. ~IsBatchOf(AskForKids(<<ItemOf(names, o), 1>>), names, cur)
          BY DEF IsBatchOf, AskForKids
        <5> QED
          BY <1>1, <4>2, <5>1 DEF ShapeOK
      <4>4. r.item = <<ItemOf(names, o), 1>>
        BY <1>1, <4>3, TargetsAreWork DEF RequestFor
      <4> QED
        BY <1>1, <1>2, <4>2, <4>4, AskedBefore
    <3>2. PICK p \in r.targets : o \in Cascade[p]
      BY <1>2, <1>9, <2>2, <3>1 DEF Deleted
    <3>3. ~cfg.DryRun
      <4> SUFFICES ASSUME cfg.DryRun PROVE FALSE
        OBVIOUS
      <4>1. Deleter[TypeOf[p]].dryRun = "unchecked"
        BY <1>2 DEF TakesEffect, DryRunOf
      <4> QED
        BY <1>1, <1>3, <3>2, <4>1 DEF UncheckedFit
    <3> QED
      BY <1>2, <1>3, <3>1, <3>2, <3>3
  <2> QED
    BY <2>1, <2>2
<1>11. Progressed'
  <2> SUFFICES ASSUME ~cfg.DryRun, NEW o \in Work(names),
                      ~IsWaiting(o), ~IsRequested(o)', cloud'[o] # "gone",
                      o \notin heldUp
               PROVE  /\ cloud'[o] = "going" /\ TypeOf[o] \in Async
                      /\ IsAwaited(names, o) => TurnOf(names, o) = cur /\ o \in awaited'
    BY <1>2, <1>8 DEF Progressed
  <2>1. CASE o \in r.targets
    <3>1. cloud'[o] = "going" /\ TypeOf[o] \in Async
      BY <1>2, <1>3, <1>9, <2>1 DEF Deleted
    <3>2. IsAwaited(names, o) => Deleter[cur].waits # "no"
      BY <1>3, <2>1 DEF IsAwaited
    <3> QED
      BY <1>2, <1>3, <2>1, <3>1, <3>2
  <2>2. CASE o \notin r.targets
    <3>1. ~IsRequested(o)
      BY <1>2, <2>2 DEF IsRequested
    <3>2. cloud[o] # "gone"
      BY <1>2, <1>9, <2>2 DEF Deleted
    <3>3. /\ cloud[o] = "going" /\ TypeOf[o] \in Async
          /\ IsAwaited(names, o) => TurnOf(names, o) = cur /\ o \in awaited
      BY <1>1, <3>1, <3>2 DEF Progressed
    <3>4. cloud'[o] = "going"
      BY <1>2, <1>9, <2>2, <3>3 DEF Deleted
    <3> QED
      BY <1>2, <3>3, <3>4
  <2> QED
    BY <2>1, <2>2
<1> QED
  BY <1>1, <1>2, <1>7, <1>10, <1>11 DEF CalmOK, HeldUpOK

\* A request AWS refuses, for the sake of what nobody waits for.
LEMMA BlockedIsCalm ==
  ASSUME CalmFits, NEW r \in pending, Blocked(r)
  PROVE  CalmOK'
<1>1. /\ IInv /\ HeldUpOK /\ ShapeOK /\ PendingLive /\ Untouched /\ Progressed
      /\ Current(r) /\ TakesEffect(r) /\ IsBlocked(r.targets) /\ cloud' = cloud
  BY DEF CalmFits, CalmOK, Blocked
<1>2. /\ r.targets \subseteq Laggards(names) /\ r.targets # {} /\ IsHeldUp(r.targets)
      /\ IsForKid(r) => Deleter[cur].kidError = "return"
  BY <1>1, RefusedIsHeldUp
<1>3. \A n : AskForKids(n) # r
  BY <1>2 DEF AskForKids
<1>4. CASE Retry(r) /\ UNCHANGED heldUp
  BY <1>1, <1>4
     DEF Retry, CalmOK, HeldUpOK, ShapeOK, PendingLive, Untouched, Progressed, IsWaiting,
         IsRequested
<1>5. CASE GiveUp(r, "failed") /\ HoldUp(r)
  <2>1. /\ heldUp' = heldUp \cup r.targets
        /\ UNCHANGED <<cfg, names, todo, cur, listed, awaited, cloud>>
        /\ \/ Continue(r)
           \/ Return
    BY <1>1, <1>2, <1>5 DEF HoldUp, GiveUp, Leave
  <2>2. HeldUpOK'
    BY <1>1, <1>2, <2>1 DEF HeldUpOK
  <2>3. pending' = pending \/ pending' = pending \ {r}
    BY <2>1 DEF Continue, Return
  <2>4. ShapeOK' /\ PendingLive'
    <3>1. CASE pending' = pending
      BY <1>1, <2>1, <3>1 DEF ShapeOK, PendingLive
    <3>2. CASE pending' = pending \ {r}
      BY <1>1, <2>1, <3>2, FewerKeepShape DEF PendingLive
    <3> QED
      BY <2>3, <3>1, <3>2
  <2>5. \A o \in Work(names) : IsWaiting(o)' <=> IsWaiting(o)
    BY <1>3, <2>1, <2>3 DEF IsWaiting
  <2>6. Untouched'
    BY <1>1, <2>1, <2>5 DEF Untouched
  <2>7. \A o : IsRequested(o) => IsRequested(o)' \/ o \in heldUp'
    BY <2>1, <2>3 DEF IsRequested
  <2>8. Progressed'
    <3> SUFFICES ASSUME ~cfg.DryRun, NEW o \in Work(names), cloud[o] # "gone",
                        ~IsWaiting(o), ~IsRequested(o)', o \notin heldUp'
                 PROVE  /\ cloud[o] = "going" /\ TypeOf[o] \in Async
                        /\ IsAwaited(names, o) => TurnOf(names, o) = cur /\ o \in awaited
      BY <2>1, <2>5 DEF Progressed
    <3>1. ~IsRequested(o) /\ o \notin heldUp
      BY <2>1, <2>7
    <3> QED
      BY <1>1, <3>1 DEF Progressed
  <2> QED
    BY <2>2, <2>4, <2>6, <2>8 DEF CalmOK
<1> QED
  BY <1>4, <1>5 DEF Blocked

\* What AWS does meanwhile.
LEMMA CloudIsCalm ==
  ASSUME CalmFits, NEW o \in Object, FinishDeletion(o) \/ Relaunch(o)
  PROVE  CalmOK'
<1>1. /\ IInv /\ PartsFit(names) /\ HeldUpOK /\ ShapeOK /\ PendingLive /\ Untouched
      /\ Progressed /\ cloud \in [Object -> States]
  BY DEF CalmFits, CalmOK, IInv, TypeOK, FitsBut
<1>2. UNCHANGED <<cfg, names, todo, cur, listed, pending, awaited, exit,
                 heldUp>>
  BY DEF FinishDeletion, Relaunch, runVars, histVars
<1>3. ASSUME NEW k \in Work(names)
      PROVE  /\ k \in Object
             /\ \/ cloud'[k] = cloud[k]
                \/ cloud[k] = "going" /\ cloud'[k] = "gone"
  <2>1. k \in Object /\ ~IsReplacement(k)
    BY <1>1 DEF Work, PartsFit
  <2>2. CASE FinishDeletion(o)
    <3>1. cloud[o] = "going" /\ cloud' = [cloud EXCEPT ![o] = "gone"]
      BY <2>2 DEF FinishDeletion
    <3> QED
      BY <1>1, <2>1, <3>1
  <2>3. CASE Relaunch(o)
    <3>1. cloud' = [cloud EXCEPT ![Replaces[o]] = "live"]
      BY <2>3 DEF Relaunch
    <3>2. Replaces[o] # k
      BY <2>1 DEF IsReplacement
    <3> QED
      BY <1>1, <2>1, <3>1, <3>2
  <2> QED
    BY <2>1, <2>2, <2>3
<1>4. ShapeOK'
  BY <1>1, <1>2 DEF ShapeOK
<1>5. PendingLive'
  <2>1. \A r \in pending : \A k \in r.targets : k \in Work(names)
    BY <1>1, TargetsAreWork
  <2> QED
    BY <1>1, <1>2, <1>3, <2>1 DEF PendingLive
<1>6. \A k \in Work(names) : IsWaiting(k)' <=> IsWaiting(k)
  BY <1>2 DEF IsWaiting
<1>7. Untouched'
  <2> SUFFICES ASSUME NEW k \in Work(names), IsWaiting(k), cloud'[k] # "live"
               PROVE  /\ ~cfg.DryRun
                      /\ \E p \in Work(names) : k \in Cascade[p] \ {p} /\ TurnOf(names, p) \notin todo
    BY <1>2, <1>6 DEF Untouched
  <2>1. cloud[k] # "live"
    BY <1>3
  <2> QED
    BY <1>1, <2>1 DEF Untouched
<1>8. Progressed'
  <2> SUFFICES ASSUME ~cfg.DryRun, NEW k \in Work(names), ~IsWaiting(k), ~IsRequested(k),
                      cloud'[k] # "gone", k \notin heldUp
               PROVE  /\ cloud'[k] = "going" /\ TypeOf[k] \in Async
                      /\ IsAwaited(names, k) => TurnOf(names, k) = cur /\ k \in awaited
    BY <1>2, <1>6 DEF Progressed, IsRequested
  <2>1. cloud'[k] = cloud[k] /\ cloud[k] # "gone"
    BY <1>3
  <2> QED
    BY <1>1, <2>1 DEF Progressed
<1> QED
  BY <1>1, <1>2, <1>4, <1>5, <1>7, <1>8 DEF CalmOK, HeldUpOK

\* The wait that ends when what was awaited is gone.
LEMMA WaitIsCalm ==
  ASSUME CalmFits, AwaitTermination \/ AwaitNatGateways, Undisturbed'
  PROVE  CalmOK'
<1>1. /\ listed /\ pending = {} /\ awaited' = {} /\ cur' = cur
      /\ UNCHANGED <<cfg, names, todo, listed, pending, cloud, heldUp>>
  BY DEF AwaitTermination, AwaitNatGateways, Waiting
<1>2. faults \in Nat /\ faults' = 0 /\ ~late'
  BY DEF CalmFits, IInv, TypeOK, Undisturbed
<1>3. (\A o \in awaited : ~Exists(o)) /\ exit' = exit
  <2>1. CASE AwaitTermination
    BY <1>2, <2>1 DEF AwaitTermination
  <2>2. CASE AwaitNatGateways
    <3>1. PICK alive, dead \in SUBSET awaited :
            /\ \A o \in dead : ~Exists(o)
            /\ \/ /\ alive \cup dead = awaited
                  /\ late' = (late \/ alive # {})
                  /\ UNCHANGED <<exit, faults>>
               \/ faults' = faults + 1
      BY <2>2 DEF AwaitNatGateways
    <3>2. /\ alive \cup dead = awaited /\ late' = (late \/ alive # {})
          /\ UNCHANGED <<exit, faults>>
      BY <1>2, <3>1
    <3>3. alive = {}
      BY <1>2, <3>2
    <3> QED
      BY <3>1, <3>2, <3>3
  <2> QED
    BY <2>1, <2>2
<1> QED
  BY <1>1, <1>3, EndOfTurnIsCalm

\* What disturbs a run is not forgotten.
LEMMA UndisturbedStep ==
  ASSUME TypeOK, [Next]_vars, Undisturbed'
  PROVE  /\ Undisturbed
         /\ ~ListingFails
         /\ \A r \in pending : ~AskKidsFails(r) /\ ~Fault(r)
         /\ \A o \in Object : ~OwnerDeletes(o)
<1>1. faults \in Nat /\ late \in BOOLEAN /\ faults' = 0 /\ ~late'
  BY DEF TypeOK, Undisturbed
<1>2. /\ ~ListingFails
      /\ \A r \in pending : ~AskKidsFails(r) /\ ~Fault(r)
      /\ \A o \in Object : ~OwnerDeletes(o)
  BY <1>1 DEF ListingFails, AskKidsFails, Fault, OwnerDeletes
<1>3. CASE UNCHANGED <<faults, late>>
  BY <1>1, <1>2, <1>3 DEF Undisturbed
<1>4. CASE AwaitTermination \/ AwaitNatGateways
  <2>1. CASE AwaitTermination
    BY <1>1, <1>2, <2>1 DEF AwaitTermination, Undisturbed
  <2>2. CASE AwaitNatGateways
    <3>1. late => late'
      BY <1>1, <2>2 DEF AwaitNatGateways
    <3>2. faults' = faults \/ faults' = faults + 1
      BY <2>2 DEF AwaitNatGateways
    <3> QED
      BY <1>1, <1>2, <3>1, <3>2 DEF Undisturbed
  <2> QED
    BY <1>4, <2>1, <2>2
<1>5. CASE (\E t \in Type : StartType(t)) \/ FinishType \/ FinishRun \/ ListResources
  BY <1>3, <1>5 DEF StartType, FinishType, FinishRun, ListResources, histVars
<1>6. ASSUME NEW r \in pending,
             AskKids(r) \/ DryRunRequest(r) \/ Succeed(r) \/ Blocked(r) \/ Absent(r)
      PROVE  UNCHANGED <<faults, late>>
  BY <1>6 DEF AskKids, DryRunRequest, Succeed, Blocked, Absent, Retry, GiveUp, histVars
<1>7. CASE (\E o \in Object : FinishDeletion(o) \/ Relaunch(o)) \/ UNCHANGED vars
  BY <1>3, <1>7 DEF FinishDeletion, Relaunch, histVars, vars
<1> QED
  BY <1>2, <1>3, <1>4, <1>5, <1>6, <1>7
     DEF Next, Program, Environment, Requesting, Terminated

\* Every step.
LEMMA CalmOKStep ==
  ASSUME CalmFits, [Next]_vars, Undisturbed'
  PROVE  CalmOK'
<1>1. /\ TypeOK /\ ShapeOK /\ PendingLive /\ Untouched /\ Progressed
      /\ HeldUpOK /\ CalmOK
  BY DEF CalmFits, CalmOK, IInv
<1>2. /\ ~ListingFails
      /\ \A r \in pending : ~AskKidsFails(r) /\ ~Fault(r)
      /\ \A o \in Object : ~OwnerDeletes(o)
  BY <1>1, UndisturbedStep
<1>3. ASSUME NEW r \in pending, Requesting,
             AskKids(r) \/ DryRunRequest(r) \/ Succeed(r) \/ Blocked(r) \/ Absent(r)
      PROVE  CalmOK'
  <2>2. ~Absent(r)
    BY <1>1 DEF Absent, PendingLive
  <2> QED
    BY <1>3, <2>2, AskKidsIsCalm, DryRunIsCalm, SucceedIsCalm, BlockedIsCalm
<1>4. CASE FinishType
  <2>1. /\ listed /\ pending = {} /\ awaited = {} /\ awaited' = {} /\ cur' = None
        /\ UNCHANGED <<cfg, names, todo, listed, pending, cloud>> /\ exit' = exit
        /\ heldUp' = heldUp
    BY <1>4 DEF FinishType, histVars
  <2> QED
    BY <2>1, EndOfTurnIsCalm
<1>5. CASE FinishRun \/ UNCHANGED vars
  <2>1. /\ HeldUpOK'
        /\ UNCHANGED <<cfg, names, todo, cur, listed, pending, awaited, cloud, heldUp>>
    BY <1>1, <1>5 DEF FinishRun, vars, runVars, histVars, HeldUpOK
  <2> QED
    BY <1>1, <2>1
       DEF CalmOK, ShapeOK, PendingLive, Untouched, Progressed, IsWaiting, IsRequested
<1> QED
  BY <1>2, <1>3, <1>4, <1>5, StartIsCalm, ListingIsCalm, WaitIsCalm, CloudIsCalm
     DEF Next, Program, Environment, Requesting, Terminated

\* The loop ends after its last type.
LEMMA NilIsTheEnd ==
  ASSUME exit = "nil" => cur = None /\ todo = {}, [Next]_vars, exit' = "nil"
  PROVE  cur' = None /\ todo' = {}
<1>1. CASE FinishRun
  BY <1>1 DEF FinishRun
<1>2. CASE ~FinishRun
  <2>1. exit' = exit /\ exit = "nil"
    BY <1>2, EndStep
  <2>2. Environment \/ UNCHANGED vars
    BY <2>1, EndStep
  <2>3. UNCHANGED <<cur, todo>>
    BY <2>2 DEF Environment, FinishDeletion, Relaunch, OwnerDeletes, runVars, vars
  <2> QED
    BY <2>1, <2>3
<1> QED
  BY <1>1, <1>2

LEMMA CalmStep ==
  ASSUME DeletersFit, Fits(names), TurnInv, CalmInv, [Next]_vars
  PROVE  CalmInv'
<1>1. IInv /\ NamesGiven /\ TypeOK
  BY DEF TurnInv, IInv
<1>2. Started' /\ CascadesDone'
  BY <1>1, CascadeStep DEF CalmInv
<1>3. InTurn' /\ DoneInOrder'
  BY <1>1, DoneStep DEF CalmInv
<1>4. exit' = "nil" => cur' = None /\ todo' = {}
  BY NilIsTheEnd DEF CalmInv
<1>5. ASSUME Undisturbed' PROVE CalmOK'
  <2>1. Undisturbed
    BY <1>1, <1>5, UndisturbedStep
  <2>2. CalmFits
    BY <1>1, <2>1, LaggardsFit DEF CalmFits, CalmInv
  <2> QED
    BY <1>5, <2>2, CalmOKStep
<1> QED
  BY <1>2, <1>3, <1>4, <1>5 DEF CalmInv

LEMMA CalmInit ==
  ASSUME Init, Fits(names)
  PROVE  CalmInv
<1>1. TypeOK /\ PartsFit(names)
  BY InitOK DEF IInv, Fits, FitsBut
<1>2. /\ cur = None /\ pending = {} /\ exit = "running" /\ heldUp = {}
      /\ todo = {t \in Type : names[t] # {}}
      /\ cloud = [o \in Object |-> Born(o)]
  BY DEF Init
<1>3. \A o \in Object : cloud[o] = IF IsReplacement(o) THEN "unborn" ELSE "live"
  BY <1>2 DEF Born, IsReplacement
<1>4. Started /\ CascadesDone
  BY <1>3 DEF Started, CascadesDone
<1>5. InTurn /\ DoneInOrder
  BY <1>2 DEF InTurn, DoneInOrder
<1>6. ShapeOK /\ PendingLive
  BY <1>2 DEF ShapeOK, PendingLive
<1>7. \A o \in Work(names) : cloud[o] = "live" /\ TurnOf(names, o) \in todo
  <2> SUFFICES ASSUME NEW o \in Work(names)
               PROVE  cloud[o] = "live" /\ TurnOf(names, o) \in todo
    OBVIOUS
  <2>1. o \in Object /\ ~IsReplacement(o)
    BY <1>1 DEF Work, PartsFit
  <2>2. TurnOf(names, o) \in Type /\ names[TurnOf(names, o)] # {}
    BY <1>1, WorkFacts
  <2> QED
    BY <1>2, <1>3, <2>1, <2>2
<1>8. Untouched /\ Progressed
  BY <1>7 DEF Untouched, Progressed, IsWaiting
<1> QED
  BY <1>2, <1>4, <1>5, <1>6, <1>8 DEF CalmInv, CalmOK, HeldUpOK

\* What the invariant says at the end of a run.
LEMMA CalmSucceeds ==
  ASSUME TurnInv, CalmInv
  PROVE  UndisturbedRunSucceeds
<1>1. IInv /\ TypeOK /\ NamesOK /\ NamesGiven
  BY DEF TurnInv, IInv
<1> SUFFICES ASSUME Undisturbed, exit = "nil", ~cfg.DryRun, NEW t \in Type,
                    NEW n \in names[t], ~Protected(n[1])
             PROVE  cloud[n[1]] # "live" \/ n[1] \in heldUp
  BY DEF UndisturbedRunSucceeds, Undisturbed, CalmInv, CalmOK, HeldUpOK, Named, Objects
<1>2. cur = None /\ todo = {} /\ pending = {} /\ Progressed
  BY <1>1 DEF CalmInv, CalmOK, IInv, PendingOK
<1> DEFINE o == n[1]
<1>3. n \in Object \X Occurrence /\ o \in Object /\ TypeOf[o] = t
  BY <1>1 DEF TypeOK, NamesOK
<1>4. <<o, 1>> \in names[t]
  <2>1. n = <<n[1], n[2]>>
    BY <1>3
  <2> QED
    BY <1>1, <2>1 DEF NamesGiven
<1>5. ~HiddenByMark(o)
  BY DEF Protected, HiddenByMark
<1>6. o \in Work(names)
  BY <1>3, <1>4, <1>5 DEF Work, IsGiven
<1>7. ~IsWaiting(o) /\ ~IsRequested(o)
  BY <1>1, <1>2, <1>6, WorkFacts DEF IsWaiting, IsRequested
<1> QED
  BY <1>2, <1>6, <1>7 DEF Progressed

\* When no request fails, nobody else deletes anything and AWS finishes what is
\* waited for in time, a run whose deletion order fits what it was given deletes all
\* of it but what is default or main or held up, in every order AWS may list and
\* finish things.
THEOREM FittingRunSucceeds ==
  ASSUME DeletersFit PROVE Spec => [](Fits(names) => UndisturbedRunSucceeds)
<1> DEFINE Inv == TurnInv /\ (Fits(names) => CalmInv)
<1>1. Init => Inv
  BY TurnInit, CalmInit
<1>2. Inv /\ [Next]_vars => Inv'
  <2> SUFFICES ASSUME Inv, [Next]_vars PROVE Inv'
    OBVIOUS
  <2>1. names' = names
    BY HistoryGrows DEF TurnInv
  <2> QED
    BY <2>1, TurnStep, CalmStep
<1>3. Inv => (Fits(names) => UndisturbedRunSucceeds)
  BY CalmSucceeds
<1> QED
  BY <1>1, <1>2, <1>3, PTL DEF Spec

\* So all runs succeed undisturbed when the order fits all they may be given.
THEOREM UndisturbedRunSucceedsHolds ==
  ASSUME DeletersFit, \A m \in ResMaps : Fits(m)
  PROVE  Spec => []UndisturbedRunSucceeds
<1> DEFINE Inv == TurnInv /\ names \in ResMaps
<1>1. Init => Inv
  BY TurnInit DEF Init
<1>2. Inv /\ [Next]_vars => Inv'
  <2> SUFFICES ASSUME Inv, [Next]_vars PROVE Inv'
    OBVIOUS
  <2>1. names' = names
    BY HistoryGrows DEF TurnInv
  <2> QED
    BY <2>1, TurnStep
<1>3. Inv => Fits(names)
  OBVIOUS
<1> QED
  BY <1>1, <1>2, <1>3, FittingRunSucceeds, PTL DEF Spec

\* And nothing is reported as failed but what is held up; nothing is found gone, the
\* second deletion of a name included.
NothingFails ==
  Undisturbed =>
    \A o \in Object : /\ <<o, "absent">> \notin log
                      /\ <<o, "failed">> \in log => o \in heldUp

LEMMA NothingFailsStep ==
  ASSUME CalmFits, [Next]_vars, Undisturbed', NothingFails, NEW o \in Object
  PROVE  <<o, "absent">> \notin log' /\ (<<o, "failed">> \in log' => o \in heldUp')
<1>1. /\ TypeOK /\ PendingLive /\ faults \in Nat /\ faults' = 0 /\ ~late'
      /\ <<o, "absent">> \notin log /\ (<<o, "failed">> \in log => o \in heldUp)
  BY UndisturbedStep DEF CalmFits, CalmOK, IInv, TypeOK, NothingFails, Undisturbed
<1>2. /\ ~ListingFails
      /\ \A r \in pending : ~AskKidsFails(r) /\ ~Fault(r) /\ ~Absent(r)
      /\ \A p \in Object : ~OwnerDeletes(p)
  BY <1>1, UndisturbedStep DEF Absent, PendingLive
<1>3. CASE heldUp' = heldUp /\ \E T : log' = log \cup Entries(T, "deleted")
  BY <1>1, <1>3 DEF Entries
<1>4. CASE heldUp' = heldUp /\ UNCHANGED log
  BY <1>1, <1>4
<1>5. CASE (\E t \in Type : StartType(t)) \/ FinishType \/ FinishRun \/ ListResources
  BY <1>4, <1>5 DEF StartType, FinishType, FinishRun, ListResources, histVars
<1>6. CASE \E r \in pending : AskKids(r) \/ DryRunRequest(r) \/ Succeed(r)
  BY <1>3, <1>4, <1>6 DEF AskKids, DryRunRequest, Succeed, histVars
<1>7. CASE AwaitTermination
  BY <1>1, <1>3, <1>7 DEF AwaitTermination, Waiting
<1>8. CASE AwaitNatGateways
  <2>1. PICK alive, dead \in SUBSET awaited :
          \/ /\ log' = log \cup Entries(alive, "failed") \cup Entries(dead, "deleted")
             /\ late' = (late \/ alive # {})
          \/ faults' = faults + 1
    BY <1>8 DEF AwaitNatGateways
  <2>2. alive = {} /\ log' = log \cup Entries(alive, "failed") \cup Entries(dead, "deleted")
    <3>1. faults' # faults + 1
      BY <1>1
    <3> QED
      BY <1>1, <2>1, <3>1
  <2>3. log' = log \cup Entries(dead, "deleted")
    BY <2>2 DEF Entries
  <2>4. heldUp' = heldUp
    BY <1>8 DEF AwaitNatGateways, Waiting
  <2> QED
    BY <1>3, <2>3, <2>4
<1>9. CASE (\E p \in Object : FinishDeletion(p) \/ Relaunch(p)) \/ UNCHANGED vars
  BY <1>4, <1>9 DEF FinishDeletion, Relaunch, vars, histVars
<1>10. ASSUME NEW r \in pending, Blocked(r)
       PROVE  <<o, "absent">> \notin log' /\ (<<o, "failed">> \in log' => o \in heldUp')
  <2>1. CASE Retry(r) /\ UNCHANGED heldUp
    BY <1>4, <2>1 DEF Retry
  <2>2. CASE GiveUp(r, "failed") /\ HoldUp(r)
    <3>1. IsHeldUp(r.targets)
      BY <1>10, RefusedIsHeldUp DEF Blocked
    <3> QED
      BY <1>1, <2>2, <3>1 DEF GiveUp, HoldUp, Entries
  <2> QED
    BY <1>10, <2>1, <2>2 DEF Blocked
<1> QED
  BY <1>2, <1>5, <1>6, <1>7, <1>8, <1>9, <1>10
     DEF Next, Program, Environment, Requesting, Terminated

\* What is deleted twice is found gone.
LEMMA NoFailureNotTwice == NothingFails /\ ~late => NothingDeletedTwice
BY DEF NothingFails, NothingDeletedTwice, Undisturbed

\* An undisturbed run whose deletion order fits what it was given finds nothing gone
\* that it was given, not even a name it was given twice, and reports no failure but of
\* what deletions that nobody waits for hold up.
THEOREM UndisturbedRunFailsNothing ==
  ASSUME DeletersFit
  PROVE  Spec => [](Fits(names) => NothingFails /\ (~late => NothingDeletedTwice))
<1> DEFINE Inv == TurnInv /\ (Fits(names) => CalmInv /\ NothingFails)
<1>1. Init => Inv
  <2> SUFFICES ASSUME Init PROVE Inv
    OBVIOUS
  <2>1. log = {}
    BY DEF Init
  <2> QED
    BY <2>1, TurnInit, CalmInit DEF NothingFails
<1>2. Inv /\ [Next]_vars => Inv'
  <2> SUFFICES ASSUME Inv, [Next]_vars PROVE Inv'
    OBVIOUS
  <2>1. names' = names /\ TypeOK /\ TurnInv'
    BY HistoryGrows, TurnStep DEF TurnInv, IInv
  <2>2. ASSUME Fits(names) PROVE CalmInv' /\ NothingFails'
    <3>1. CalmInv'
      BY <2>2, CalmStep
    <3>2. ASSUME Undisturbed' PROVE CalmFits
      BY <2>1, <2>2, <3>2, UndisturbedStep, LaggardsFit DEF CalmFits, CalmInv, TurnInv
    <3> QED
      BY <2>2, <3>1, <3>2, NothingFailsStep DEF NothingFails
  <2> QED
    BY <2>1, <2>2
<1>3. Inv => (Fits(names) => NothingFails /\ (~late => NothingDeletedTwice))
  BY NoFailureNotTwice
<1> QED
  BY <1>1, <1>2, <1>3, PTL DEF Spec

(***************************************************************************)
(* The table of grafiti.                                                   *)
(***************************************************************************)
Grafiti == INSTANCE Deleters

\* The types of which AWS makes one for every account or VPC itself.
DefaultTypes == {"SecurityGroup", "NetworkACL", "Subnet", "VPC"}

MarksAsInAWS ==
  \A o \in Object : /\ "default" \in Marks[o] => TypeOf[o] \in DefaultTypes
                    /\ "main" \in Marks[o] => TypeOf[o] = "RouteTable"

\* The deleters of grafiti leave out whatever AWS may have marked.
LEMMA TableHidesMarks ==
  ASSUME Deleter = Grafiti!InitResourceDeleter, MarksAsInAWS
  PROVE  MarksAreHidden
<1>1. \A t \in DefaultTypes : Deleter[t].hides = {"default"}
  <2>1. /\ Deleter.SecurityGroup = Grafiti!SecurityGroupDeleter
        /\ Deleter.NetworkACL = Grafiti!NetworkACLDeleter
        /\ Deleter.Subnet = Grafiti!SubnetDeleter
        /\ Deleter.VPC = Grafiti!VPCDeleter
    BY DEF Grafiti!InitResourceDeleter
  <2>2. /\ Grafiti!SecurityGroupDeleter.hides = {"default"}
        /\ Grafiti!NetworkACLDeleter.hides = {"default"}
        /\ Grafiti!SubnetDeleter.hides = {"default"}
        /\ Grafiti!VPCDeleter.hides = {"default"}
    BY DEF Grafiti!SecurityGroupDeleter, Grafiti!NetworkACLDeleter, Grafiti!SubnetDeleter,
           Grafiti!VPCDeleter, Grafiti!DeletesListed, Grafiti!DeletesNames
  <2> QED
    BY <2>1, <2>2 DEF DefaultTypes
<1>2. Deleter["RouteTable"].hides = {"main"}
  <2>1. Deleter.RouteTable = Grafiti!RouteTableDeleter
    BY DEF Grafiti!InitResourceDeleter
  <2>2. Grafiti!RouteTableDeleter.hides = {"main"}
    BY DEF Grafiti!RouteTableDeleter, Grafiti!DeletesListed, Grafiti!DeletesNames
  <2> QED
    BY <2>1, <2>2
<1>3. \A o \in Object : Marks[o] \subseteq {"default", "main"}
  BY ConstantAssumption DEF ConstantAssumption
<1> QED
  BY <1>1, <1>2, <1>3 DEF MarksAsInAWS, MarksAreHidden

\* With the deleters of grafiti every run on every account keeps the promise.
THEOREM GrafitiDeletesSafely ==
  ASSUME Deleter = Grafiti!InitResourceDeleter, MarksAsInAWS
  PROVE  Spec => ImplementsSafeDelete
BY TableHidesMarks, ImplementsSafeDeleteHolds

\* The deleters of grafiti fit: whatever part of a resource is live is asked for, and
\* what is deleted in one request has no parts.
LEMMA TableFits ==
  ASSUME Deleter = Grafiti!InitResourceDeleter
  PROVE  DeletersFit
<1>1. \A d \in { Grafiti!AutoScalingGroupDeleter, Grafiti!LaunchConfigurationDeleter,
        Grafiti!EIPDeleter, Grafiti!EIPAssociationDeleter,
        Grafiti!InternetGatewayAttachmentDeleter,
        Grafiti!NetworkInterfaceAttachmentDeleter, Grafiti!RouteTableAssociationDeleter,
        Grafiti!RouteDeleter, Grafiti!SecurityGroupIngressDeleter,
        Grafiti!SecurityGroupEgressDeleter, Grafiti!VPCCIDRAssociationDeleter,
        Grafiti!VPNGatewayAttachmentDeleter, Grafiti!VPNConnectionRouteDeleter,
        Grafiti!IAMRoleMembershipDeleter, Grafiti!IAMRolePolicyDeleter} :
        DeleterFits(d)
  BY DEF Grafiti!AutoScalingGroupDeleter, Grafiti!LaunchConfigurationDeleter,
         Grafiti!EIPDeleter, Grafiti!EIPAssociationDeleter,
         Grafiti!InternetGatewayAttachmentDeleter,
         Grafiti!NetworkInterfaceAttachmentDeleter,
         Grafiti!RouteTableAssociationDeleter, Grafiti!RouteDeleter,
         Grafiti!SecurityGroupIngressDeleter, Grafiti!SecurityGroupEgressDeleter,
         Grafiti!VPCCIDRAssociationDeleter, Grafiti!VPNGatewayAttachmentDeleter,
         Grafiti!VPNConnectionRouteDeleter, Grafiti!IAMRoleMembershipDeleter,
         Grafiti!IAMRolePolicyDeleter, Grafiti!DeletesListed, Grafiti!DeletesNames,
         DeleterFits
<1>2. \A d \in { Grafiti!CustomerGatewayDeleter, Grafiti!NetworkACLDeleter,
        Grafiti!SubnetDeleter, Grafiti!VolumeDeleter} :
        DeleterFits(d)
  BY DEF Grafiti!CustomerGatewayDeleter, Grafiti!NetworkACLDeleter,
         Grafiti!SubnetDeleter, Grafiti!VolumeDeleter, Grafiti!DeletesListed,
         Grafiti!DeletesNames, DeleterFits
<1>3. \A d \in { Grafiti!InternetGatewayDeleter, Grafiti!NatGatewayDeleter,
        Grafiti!NetworkInterfaceDeleter, Grafiti!RouteTableDeleter,
        Grafiti!SecurityGroupDeleter, Grafiti!VPCDeleter, Grafiti!VPNGatewayDeleter,
        Grafiti!VPNConnectionDeleter, Grafiti!LoadBalancerDeleter,
        Grafiti!IAMInstanceProfileDeleter, Grafiti!IAMRoleDeleter} :
        DeleterFits(d)
  <2>1. DeleterFits(Grafiti!InternetGatewayDeleter) /\ DeleterFits(Grafiti!NatGatewayDeleter)
    BY DEF Grafiti!InternetGatewayDeleter, Grafiti!NatGatewayDeleter,
           Grafiti!DeletesListed, Grafiti!DeletesNames, DeleterFits
  <2>2. DeleterFits(Grafiti!NetworkInterfaceDeleter) /\ DeleterFits(Grafiti!RouteTableDeleter)
    BY DEF Grafiti!NetworkInterfaceDeleter, Grafiti!RouteTableDeleter,
           Grafiti!DeletesListed, Grafiti!DeletesNames, DeleterFits
  <2>3. DeleterFits(Grafiti!SecurityGroupDeleter) /\ DeleterFits(Grafiti!VPCDeleter)
    BY DEF Grafiti!SecurityGroupDeleter, Grafiti!VPCDeleter,
           Grafiti!DeletesListed, Grafiti!DeletesNames, DeleterFits
  <2>4. DeleterFits(Grafiti!VPNGatewayDeleter) /\ DeleterFits(Grafiti!VPNConnectionDeleter)
    BY DEF Grafiti!VPNGatewayDeleter, Grafiti!VPNConnectionDeleter,
           Grafiti!DeletesListed, Grafiti!DeletesNames, DeleterFits
  <2>5. DeleterFits(Grafiti!LoadBalancerDeleter) /\ DeleterFits(Grafiti!IAMInstanceProfileDeleter)
    BY DEF Grafiti!LoadBalancerDeleter, Grafiti!IAMInstanceProfileDeleter,
           Grafiti!DeletesListed, Grafiti!DeletesNames, DeleterFits
  <2>6. DeleterFits(Grafiti!IAMRoleDeleter)
    BY DEF Grafiti!IAMRoleDeleter,
           Grafiti!DeletesListed, Grafiti!DeletesNames, DeleterFits
  <2> QED
    BY <2>1, <2>2, <2>3, <2>4, <2>5, <2>6
<1>4. DeleterFits(Grafiti!InstanceDeleter)
  BY DEF Grafiti!InstanceDeleter, Grafiti!DeletesListed, Grafiti!DeletesNames, DeleterFits
<1>5. Type = DOMAIN Deleter
  BY ConstantAssumption DEF ConstantAssumption
<1> QED
  BY <1>1, <1>2, <1>3, <1>4, <1>5 DEF DeletersFit, Grafiti!InitResourceDeleter

\* With the deleters of grafiti every undisturbed run on every account succeeds, when
\* the order fits what it was given.
THEOREM GrafitiSucceedsUndisturbed ==
  ASSUME Deleter = Grafiti!InitResourceDeleter
  PROVE  Spec => [](Fits(names) => UndisturbedRunSucceeds)
BY TableFits, FittingRunSucceeds
=============================================================================
