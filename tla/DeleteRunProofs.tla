--------------------------- MODULE DeleteRunProofs ---------------------------
(***************************************************************************)
(* Proofs about DeleteRun, for every account, every table of deleters with *)
(* the assumed properties, and every bound on retries and faults.          *)
(***************************************************************************)
EXTENDS DeleteRun, TLAPS

\* What is known of a deleter.
LEMMA DeleterOf ==
  ASSUME NEW t \in Type
  PROVE  /\ Deleter[t] \in DeleterRecord
         /\ Deleter[t].kids \in Seq(Type)
         /\ Len(Deleter[t].kids) \in Nat
<1>1. Deleter[t] \in DeleterRecord
  BY ConstantAssumption DEF ConstantAssumption
<1>2. Deleter[t].kids \in Seq(Type)
  BY <1>1 DEF DeleterRecord
<1> QED
  BY <1>1, <1>2

(***************************************************************************)
(* What the requests of a plan are.                                        *)
(***************************************************************************)

\* A request for a part of an item asks for one part, of the type its rank says.
LEMMA KidRequestsOf ==
  ASSUME NEW t \in Type, NEW n \in Object \X Occurrence
  PROVE  \A r \in KidRequests(t, n) :
           /\ r \in Request
           /\ r.item = n
           /\ r.rank \in 1..Len(Deleter[t].kids)
           /\ \E k \in Object : /\ r.targets = {k}
                                /\ ParentOf[k] = n[1]
                                /\ Deleter[t].kids[r.rank] = TypeOf[k]
<1> TAKE r \in KidRequests(t, n)
<1>1. PICK k \in DeletableKids(t, n[1]) :
        r = [item |-> n, targets |-> {k}, rank |-> KidRank(t, k)]
  BY DEF KidRequests
<1>2. /\ k \in Object
      /\ ParentOf[k] = n[1]
      /\ \E i \in 1..Len(Deleter[t].kids) : Deleter[t].kids[i] = TypeOf[k]
  BY <1>1 DEF DeletableKids, KidsOf
<1>3. KidRank(t, k) \in 1..Len(Deleter[t].kids) /\ Deleter[t].kids[KidRank(t, k)] = TypeOf[k]
  BY <1>2 DEF KidRank
<1>4. Len(Deleter[t].kids) \in Nat
  BY DeleterOf
<1> QED
  BY <1>1, <1>2, <1>3, <1>4 DEF Request, Item

\* A plan for some items consists of requests for the items themselves, of
\* listings of their parts and of requests for their parts.
LEMMA PlanOf ==
  ASSUME NEW t \in Type, NEW items \in SUBSET (Object \X Occurrence)
  PROVE  \A r \in Plan(t, items) :
           /\ r \in Request
           /\ \/ r.targets \subseteq Objects(items) /\ r.rank = Len(Deleter[t].kids) + 1
                 /\ r.targets # {}
              \/ r.targets = {} /\ r.item \in items
              \/ \E n \in items : r \in KidRequests(t, n)
<1> TAKE r \in Plan(t, items)
<1>1. Len(Deleter[t].kids) \in Nat
  BY DeleterOf
<1>2. CASE Deleter[t].batch
  <2>1. items # {} /\ r = BatchRequest(t, items)
    BY <1>2 DEF Plan
  <2>2. Objects(items) # {} /\ Objects(items) \subseteq Object
    BY <2>1 DEF Objects
  <2>3. NoItem \in Item
    BY DEF NoItem, Item, Occurrence
  <2> QED
    BY <1>1, <2>1, <2>2, <2>3 DEF BatchRequest, Request, Objects
<1>3. CASE ~Deleter[t].batch /\ \E n \in items : r = ItemRequest(t, n)
  BY <1>1, <1>3 DEF ItemRequest, Request, Item, Objects
<1>4. CASE ~Deleter[t].batch /\ \E n \in items : r = AskForKids(n)
  BY <1>4 DEF AskForKids, Request, Item
<1>5. CASE ~Deleter[t].batch /\ \E n \in items : r \in KidRequests(t, n)
  BY <1>5, KidRequestsOf
<1>6. ASSUME ~Deleter[t].batch
      PROVE  \E n \in items : \/ r = ItemRequest(t, n) \/ r = AskForKids(n)
                              \/ r \in KidRequests(t, n)
  <2>1. r \in {ItemRequest(t, n) : n \in items} \cup
             IF Deleter[t].asksKids
             THEN {AskForKids(n) : n \in items}
             ELSE UNION {KidRequests(t, n) : n \in items}
    BY <1>6 DEF Plan
  <2> QED
    BY <2>1
<1> QED
  BY <1>2, <1>3, <1>4, <1>5, <1>6

(***************************************************************************)
(* Type correctness.                                                       *)
(***************************************************************************)

\* AWS only moves objects between states.
LEMMA DeletedType ==
  ASSUME cloud \in [Object -> States], NEW T
  PROVE  Deleted(T) \in [Object -> States]
BY DEF Deleted, States

\* A deleter lists only what it was given.
LEMMA ListingGiven ==
  ASSUME NEW t \in Type PROVE Listing(t) \subseteq names[t]
BY DEF Listing

(***************************************************************************)
(* The inductive invariant.  What TypeOK and the safety properties lack is *)
(* where the pending requests come from: every request of the type being   *)
(* deleted is for an object the run may touch, and is either for objects   *)
(* of that type, or for the parts of an item that was given.               *)
(***************************************************************************)
HiddenByMark(o) == Marks[o] \cap Deleter[TypeOf[o]].hides # {}

MayTouch(o) == \E p \in {o, ParentOf[o]} : p \in Named /\ ~HiddenByMark(p)

RequestOK(r, t) ==
  /\ \A o \in r.targets : MayTouch(o)
  /\ \/ /\ r.rank = Len(Deleter[t].kids) + 1 /\ r.targets # {}
        /\ \A o \in r.targets : TypeOf[o] = t
     \/ /\ r.targets = {}
        /\ r.item \in names[t] /\ ~HiddenByMark(r.item[1])
     \/ /\ r.targets # {} /\ r.rank \in 1..Len(Deleter[t].kids)
        /\ r.item \in names[t]
        /\ \A o \in r.targets : TypeOf[o] = Deleter[t].kids[r.rank]

NamesOK == \A t \in Type : \A n \in names[t] : TypeOf[n[1]] = t

PendingOK ==
  /\ cur = None => pending = {}
  /\ \A r \in pending : RequestOK(r, cur)

AwaitedOK ==
  awaited # {} => /\ cur # None /\ Deleter[cur].waits # "no"
                  /\ \A o \in awaited : TypeOf[o] = cur

IInv == TypeOK /\ NamesOK /\ PendingOK /\ AwaitedOK

\* Requests for the parts of an item that was given and is not protected.
LEMMA KidRequestsOK ==
  ASSUME TypeOK, NEW t \in Type, NEW n \in names[t], ~HiddenByMark(n[1])
  PROVE  \A r \in KidRequests(t, n) : r \in Request /\ RequestOK(r, t)
<1>1. n \in Object \X Occurrence
  BY DEF TypeOK
<1>2. n[1] \in Named
  BY DEF Named, Objects
<1> TAKE r \in KidRequests(t, n)
<1>3. PICK k \in Object : /\ r.targets = {k}
                          /\ ParentOf[k] = n[1]
                          /\ Deleter[t].kids[r.rank] = TypeOf[k]
  BY <1>1, KidRequestsOf
<1>4. r \in Request /\ r.item = n /\ r.rank \in 1..Len(Deleter[t].kids)
  BY <1>1, KidRequestsOf
<1>5. MayTouch(k)
  BY <1>2, <1>3 DEF MayTouch
<1> QED
  BY <1>3, <1>4, <1>5 DEF RequestOK

\* All requests of a plan.
LEMMA PlanOK ==
  ASSUME TypeOK, NamesOK, NEW t \in Type, NEW items \in SUBSET names[t],
         \A n \in items : ~HiddenByMark(n[1])
  PROVE  \A r \in Plan(t, items) : r \in Request /\ RequestOK(r, t)
<1>1. items \in SUBSET (Object \X Occurrence)
  BY DEF TypeOK
<1>2. \A o \in Objects(items) : MayTouch(o) /\ TypeOf[o] = t
  BY DEF Objects, Named, MayTouch, NamesOK
<1> TAKE r \in Plan(t, items)
<1>3. r \in Request
  BY <1>1, PlanOf
<1>4. CASE /\ r.targets \subseteq Objects(items) /\ r.rank = Len(Deleter[t].kids) + 1
           /\ r.targets # {}
  BY <1>2, <1>3, <1>4 DEF RequestOK
<1>5. CASE r.targets = {} /\ r.item \in items
  BY <1>3, <1>5 DEF RequestOK
<1>6. CASE \E n \in items : r \in KidRequests(t, n)
  BY <1>6, KidRequestsOK
<1> QED
  BY <1>1, <1>4, <1>5, <1>6, <1>3, PlanOf

\* A listing leaves out what is protected; who lists nothing protects nothing.
LEMMA ListingOK ==
  ASSUME TypeOK, NamesOK, NEW t \in Type
  PROVE  /\ Listing(t) \subseteq names[t]
         /\ \A n \in Listing(t) : ~HiddenByMark(n[1])
         /\ Deleter[t].selects = "names" => \A n \in names[t] : ~HiddenByMark(n[1])
<1>1. Listing(t) \subseteq names[t]
  BY DEF Listing
<1>2. \A n \in Listing(t) : ~HiddenByMark(n[1])
  BY DEF Listing, Hidden, HasMark, HiddenByMark
<1>3. ASSUME Deleter[t].selects = "names", NEW n \in names[t]
      PROVE  ~HiddenByMark(n[1])
  <2>1. TypeOf[n[1]] = t
    BY DEF NamesOK
  <2>2. Deleter[t].hides = {}
    BY <1>3, ConstantAssumption DEF ConstantAssumption
  <2> QED
    BY <2>1, <2>2 DEF HiddenByMark
<1> QED
  BY <1>1, <1>2, <1>3

(***************************************************************************)
(* What steps have in common.                                              *)
(***************************************************************************)

\* The invariant does not depend on what it does not mention.
LEMMA SameRequests ==
  ASSUME IInv, UNCHANGED <<names, cur, pending, awaited>>
  PROVE  NamesOK' /\ PendingOK' /\ AwaitedOK'
BY DEF IInv, NamesOK, PendingOK, AwaitedOK, RequestOK, MayTouch, Named

\* Dropping requests keeps it.
LEMMA FewerRequests ==
  ASSUME IInv, UNCHANGED <<names, cur, awaited>>, pending' \subseteq pending
  PROVE  NamesOK' /\ PendingOK' /\ AwaitedOK' /\ pending' \subseteq Request
BY DEF IInv, TypeOK, NamesOK, PendingOK, AwaitedOK, RequestOK, MayTouch, Named

\* So does adding good ones.
LEMMA MoreRequests ==
  ASSUME IInv, UNCHANGED <<names, cur, awaited>>, cur # None,
         \A r \in pending' \ pending : r \in Request /\ RequestOK(r, cur)
  PROVE  NamesOK' /\ PendingOK' /\ AwaitedOK' /\ pending' \subseteq Request
BY DEF IInv, TypeOK, NamesOK, PendingOK, AwaitedOK, RequestOK, MayTouch, Named

\* The request being made.
LEMMA CurrentOK ==
  ASSUME IInv, NEW r \in pending
  PROVE  /\ cur \in Type /\ cur # None
         /\ r \in Request /\ r.item \in Item /\ r.targets \in SUBSET Object
         /\ RequestOK(r, cur)
         /\ IsForKid(r) \/ r.targets = {} => r.item[1] \in Object
<1>1. cur \in Type /\ cur # None /\ RequestOK(r, cur)
  BY DEF IInv, TypeOK, PendingOK
<1>2. r \in Request /\ r.item \in Item /\ r.targets \in SUBSET Object
  BY DEF IInv, TypeOK, Request
<1>3. ASSUME IsForKid(r) \/ r.targets = {}
      PROVE  r.item[1] \in Object
  <2>1. r.item \in names[cur]
    BY <1>1, <1>3, DeleterOf DEF RequestOK, IsForKid
  <2> QED
    BY <1>1, <2>1 DEF IInv, TypeOK
<1> QED
  BY <1>1, <1>2, <1>3

\* logRequestError and what follows it.
LEMMA GiveUpOK ==
  ASSUME IInv, NEW r \in pending, NEW result \in Results, GiveUp(r, result)
  PROVE  /\ NamesOK' /\ PendingOK' /\ AwaitedOK' /\ pending' \subseteq Request
         /\ UNCHANGED <<cfg, names, todo, cur, listed, awaited, late>>
         /\ log' \subseteq Object \X Results /\ skipped' \subseteq Object
         /\ item' \in Item /\ attempt' = 0 /\ exit' \in {"running", "nil", "error"}
<1>1. UNCHANGED <<cfg, names, todo, cur, listed, awaited, late>>
  BY DEF GiveUp
<1>2. pending' \subseteq pending
  BY DEF GiveUp, Leave, Continue, NextItem, Return
<1>3. skipped' \subseteq Object /\ exit' \in {"running", "nil", "error"}
  BY CurrentOK DEF IInv, TypeOK, GiveUp, Leave, Continue, NextItem, Return
<1>4. log' \subseteq Object \X Results
  BY CurrentOK DEF IInv, TypeOK, GiveUp, Entries
<1>5. item' \in Item /\ attempt' = 0
  BY CurrentOK DEF GiveUp
<1> QED
  BY <1>1, <1>2, <1>3, <1>4, <1>5, FewerRequests

\* A retried request is the same request, and its attempts stay within bounds.
LEMMA RetryOK ==
  ASSUME IInv, NEW r \in pending, Retry(r)
  PROVE  /\ UNCHANGED <<cfg, names, todo, cur, listed, pending, awaited, exit,
                        log, skipped, late>>
         /\ item' \in Item /\ attempt' \in 0..NumMaxRetries
BY CurrentOK, ConstantAssumption DEF Retry, IInv, TypeOK, ConstantAssumption

\* The plan and the wait that follow a listing.
LEMMA WorkOnOK ==
  ASSUME IInv, cur # None, NEW items \in SUBSET Listing(cur), WorkOn(items),
         UNCHANGED <<names, cur>>
  PROVE  /\ NamesOK' /\ PendingOK' /\ AwaitedOK' /\ pending' \subseteq Request
         /\ listed' \in BOOLEAN /\ awaited' \subseteq Object
         /\ skipped' \subseteq Object
<1>1. cur \in Type /\ TypeOK /\ NamesOK
  BY DEF IInv, TypeOK
<1>2. items \subseteq names[cur] /\ \A n \in items : ~HiddenByMark(n[1])
  BY <1>1, ListingOK
<1>3. \A r \in Plan(cur, items) : r \in Request /\ RequestOK(r, cur)
  BY <1>1, <1>2, PlanOK
<1>4. names[cur] \subseteq Object \X Occurrence
  BY <1>1 DEF TypeOK
<1>5. /\ Objects(names[cur]) \subseteq Object /\ Objects(items) \subseteq Object
      /\ \A o \in Objects(items) : TypeOf[o] = cur
  BY <1>1, <1>2, <1>4 DEF Objects, NamesOK
<1>6. NamesOK' /\ PendingOK' /\ pending' \subseteq Request
  BY <1>1, <1>3 DEF WorkOn, PendingOK, NamesOK, RequestOK, MayTouch, Named
<1>7. AwaitedOK' /\ awaited' \subseteq Object
  BY <1>1, <1>5 DEF WorkOn, AwaitedOK
<1> QED
  BY <1>1, <1>5, <1>6, <1>7 DEF WorkOn, TypeOK

(***************************************************************************)
(* IInv is an invariant.                                                   *)
(***************************************************************************)
\* A run starts with nothing requested and nothing awaited.
LEMMA InitOK == Init => IInv
<1> SUFFICES ASSUME Init PROVE IInv
  OBVIOUS
<1>1. PICK m \in ResMaps : names = m /\ todo = {t \in Type : m[t] # {}}
  BY DEF Init
<1>2. /\ names \in [Type -> SUBSET (Object \X Occurrence)]
      /\ \A t \in Type : \A n \in names[t] : TypeOf[n[1]] = t
  BY <1>1, NamesAssumption DEF NamesAssumption
<1>3. cfg \in [DryRun : BOOLEAN, IgnoreErrors : BOOLEAN]
  BY ConstantAssumption DEF ConstantAssumption, Init
<1>4. cloud \in [Object -> States]
  BY DEF Init, Born, States
<1>5. 0 \in 0..NumMaxRetries /\ 0 \in 0..MaxFaults
  BY ConstantAssumption DEF ConstantAssumption
<1>6. NoItem \in Item
  BY DEF NoItem, Item, Occurrence
<1> QED
  BY <1>1, <1>2, <1>3, <1>4, <1>5, <1>6
     DEF Init, IInv, TypeOK, NamesOK, PendingOK, AwaitedOK

\* Counting a fault keeps the count within its bound.
LEMMA FaultCounted ==
  ASSUME TypeOK, faults < MaxFaults, faults' = faults + 1 PROVE faults' \in 0..MaxFaults
BY ConstantAssumption DEF ConstantAssumption, TypeOK

\* The steps of deleteARNs' loop.
LEMMA LoopStep ==
  ASSUME IInv, (\E t \in Type : StartType(t)) \/ FinishType \/ FinishRun
  PROVE  IInv'
<1>1. ASSUME NEW t \in Type, StartType(t) PROVE IInv'
  <2>1. TypeOK /\ NamesOK /\ awaited = {}
    BY <1>1 DEF IInv, AwaitedOK, StartType
  <2>2. /\ cur' = t /\ t # None /\ awaited' = {} /\ NamesOK'
        /\ UNCHANGED <<cfg, names, awaited, exit, log, cloud, histVars>>
    BY <1>1, <2>1, ConstantAssumption DEF StartType, ConstantAssumption, NamesOK
  <2>3. todo' \subseteq Type /\ item' \in Item /\ attempt' \in 0..NumMaxRetries
    BY <1>1, <2>1, ConstantAssumption
       DEF StartType, TypeOK, NoItem, Item, Occurrence, ConstantAssumption
  <2>4. /\ listed' \in BOOLEAN /\ pending' \subseteq Request
        /\ \A r \in pending' : RequestOK(r, t)'
    <3>1. CASE Deleter[t].selects = "names"
      <4>1. \A n \in names[t] : ~HiddenByMark(n[1])
        BY <2>1, <3>1, ListingOK
      <4>2. \A r \in Plan(t, names[t]) : r \in Request /\ RequestOK(r, t)
        BY <2>1, <4>1, PlanOK
      <4>3. listed' = TRUE /\ pending' = Plan(t, names[t])
        BY <1>1, <3>1 DEF StartType
      <4> QED
        BY <2>2, <4>2, <4>3 DEF RequestOK, MayTouch, Named
    <3>2. CASE Deleter[t].selects # "names"
      BY <1>1, <3>2 DEF StartType
    <3> QED
      BY <3>1, <3>2
  <2>5. TypeOK'
    BY <2>1, <2>2, <2>3, <2>4 DEF TypeOK, histVars
  <2>6. PendingOK' /\ AwaitedOK'
    BY <2>2, <2>4 DEF PendingOK, AwaitedOK
  <2> QED
    BY <2>2, <2>5, <2>6 DEF IInv
<1>2. CASE FinishType
  BY <1>2 DEF FinishType, IInv, TypeOK, NamesOK, PendingOK, AwaitedOK, histVars
<1>3. CASE FinishRun
  <2>1. NamesOK' /\ PendingOK' /\ AwaitedOK'
    BY <1>3, SameRequests DEF FinishRun
  <2> QED
    BY <1>3, <2>1 DEF FinishRun, IInv, TypeOK, histVars
<1> QED
  BY <1>1, <1>2, <1>3

\* Listings.
LEMMA ListStep ==
  ASSUME IInv, ListResources \/ ListingFails
  PROVE  IInv'
<1>1. cur # None /\ TypeOK
  BY DEF ListResources, ListingFails, IInv
<1>2. CASE ListResources
  <2>1. WorkOn(Listing(cur)) /\ UNCHANGED <<names, cur>>
    BY <1>2 DEF ListResources
  <2>2. /\ NamesOK' /\ PendingOK' /\ AwaitedOK' /\ pending' \subseteq Request
        /\ listed' \in BOOLEAN /\ awaited' \subseteq Object /\ skipped' \subseteq Object
    BY <1>1, <2>1, WorkOnOK
  <2> QED
    BY <1>2, <2>2 DEF ListResources, IInv, TypeOK
<1>3. CASE ListingFails /\ cfg.IgnoreErrors
  <2>1. PICK items \in SUBSET Listing(cur) : WorkOn(items)
    BY <1>3 DEF ListingFails
  <2>2. UNCHANGED <<names, cur>>
    BY <1>3 DEF ListingFails
  <2>3. /\ NamesOK' /\ PendingOK' /\ AwaitedOK' /\ pending' \subseteq Request
        /\ listed' \in BOOLEAN /\ awaited' \subseteq Object /\ skipped' \subseteq Object
    BY <1>1, <2>1, <2>2, WorkOnOK
  <2>4. faults' \in 0..MaxFaults
    BY <1>1, <1>3, FaultCounted DEF ListingFails
  <2> QED
    BY <1>3, <2>3, <2>4 DEF ListingFails, IInv, TypeOK
<1>4. CASE ListingFails /\ ~cfg.IgnoreErrors
  <2>1. NamesOK' /\ PendingOK' /\ AwaitedOK'
    BY <1>4, SameRequests DEF ListingFails
  <2>2. faults' \in 0..MaxFaults
    BY <1>1, <1>4, FaultCounted DEF ListingFails
  <2> QED
    BY <1>4, <2>1, <2>2 DEF ListingFails, IInv, TypeOK
<1> QED
  BY <1>2, <1>3, <1>4

\* Accepted and refused requests change the account and the history as typed.
LEMMA AcceptedType ==
  ASSUME TypeOK, NEW r, r.targets \subseteq Object,
         Accepted(r) \/ UNCHANGED <<cloud, touched>>
  PROVE  cloud' \in [Object -> States] /\ touched' \subseteq Object
BY DeletedType DEF Accepted, TypeOK

\* Listings of parts.
LEMMA AskStep ==
  ASSUME IInv, NEW r \in pending, AskKids(r) \/ AskKidsFails(r)
  PROVE  IInv'
<1>1. /\ cur \in Type /\ cur # None /\ TypeOK /\ RequestOK(r, cur)
      /\ r.targets = {} /\ r.item \in Item /\ r.item[1] \in Object
      /\ UNCHANGED <<cfg, names, todo, cur, listed, awaited, exit, log, cloud,
                     touched, late, heldUp>>
      /\ item' = r.item /\ attempt' = 0
  BY CurrentOK DEF AskKids, AskKidsFails, histVars, IInv
<1>2. r.item \in names[cur] /\ ~HiddenByMark(r.item[1])
  BY <1>1 DEF RequestOK
<1>3. \A q \in KidRequests(cur, r.item) : q \in Request /\ RequestOK(q, cur)
  BY <1>1, <1>2, KidRequestsOK
<1>4. \A q \in pending' \ pending : q \in Request /\ RequestOK(q, cur)
  BY <1>3 DEF AskKids, AskKidsFails
<1>5. NamesOK' /\ PendingOK' /\ AwaitedOK' /\ pending' \subseteq Request
  BY <1>1, <1>4, MoreRequests
<1>6. skipped' \subseteq Object /\ faults' \in 0..MaxFaults
  BY <1>1, FaultCounted DEF AskKids, AskKidsFails, histVars, TypeOK
<1>7. attempt' \in 0..NumMaxRetries
  BY <1>1, ConstantAssumption DEF ConstantAssumption
<1> QED
  BY <1>1, <1>5, <1>6, <1>7 DEF IInv, TypeOK

\* Delete requests.
LEMMA RequestStep ==
  ASSUME IInv, NEW r \in pending,
         DryRunRequest(r) \/ Succeed(r) \/ Blocked(r) \/ Fault(r) \/ Absent(r)
  PROVE  IInv'
<1>1. /\ cur \in Type /\ cur # None /\ TypeOK /\ RequestOK(r, cur)
      /\ r.item \in Item /\ r.targets \subseteq Object
  BY CurrentOK DEF IInv
<1>2. 0 \in 0..NumMaxRetries
  BY ConstantAssumption DEF ConstantAssumption
<1>3. CASE DryRunRequest(r)
  <2>1. NamesOK' /\ PendingOK' /\ AwaitedOK' /\ pending' \subseteq Request
    BY <1>3, FewerRequests DEF DryRunRequest
  <2> QED
    BY <1>1, <1>2, <1>3, <2>1 DEF DryRunRequest, IInv, TypeOK, histVars
<1>4. CASE Succeed(r)
  <2>1. cloud' \in [Object -> States] /\ touched' \subseteq Object
    BY <1>1, <1>4, AcceptedType DEF Succeed
  <2>2. CASE Deleter[cur].waits = "no"
    <3>1. NamesOK' /\ PendingOK' /\ AwaitedOK' /\ pending' \subseteq Request
      BY <1>4, <2>2, FewerRequests DEF Succeed
    <3>2. log' \subseteq Object \X Results
      BY <1>1, <1>4, <2>2 DEF Succeed, Entries, Results, TypeOK
    <3> QED
      BY <1>1, <1>2, <1>4, <2>1, <2>2, <3>1, <3>2 DEF Succeed, IInv, TypeOK
  <2>3. CASE Deleter[cur].waits # "no"
    <3>1. Deleter[cur].kids = << >>
      BY <1>1, <2>3, ConstantAssumption DEF ConstantAssumption
    <3>2. \A o \in r.targets : TypeOf[o] = cur
      BY <1>1, <3>1 DEF RequestOK
    <3>3. awaited' = awaited \cup r.targets /\ UNCHANGED <<cur, names>>
      BY <1>4, <2>3 DEF Succeed
    <3>4. AwaitedOK' /\ awaited' \subseteq Object
      BY <1>1, <2>3, <3>2, <3>3 DEF AwaitedOK, IInv, TypeOK
    <3>5. NamesOK' /\ PendingOK' /\ pending' \subseteq Request
      BY <1>1, <1>4, <3>3
         DEF Succeed, IInv, TypeOK, NamesOK, PendingOK, RequestOK, MayTouch, Named
    <3> QED
      BY <1>1, <1>2, <1>4, <2>1, <2>3, <3>4, <3>5 DEF Succeed, IInv, TypeOK
  <2> QED
    BY <2>2, <2>3
<1>11. heldUp' \subseteq Object
  BY <1>1 DEF DryRunRequest, Succeed, Blocked, HoldUp, Fault, Absent, histVars, TypeOK
<1>5. CASE Retry(r) /\ (Blocked(r) \/ Fault(r))
  <2>1. /\ UNCHANGED <<cfg, names, todo, cur, listed, pending, awaited, exit, log,
                       skipped, late>>
        /\ item' \in Item /\ attempt' \in 0..NumMaxRetries
    BY <1>5, RetryOK
  <2>2. NamesOK' /\ PendingOK' /\ AwaitedOK'
    BY <2>1, SameRequests
  <2>3. /\ cloud' \in [Object -> States] /\ touched' \subseteq Object
        /\ faults' \in 0..MaxFaults
    BY <1>1, <1>5, AcceptedType, FaultCounted DEF Blocked, Fault, TypeOK
  <2> QED
    BY <1>1, <1>11, <2>1, <2>2, <2>3 DEF IInv, TypeOK
<1>6. ASSUME NEW result \in Results, GiveUp(r, result), Blocked(r) \/ Fault(r) \/ Absent(r)
      PROVE  IInv'
  <2>1. /\ NamesOK' /\ PendingOK' /\ AwaitedOK' /\ pending' \subseteq Request
        /\ UNCHANGED <<cfg, names, todo, cur, listed, awaited, late>>
        /\ log' \subseteq Object \X Results /\ skipped' \subseteq Object
        /\ item' \in Item /\ attempt' = 0 /\ exit' \in {"running", "nil", "error"}
    BY <1>6, GiveUpOK
  <2>2. /\ cloud' \in [Object -> States] /\ touched' \subseteq Object
        /\ faults' \in 0..MaxFaults
    BY <1>1, <1>6, AcceptedType, FaultCounted DEF Blocked, Fault, Absent, TypeOK
  <2> QED
    BY <1>1, <1>2, <1>11, <2>1, <2>2 DEF IInv, TypeOK
<1>7. CASE Absent(r) /\ \A o \in r.targets : Deleter[TypeOf[o]].tolerates
  <2>1. NamesOK' /\ PendingOK' /\ AwaitedOK' /\ pending' \subseteq Request
    BY <1>7, FewerRequests DEF Absent
  <2> QED
    BY <1>1, <1>2, <1>7, <2>1 DEF Absent, IInv, TypeOK
<1>8. "failed" \in Results /\ "absent" \in Results
  BY DEF Results
<1>9. Blocked(r) \/ Fault(r) => Retry(r) \/ GiveUp(r, "failed")
  BY DEF Blocked, Fault
<1>10. Absent(r) => \/ \A o \in r.targets : Deleter[TypeOf[o]].tolerates
                    \/ GiveUp(r, "absent")
  BY DEF Absent
<1> QED
  BY <1>3, <1>4, <1>5, <1>6, <1>7, <1>8, <1>9, <1>10

\* Waits.
LEMMA AwaitStep ==
  ASSUME IInv, AwaitTermination \/ AwaitNatGateways
  PROVE  IInv'
<1>1. /\ UNCHANGED <<cfg, names, todo, cur, listed, pending, item, attempt, cloud,
                     touched, skipped, heldUp>>
      /\ awaited' = {} /\ exit = "running"
  BY DEF AwaitTermination, AwaitNatGateways, Waiting
<1>2. NamesOK' /\ PendingOK' /\ AwaitedOK'
  BY <1>1 DEF IInv, NamesOK, PendingOK, AwaitedOK, RequestOK, MayTouch, Named
<1>3. \A A \in SUBSET Object, result \in Results : Entries(A, result) \subseteq Object \X Results
  BY DEF Entries
<1>4. "failed" \in Results /\ "deleted" \in Results
  BY DEF Results
<1>5. awaited \subseteq Object /\ log \subseteq Object \X Results /\ TypeOK
  BY DEF IInv, TypeOK
<1>6. log' \subseteq Object \X Results /\ exit' \in {"running", "nil", "error"}
  <2>1. CASE AwaitTermination
    BY <1>1, <1>3, <1>4, <1>5, <2>1 DEF AwaitTermination
  <2>2. CASE AwaitNatGateways
    BY <1>1, <1>3, <1>4, <1>5, <2>2 DEF AwaitNatGateways
  <2> QED
    BY <2>1, <2>2
<1>7. faults' \in 0..MaxFaults /\ late' \in BOOLEAN
  BY <1>5, FaultCounted DEF AwaitTermination, AwaitNatGateways, TypeOK
<1> QED
  BY <1>1, <1>2, <1>5, <1>6, <1>7 DEF IInv, TypeOK

\* AWS and other users of the account.
LEMMA EnvironmentStep ==
  ASSUME IInv, Environment
  PROVE  IInv'
<1>1. UNCHANGED <<cfg, names, runVars, log, touched, skipped, late, heldUp>>
  BY DEF Environment, FinishDeletion, Relaunch, OwnerDeletes, histVars
<1>2. NamesOK' /\ PendingOK' /\ AwaitedOK'
  BY <1>1, SameRequests DEF runVars
<1>3. cloud' \in [Object -> States]
  BY DeletedType
     DEF Environment, FinishDeletion, Relaunch, OwnerDeletes, IInv, TypeOK, States
<1>4. faults' \in 0..MaxFaults
  BY FaultCounted
     DEF Environment, FinishDeletion, Relaunch, OwnerDeletes, IInv, TypeOK, histVars
<1> QED
  BY <1>1, <1>2, <1>3, <1>4 DEF IInv, TypeOK, runVars

\* Every step of the program, of AWS and of other users keeps the invariant.
LEMMA InvStep == IInv /\ [Next]_vars => IInv'
<1> SUFFICES ASSUME IInv, [Next]_vars PROVE IInv'
  OBVIOUS
<1>1. CASE Program
  BY <1>1, LoopStep, ListStep, AskStep, RequestStep, AwaitStep DEF Program, Requesting
<1>2. CASE Environment
  BY <1>2, EnvironmentStep
<1>3. CASE UNCHANGED vars
  BY <1>3, SameRequests DEF vars, runVars, histVars, IInv, TypeOK
<1> QED
  BY <1>1, <1>2, <1>3 DEF Next, Terminated

\* In every run all pending requests are for resources that were given and that
\* the listing did not hide, or for their parts, and only such are awaited.
THEOREM Invariance == Spec => []IInv
<1>1. Init => IInv
  BY InitOK
<1>2. IInv /\ [Next]_vars => IInv'
  BY InvStep
<1> QED
  BY <1>1, <1>2, PTL DEF Spec

\* Every variable keeps its type, in every run on every account.
THEOREM TypeCorrect == Spec => []TypeOK
<1>1. IInv => TypeOK
  BY DEF IInv
<1> QED
  BY <1>1, Invariance, PTL

(***************************************************************************)
(* What a run touches.                                                     *)
(***************************************************************************)

\* Only an accepted request adds to what was touched.
LEMMA TouchedStep ==
  ASSUME IInv, [Next]_vars
  PROVE  /\ UNCHANGED <<names, cfg>>
         /\ \/ touched' = touched
            \/ \E r \in pending : TakesEffect(r) /\ touched' = touched \cup r.targets
<1>1. CASE Environment
  BY <1>1 DEF Environment, FinishDeletion, Relaunch, OwnerDeletes, histVars
<1>2. CASE UNCHANGED vars
  BY <1>2 DEF vars, histVars
<1>3. CASE (\E t \in Type : StartType(t)) \/ FinishType \/ FinishRun
  BY <1>3 DEF StartType, FinishType, FinishRun, histVars
<1>4. CASE ListResources \/ ListingFails \/ AwaitTermination \/ AwaitNatGateways
  BY <1>4 DEF ListResources, ListingFails, AwaitTermination, AwaitNatGateways, Waiting
<1>5. ASSUME NEW r \in pending,
             \/ AskKids(r) \/ AskKidsFails(r) \/ DryRunRequest(r) \/ Succeed(r)
             \/ Blocked(r) \/ Fault(r) \/ Absent(r)
      PROVE  /\ UNCHANGED <<names, cfg>>
             /\ \/ touched' = touched
                \/ TakesEffect(r) /\ touched' = touched \cup r.targets
  BY <1>5 DEF AskKids, AskKidsFails, DryRunRequest, Succeed, Blocked, Fault, Absent,
              Accepted, GiveUp, Retry, histVars
<1> QED
  BY <1>1, <1>2, <1>3, <1>4, <1>5 DEF Next, Program, Requesting, Terminated

\* The deleters' listings leave out whatever AWS marks default or main.
MarksAreHidden == \A o \in Object : Marks[o] \subseteq Deleter[TypeOf[o]].hides

\* Where that is so, the invariant speaks of all that is protected.
LEMMA HiddenIsProtected ==
  ASSUME MarksAreHidden, NEW o \in Object
  PROVE  HiddenByMark(o) <=> Protected(o)
BY DEF MarksAreHidden, HiddenByMark, Protected

\* What a step adds to what was touched the run may touch.
LEMMA TouchesStep ==
  ASSUME MarksAreHidden, IInv, TouchesOnlyWhatItMay, [Next]_vars
  PROVE  TouchesOnlyWhatItMay'
<1> DEFINE Allowed(o) == \E p \in {o, ParentOf[o]} : p \in Named /\ ~Protected(p)
<1>1. Named \subseteq Object
  BY DEF IInv, TypeOK, Named, Objects
<1>2. \A r \in pending : \A o \in r.targets : MayTouch(o)
  BY DEF IInv, PendingOK, RequestOK
<1>3. \A o : MayTouch(o) => Allowed(o)
  BY <1>1, HiddenIsProtected DEF MayTouch
<1>4. \A o \in touched : Allowed(o)
  BY DEF TouchesOnlyWhatItMay
<1>5. \A o \in touched' : Allowed(o)
  BY <1>2, <1>3, <1>4, TouchedStep
<1>6. UNCHANGED Named
  BY TouchedStep DEF Named
<1> QED
  BY <1>5, <1>6 DEF TouchesOnlyWhatItMay

\* A run touches only resources it was given and their parts, and never default
\* or main ones, as long as the listings of their types leave those out.
THEOREM TouchesOnlyWhatItMayHolds ==
  ASSUME MarksAreHidden PROVE Spec => []TouchesOnlyWhatItMay
<1>1. Init => TouchesOnlyWhatItMay
  BY DEF Init, TouchesOnlyWhatItMay
<1>2. IInv /\ TouchesOnlyWhatItMay /\ [Next]_vars => TouchesOnlyWhatItMay'
  BY TouchesStep
<1> QED
  BY <1>1, <1>2, Invariance, PTL DEF Spec

(***************************************************************************)
(* When a run stops.                                                       *)
(***************************************************************************)

\* A step reports a failure only in passing over it, or it ends the run.
LEMMA GiveUpStops ==
  ASSUME IInv, StopsExactlyAtErrors, exit = "running", NEW r \in pending,
         r.targets # {}, NEW result \in Results, GiveUp(r, result)
  PROVE  StopsExactlyAtErrors'
<1>1. /\ cfg' = cfg /\ late' = late /\ cur \in Type /\ RequestOK(r, cur)
      /\ log' = log \cup Entries(r.targets, result)
  BY CurrentOK DEF GiveUp
<1>2. \A o \in Object : Failed(o)' => Failed(o) \/ o \in r.targets
  BY <1>1 DEF Failed, Entries
<1>3. CASE cfg.IgnoreErrors
  BY <1>1, <1>3 DEF GiveUp, Leave, Continue, StopsExactlyAtErrors
<1>4. CASE ~cfg.IgnoreErrors /\ ~(IsForKid(r) /\ Deleter[cur].kidError = "nextItem")
  BY <1>1, <1>4 DEF GiveUp, Leave, Return, StopsExactlyAtErrors
<1>5. CASE ~cfg.IgnoreErrors /\ IsForKid(r) /\ Deleter[cur].kidError = "nextItem"
  <2>1. /\ r.rank \in 1..Len(Deleter[cur].kids)
        /\ \A o \in r.targets : TypeOf[o] = Deleter[cur].kids[r.rank]
    BY <1>1, <1>5, DeleterOf DEF RequestOK, IsForKid
  <2>2. \A o \in r.targets : Swallowed(o)
    BY <1>1, <1>5, <2>1 DEF Swallowed
  <2>3. exit' = exit
    BY <1>5 DEF GiveUp, Leave, NextItem
  <2> QED
    BY <1>1, <1>2, <1>5, <2>2, <2>3 DEF StopsExactlyAtErrors, Swallowed
<1> QED
  BY <1>3, <1>4, <1>5

\* A failure is reported by the step that ends the run, or is passed over.
LEMMA StopsStep ==
  ASSUME IInv, StopsExactlyAtErrors, [Next]_vars
  PROVE  StopsExactlyAtErrors'
<1>1. CASE UNCHANGED <<cfg, log, exit, late>>
  BY <1>1 DEF StopsExactlyAtErrors, Failed, Swallowed
<1>2. ASSUME NEW r \in pending, Succeed(r) PROVE StopsExactlyAtErrors'
  <2>1. UNCHANGED <<cfg, exit, late>> /\ \A o \in Object : Failed(o)' => Failed(o)
    BY <1>2 DEF Succeed, Failed, Entries
  <2> QED
    BY <2>1 DEF StopsExactlyAtErrors, Swallowed
<1>3. ASSUME NEW r \in pending, Blocked(r) \/ Fault(r) \/ Absent(r),
             ~UNCHANGED <<cfg, log, exit, late>>
      PROVE  StopsExactlyAtErrors'
  <2>1. exit = "running" /\ r.targets # {}
    BY <1>3 DEF Blocked, Fault, Absent, Current, IsBlocked
  <2>2. \E result \in Results : GiveUp(r, result)
    BY <1>3 DEF Blocked, Fault, Absent, Retry, Results
  <2> QED
    BY <2>1, <2>2, GiveUpStops
<1>4. CASE ListingFails
  BY <1>4 DEF ListingFails, StopsExactlyAtErrors, Failed, Swallowed
<1>5. CASE FinishRun
  BY <1>5 DEF FinishRun, StopsExactlyAtErrors, Failed, Swallowed, histVars
<1>6. CASE AwaitTermination \/ AwaitNatGateways
  <2>1. cfg' = cfg /\ exit = "running" /\ awaited # {}
    BY <1>6 DEF AwaitTermination, AwaitNatGateways, Waiting
  <2>2. \A o \in awaited : Deleter[TypeOf[o]].waits # "no"
    BY <2>1 DEF IInv, AwaitedOK
  <2>3. \A o \in Object : Failed(o)' => Failed(o) \/ (o \in awaited /\ late')
    <3>1. CASE AwaitTermination
      BY <3>1 DEF AwaitTermination, Failed, Entries
    <3>2. CASE AwaitNatGateways
      <4>1. PICK alive, dead \in SUBSET awaited :
              \/ UNCHANGED log
              \/ /\ log' = log \cup Entries(alive, "failed") \cup Entries(dead, "deleted")
                 /\ alive # {} => late'
        BY <3>2 DEF AwaitNatGateways
      <4> QED
        BY <4>1 DEF Failed, Entries
    <3> QED
      BY <1>6, <3>1, <3>2
  <2>4. exit' = "error" => ~cfg.IgnoreErrors
    BY <1>6, <2>1 DEF AwaitTermination, AwaitNatGateways
  <2>5. ~cfg.IgnoreErrors => \A o \in Object : ~(Failed(o) /\ ~Swallowed(o))
    BY <2>1 DEF StopsExactlyAtErrors
  <2>6. late => late'
    BY <1>6 DEF AwaitTermination, AwaitNatGateways
  <2>7. \A o \in Object : Swallowed(o) \/ (o \in awaited /\ late') => Swallowed(o)'
    BY <2>2, <2>6 DEF Swallowed
  <2>8. \A o \in Object : ~cfg.IgnoreErrors => ~(Failed(o)' /\ ~Swallowed(o)')
    BY <2>3, <2>5, <2>7
  <2> QED
    BY <2>1, <2>4, <2>8 DEF StopsExactlyAtErrors
<1>7. ASSUME NEW r \in pending, AskKids(r) \/ AskKidsFails(r) \/ DryRunRequest(r)
      PROVE  UNCHANGED <<cfg, log, exit, late>>
  BY <1>7 DEF AskKids, AskKidsFails, DryRunRequest, histVars
<1>8. (\E t \in Type : StartType(t)) \/ FinishType \/ ListResources
        => UNCHANGED <<cfg, log, exit, late>>
  BY DEF StartType, FinishType, ListResources, histVars
<1>9. Environment \/ UNCHANGED vars => UNCHANGED <<cfg, log, exit, late>>
  BY DEF Environment, FinishDeletion, Relaunch, OwnerDeletes, vars, runVars, histVars
<1> QED
  BY <1>1, <1>2, <1>3, <1>4, <1>5, <1>6, <1>7, <1>8, <1>9
     DEF Next, Program, Requesting, Terminated

\* Without --ignore-errors a run ends at its first failed deletion that is not
\* passed over; with it, never with an error.
THEOREM StopsExactlyAtErrorsHolds == Spec => []StopsExactlyAtErrors
<1>1. Init => StopsExactlyAtErrors
  BY DEF Init, StopsExactlyAtErrors, Failed
<1>2. IInv /\ StopsExactlyAtErrors /\ [Next]_vars => StopsExactlyAtErrors'
  BY StopsStep
<1> QED
  BY <1>1, <1>2, Invariance, PTL DEF Spec
=============================================================================
