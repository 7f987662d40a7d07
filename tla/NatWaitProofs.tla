---------------------------- MODULE NatWaitProofs ----------------------------
(***************************************************************************)
(* Proofs about the wait for NAT gateways: each is reported once, and the  *)
(* whole of the polling is one step of DeleteRun.                          *)
(***************************************************************************)
EXTENDS NatWaitInRun, FiniteSetTheorems, TLAPS

(***************************************************************************)
(* The parts of the invariant.                                             *)
(***************************************************************************)
\* Only the first chunk is ever answered: the second holds the first as well,
\* and is too large for a filter.
FirstChunkOnly ==
  /\ step = "request" => /\ Waited # {}
                         /\ chunk = 1 => alive = {} /\ deleted = {}
                         /\ chunk # 1 => ChunkSize < Len(ngws)
  /\ step = "page" => /\ chunk = 1 /\ Waited # {}
                      /\ unseen \cup alive \cup deleted = Values(1)
                      /\ unseen \cap (alive \cup deleted) = {} /\ alive \cap deleted = {}
  /\ step # "page" => unseen = {} \/ step = "done"

\* After the last page every gateway is in a list, and those in the list of
\* the deleted are.
ListsComplete ==
  /\ step = "split" \/ (step = "done" /\ ~failed) => alive \cup deleted = Waited
  /\ \A g \in deleted : state[g] = "deleted"
  /\ alive \cap deleted = {}

\* Nothing is reported before the end, and then what the lists hold.
ReportedAtTheEnd ==
  /\ step # "done" => log = {} /\ ~failed /\ result = "nil"
  /\ step = "done" /\ ~failed => log = Verdicts /\ result = "nil"

WaitInv ==
  /\ TypeOK /\ FirstChunkOnly /\ ListsComplete /\ ReportedAtTheEnd
  /\ ngws \in Listings /\ ignoreErrors \in BOOLEAN

(***************************************************************************)
(* Chunks.                                                                 *)
(***************************************************************************)

\* A chunk that is not the last ends before the list does, and the next one
\* not after it.
LEMMA ChunkBound ==
  ASSUME ngws \in Listings, NEW i \in Nat \ {0}
  PROVE  /\ Len(ngws) \in Nat /\ CalcChunk(i) \in 0..Len(ngws)
         /\ ~IsLastChunk(i) => i + 1 \in 1..Len(ngws) /\ ChunkSize < Len(ngws)
<1>1. ngws \in Seq(Gateway) /\ Len(ngws) \in Nat /\ ChunkSize \in Nat \ {0}
  BY WaitAssumption DEF WaitAssumption
<1>2. i * ChunkSize \in Nat /\ i <= i * ChunkSize /\ ChunkSize <= i * ChunkSize
  <2>1. \A a, b \in Nat \ {0} : a * b \in Nat /\ a <= a * b /\ b <= a * b
    OBVIOUS
  <2> QED
    BY <1>1, <2>1
<1> QED
  BY <1>1, <1>2 DEF CalcChunk, IsLastChunk

\* What a chunk asks for.
LEMMA ValuesOf ==
  ASSUME ngws \in Listings, NEW i \in Nat \ {0}
  PROVE  /\ Values(i) = {ngws[j] : j \in 1..CalcChunk(i)} /\ Values(i) \subseteq Waited
         /\ Waited = {ngws[j] : j \in 1..Len(ngws)} /\ (ngws = << >> <=> Waited = {})
         /\ IsLastChunk(i) => Values(i) = Waited
<1>1. ngws \in Seq(Gateway) /\ Len(ngws) \in Nat
  BY WaitAssumption DEF WaitAssumption
<1>2. CalcChunk(i) \in 0..Len(ngws)
  BY ChunkBound
<1>3. Waited = {ngws[j] : j \in 1..Len(ngws)}
  BY <1>1 DEF Waited, ToSet
<1>4. Values(i) = {ngws[j] : j \in 1..CalcChunk(i)}
  <2> DEFINE s == SubSeq(ngws, 1, CalcChunk(i))
  <2>1. DOMAIN s = 1..CalcChunk(i) /\ \A j \in 1..CalcChunk(i) : s[j] = ngws[j]
    BY <1>1, <1>2
  <2> QED
    BY <2>1 DEF Values, ToSet
<1>5. ngws = << >> <=> Waited = {}
  <2>1. CASE ngws = << >>
    BY <1>3, <2>1
  <2>2. CASE ngws # << >>
    <3>1. 1 \in 1..Len(ngws)
      BY <1>1, <2>2
    <3> QED
      BY <1>3, <2>2, <3>1
  <2> QED
    BY <2>1, <2>2
<1>6. IsLastChunk(i) => Values(i) = Waited
  <2>1. IsLastChunk(i) => CalcChunk(i) = Len(ngws)
    <3>1. i * ChunkSize \in Nat
      BY WaitAssumption DEF WaitAssumption
    <3> QED
      BY <1>1, <3>1 DEF IsLastChunk, CalcChunk
  <2> QED
    BY <1>3, <1>4, <2>1
<1>7. 1..CalcChunk(i) \subseteq 1..Len(ngws)
  BY <1>1, <1>2
<1>8. Values(i) \subseteq Waited
  BY <1>3, <1>4, <1>7
<1> QED
  BY <1>3, <1>4, <1>5, <1>6, <1>8

\* The second chunk, and every later one, is more than AWS takes.
LEMMA SecondChunkIsTooLarge ==
  ASSUME ngws \in Listings, ChunkSize < Len(ngws), NEW i \in Nat, i >= 2
  PROVE  Cardinality(Values(i)) > ValuesLimit
<1>1. /\ ngws \in Seq(Gateway) /\ Len(ngws) \in Nat /\ ChunkSize \in Nat \ {0}
      /\ ValuesLimit \in Nat /\ ValuesLimit <= ChunkSize /\ IsInjective(ngws)
  BY WaitAssumption DEF WaitAssumption
<1>2. CalcChunk(i) \in 0..Len(ngws) /\ Values(i) = {ngws[j] : j \in 1..CalcChunk(i)}
  BY ChunkBound, ValuesOf
<1>3. ChunkSize < CalcChunk(i)
  <2>1. \A a, b \in Nat : a >= 2 /\ b >= 1 => a * b > b /\ a * b \in Nat
    OBVIOUS
  <2>2. i * ChunkSize > ChunkSize /\ i * ChunkSize \in Nat
    BY <1>1, <2>1
  <2> QED
    BY <1>1, <2>2 DEF CalcChunk
<1> DEFINE n == CalcChunk(i)
           f == [j \in 1..n |-> ngws[j]]
<1>4. f \in Bijection(1..n, Values(i))
  <2>1. f \in [1..n -> Values(i)]
    BY <1>2
  <2>2. \A a, b \in 1..n : f[a] = f[b] => a = b
    BY <1>1, <1>2 DEF IsInjective
  <2>3. \A g \in Values(i) : \E j \in 1..n : f[j] = g
    BY <1>2
  <2> QED
    BY <2>1, <2>2, <2>3 DEF Bijection, Injection, Surjection, IsInjective
<1>5. n \in Nat /\ IsFiniteSet(1..n) /\ Cardinality(1..n) = n
  BY <1>2, <1>3, <1>1, FS_Interval
<1>6. Cardinality(Values(i)) = n
  <2>1. ExistsBijection(1..n, Values(i))
    BY <1>4 DEF ExistsBijection
  <2> HIDE DEF n, f
  <2> QED
    BY <1>5, <2>1, FS_Bijection
<1> QED
  BY <1>1, <1>3, <1>5, <1>6

(***************************************************************************)
(* The invariant.                                                          *)
(***************************************************************************)

\* The invariant holds before the first poll.
LEMMA WaitInit == Init => WaitInv
<1> SUFFICES ASSUME Init PROVE WaitInv
  OBVIOUS
<1>1. ngws \in Listings /\ ignoreErrors \in BOOLEAN /\ Len(ngws) \in Nat /\ MaxSleeps \in Nat
  BY WaitAssumption DEF Init, WaitAssumption
<1>2. state \in [Gateway -> {"available", "deleting", "deleted"}]
  BY DEF Init
<1>3. TypeOK
  <2>1. chunk \in 1..(Len(ngws) + 1) /\ sleeps \in 0..MaxSleeps
    BY <1>1 DEF Init
  <2>2. unseen = {} /\ alive = {} /\ deleted = {} /\ log = {} /\ step = "poll"
        /\ expired = FALSE /\ failed = FALSE /\ result = "nil"
    BY DEF Init
  <2> QED
    BY <1>2, <2>1, <2>2 DEF TypeOK
<1> QED
  BY <1>1, <1>3 DEF Init, WaitInv, FirstChunkOnly, ListsComplete, ReportedAtTheEnd

\* A request for a chunk is for the first.
LEMMA RequestIsForFirst ==
  ASSUME WaitInv, RequestChunk
  PROVE  chunk = 1 /\ alive = {} /\ deleted = {} /\ Waited # {}
<1>1. step = "request" /\ Cardinality(Values(chunk)) <= ValuesLimit
  BY DEF RequestChunk
<1>2. ngws \in Listings /\ chunk \in Nat \ {0}
  <2>1. Len(ngws) \in Nat
    BY WaitAssumption DEF WaitInv, WaitAssumption
  <2> QED
    BY <2>1 DEF WaitInv, TypeOK
<1>3. CASE chunk # 1
  <2>1. ChunkSize < Len(ngws) /\ chunk >= 2
    BY <1>1, <1>2, <1>3 DEF WaitInv, FirstChunkOnly
  <2>2. IsFiniteSet(Values(chunk))
    <3>1. IsFiniteSet(1..CalcChunk(chunk))
      BY <1>2, ChunkBound, FS_Interval
    <3> DEFINE T == 1..CalcChunk(chunk)
               f == [j \in T |-> ngws[j]]
    <3>2. f \in Surjection(T, Values(chunk))
      BY <1>2, ValuesOf DEF Surjection
    <3> HIDE DEF T, f
    <3> QED
      BY <3>1, <3>2, FS_Surjection DEF T
  <2>3. Cardinality(Values(chunk)) > ValuesLimit
    BY <1>2, <2>1, SecondChunkIsTooLarge
  <2>4. Cardinality(Values(chunk)) \in Nat /\ ValuesLimit \in Nat
    BY <2>2, FS_CardinalityType, WaitAssumption DEF WaitAssumption
  <2> QED
    BY <1>1, <2>3, <2>4
<1> QED
  BY <1>1, <1>3 DEF WaitInv, FirstChunkOnly

\* Every step keeps the invariant.
LEMMA WaitStep ==
  ASSUME WaitInv, [Next]_vars
  PROVE  WaitInv'
<1> USE DEF WaitInv, outcomeVars, pollVars
<1>1. /\ ngws \in Listings /\ Len(ngws) \in Nat /\ MaxSleeps \in Nat
      /\ chunk \in Nat \ {0} /\ 1 \in Nat \ {0}
  BY WaitAssumption DEF WaitAssumption, TypeOK
<1>2. CASE StartPoll
  <2>1. UNCHANGED <<ngws, ignoreErrors>> /\ Waited' = Waited
    BY <1>2 DEF StartPoll, Waited
  <2>2. step' = "request" => Waited # {}
    BY <1>1, <1>2, ValuesOf DEF StartPoll
  <2>3. step' = "split" => Waited = {}
    BY <1>1, <1>2, ValuesOf DEF StartPoll
  <2>4. TypeOK'
    BY <1>1, <1>2, <2>1 DEF StartPoll, TypeOK
  <2> QED
    BY <1>2, <2>1, <2>2, <2>3, <2>4
       DEF StartPoll, FirstChunkOnly, ListsComplete, ReportedAtTheEnd
<1>3. CASE RequestChunk
  <2>1. chunk = 1 /\ alive = {} /\ deleted = {} /\ Waited # {}
    BY <1>3, RequestIsForFirst
  <2>2. UNCHANGED <<ngws, ignoreErrors>> /\ Waited' = Waited /\ Values(1)' = Values(1)
    BY <1>3 DEF RequestChunk, Waited, Values, CalcChunk
  <2>3. unseen' = Values(1) /\ unseen' \subseteq Waited
    BY <1>1, <1>3, <2>1, ValuesOf DEF RequestChunk
  <2>4. TypeOK'
    BY <1>1, <1>3, <2>1, <2>2, <2>3 DEF RequestChunk, TypeOK
  <2> QED
    BY <1>3, <2>1, <2>2, <2>3, <2>4
       DEF RequestChunk, FirstChunkOnly, ListsComplete, ReportedAtTheEnd
<1>4. CASE RequestPage
  <2>1. PICK page \in SUBSET unseen, more \in BOOLEAN :
          /\ more <=> page # unseen
          /\ deleted' = deleted \cup {g \in page : IsDeleted(g)}
          /\ alive' = alive \cup {g \in page : ~IsDeleted(g)}
          /\ unseen' = unseen \ page
          /\ step' = AfterPage(more)
    BY <1>4 DEF RequestPage
  <2>2. /\ step = "page" /\ chunk = 1 /\ Waited # {} /\ UNCHANGED <<ngws, ignoreErrors>>
        /\ unseen \cup alive \cup deleted = Values(1)
        /\ unseen \cap (alive \cup deleted) = {} /\ alive \cap deleted = {}
        /\ UNCHANGED <<sleeps, expired, failed, result, log, state>>
        /\ chunk' = IF step' = "request" THEN chunk + 1 ELSE chunk
    BY <1>4 DEF RequestPage, FirstChunkOnly
  <2>3. Waited' = Waited /\ Values(1)' = Values(1)
    BY <2>2 DEF Waited, Values, CalcChunk
  <2>4. /\ unseen' \cup alive' \cup deleted' = Values(1)
        /\ unseen' \cap (alive' \cup deleted') = {} /\ alive' \cap deleted' = {}
    BY <2>1, <2>2
  <2>5. Values(1) \subseteq Waited /\ (IsLastChunk(1) => Values(1) = Waited)
    BY <1>1, ValuesOf
  <2>6. \A g \in deleted' : state'[g] = "deleted"
    BY <2>1, <2>2 DEF IsDeleted, ListsComplete
  <2>7. CASE more
    <3>1. step' = "page" /\ chunk' = 1
      BY <2>1, <2>2, <2>7 DEF AfterPage
    <3>2. TypeOK'
      BY <1>1, <2>2, <2>3, <2>4, <2>5, <3>1 DEF TypeOK
    <3> QED
      BY <1>1, <2>2, <2>3, <2>4, <2>6, <3>1, <3>2
         DEF FirstChunkOnly, ListsComplete, ReportedAtTheEnd
  <2>8. CASE ~more /\ IsLastChunk(1)
    <3>1. step' = "split" /\ chunk' = 1 /\ unseen' = {} /\ alive' \cup deleted' = Waited
      BY <2>1, <2>2, <2>4, <2>5, <2>8 DEF AfterPage
    <3>2. TypeOK'
      BY <1>1, <2>2, <2>3, <2>4, <2>5, <3>1 DEF TypeOK
    <3> QED
      BY <1>1, <2>2, <2>3, <2>4, <2>6, <3>1, <3>2
         DEF FirstChunkOnly, ListsComplete, ReportedAtTheEnd
  <2>9. CASE ~more /\ ~IsLastChunk(1)
    <3>1. step' = "request" /\ chunk' = 2 /\ unseen' = {}
      BY <2>1, <2>2, <2>9 DEF AfterPage
    <3>2. 2 \in 1..Len(ngws) /\ ChunkSize < Len(ngws)
      BY <1>1, <2>9, ChunkBound
    <3>3. TypeOK'
      BY <1>1, <2>2, <2>3, <2>4, <2>5, <3>1, <3>2 DEF TypeOK
    <3> QED
      BY <1>1, <2>2, <2>3, <2>4, <2>6, <3>1, <3>2, <3>3
         DEF FirstChunkOnly, ListsComplete, ReportedAtTheEnd
  <2> QED
    BY <2>7, <2>8, <2>9
<1>5. CASE RequestFails
  <2>1. UNCHANGED <<ngws, ignoreErrors>> /\ Waited' = Waited /\ step' = "done" /\ failed'
    BY <1>5 DEF RequestFails, Waited
  <2>2. log' \subseteq Waited \X {"deleted", "failed"} /\ result' \in {"nil", "error"}
    BY <1>5 DEF RequestFails, Verdicts, TypeOK
  <2>3. TypeOK'
    BY <1>1, <1>5, <2>1, <2>2 DEF RequestFails, TypeOK
  <2> QED
    BY <1>5, <2>1, <2>3 DEF RequestFails, FirstChunkOnly, ListsComplete, ReportedAtTheEnd
<1>6. CASE StopWaiting
  <2>1. UNCHANGED <<ngws, ignoreErrors>> /\ Waited' = Waited /\ step' = "done"
        /\ UNCHANGED <<alive, deleted, failed>> /\ Verdicts' = Verdicts
    BY <1>6 DEF StopWaiting, Waited, Verdicts
  <2>2. log' \subseteq Waited \X {"deleted", "failed"}
    BY <1>6 DEF StopWaiting, Verdicts, TypeOK
  <2>3. TypeOK'
    BY <1>1, <1>6, <2>1, <2>2 DEF StopWaiting, TypeOK
  <2> QED
    BY <1>6, <2>1, <2>3 DEF StopWaiting, FirstChunkOnly, ListsComplete, ReportedAtTheEnd
<1>7. CASE Sleep
  <2>1. UNCHANGED <<ngws, ignoreErrors>> /\ Waited' = Waited
    BY <1>7 DEF Sleep, Waited
  <2>2. sleeps' \in 0..MaxSleeps /\ expired' \in BOOLEAN
    BY <1>1, <1>7 DEF Sleep, TypeOK
  <2>3. TypeOK'
    BY <1>1, <1>7, <2>1, <2>2 DEF Sleep, TypeOK
  <2> QED
    BY <1>7, <2>1, <2>3 DEF Sleep, FirstChunkOnly, ListsComplete, ReportedAtTheEnd
<1>8. CASE /\ UNCHANGED <<ignoreErrors, ngws, step, pollVars, sleeps, outcomeVars>>
           /\ expired' \in BOOLEAN
           /\ (\E g \in Gateway : FinishDeletion(g)) \/ UNCHANGED state
  <2>1. Waited' = Waited /\ Values(1)' = Values(1) /\ Verdicts' = Verdicts
    BY <1>8 DEF Waited, Values, CalcChunk, Verdicts
  <2>2. /\ state' \in [Gateway -> {"available", "deleting", "deleted"}]
        /\ \A g \in Gateway : state[g] = "deleted" => state'[g] = "deleted"
    BY <1>8 DEF FinishDeletion, TypeOK
  <2>3. Waited \subseteq Gateway
    <3>1. ngws \in Seq(Gateway) /\ Waited = {ngws[j] : j \in 1..Len(ngws)}
      BY <1>1, ValuesOf, WaitAssumption DEF WaitAssumption
    <3> QED
      BY <3>1
  <2>4. TypeOK'
    BY <1>1, <1>8, <2>1, <2>2 DEF TypeOK
  <2>5. deleted \subseteq Gateway
    BY <2>3 DEF TypeOK
  <2>6. ListsComplete'
    BY <1>8, <2>1, <2>2, <2>5 DEF ListsComplete
  <2> QED
    BY <1>8, <2>1, <2>4, <2>6 DEF FirstChunkOnly, ReportedAtTheEnd
<1>9. CASE Expire \/ (\E g \in Gateway : FinishDeletion(g)) \/ Terminated \/ UNCHANGED vars
  <2>1. UNCHANGED <<ignoreErrors, ngws, step, pollVars, sleeps, outcomeVars>>
        /\ expired' \in BOOLEAN
    BY <1>9 DEF Expire, FinishDeletion, Terminated, vars, TypeOK
  <2>2. (\E g \in Gateway : FinishDeletion(g)) \/ UNCHANGED state
    BY <1>9 DEF Expire, Terminated, vars
  <2> QED
    BY <1>8, <2>1, <2>2
<1> QED
  BY <1>2, <1>3, <1>4, <1>5, <1>6, <1>7, <1>9 DEF Next, Program

(***************************************************************************)
(* The theorems.                                                           *)
(***************************************************************************)

\* What filterDeletedNATGateways has collected is complete when it is used:
\* the inductive invariant.
THEOREM WaitInvariant == Spec => []WaitInv
BY WaitInit, WaitStep, PTL DEF Spec

\* A gateway is in one list at most, and in neither until its page has come.
THEOREM WaitTypes == Spec => []TypeOK
<1>1. WaitInv => TypeOK
  BY DEF WaitInv
<1> QED
  BY WaitInvariant, <1>1, PTL

\* Unless a request fails, the wait reports every gateway, and only once.
THEOREM EachReportedOnceHolds == Spec => []EachReportedOnce
<1>1. WaitInv => EachReportedOnce
  <2> SUFFICES ASSUME WaitInv, step = "done", ~failed, NEW g \in Waited
               PROVE  Cardinality({e \in log : e[1] = g}) = 1
    BY DEF EachReportedOnce
  <2>1. /\ log = (alive \X {"failed"}) \cup (deleted \X {"deleted"})
        /\ alive \cup deleted = Waited /\ alive \cap deleted = {}
    BY DEF WaitInv, ReportedAtTheEnd, ListsComplete, Verdicts
  <2>2. CASE g \in alive
    <3>1. {e \in log : e[1] = g} = {<<g, "failed">>}
      BY <2>1, <2>2
    <3> QED
      BY <3>1, FS_Singleton
  <2>3. CASE g \in deleted
    <3>1. {e \in log : e[1] = g} = {<<g, "deleted">>}
      BY <2>1, <2>3
    <3> QED
      BY <3>1, FS_Singleton
  <2> QED
    BY <2>1, <2>2, <2>3
<1> QED
  BY WaitInvariant, <1>1, PTL

(***************************************************************************)
(* The refinement.                                                         *)
(***************************************************************************)

\* NAT gateways are waited for by polling.
LEMMA GatewaysArePolled ==
  Table!InitResourceDeleter[NatType].waits = "polled"
<1>1. Table!InitResourceDeleter[NatType] = Table!NatGatewayDeleter
  BY DEF Table!InitResourceDeleter, NatType
<1> QED
  BY <1>1 DEF Table!NatGatewayDeleter, Table!DeletesListed, Table!DeletesNames

\* A step that changes neither the outcome nor a gateway changes nothing of the run.
LEMMA PollingIsInvisible ==
  ASSUME UNCHANGED <<ignoreErrors, ngws, outcomeVars, state>>,
         step = "done" <=> step' = "done",
         step = "done" => UNCHANGED alive
  PROVE  UNCHANGED Run!vars
<1>1. Waited' = Waited /\ \A g \in Gateway : CloudState(g)' = CloudState(g)
  BY DEF Waited, CloudState
<1> QED
  BY <1>1 DEF Run!vars, Run!runVars, Run!histVars, outcomeVars

\* The states of gateways that are deleted are gone.
LEMMA StatesInCloud ==
  ASSUME NEW g \in Gateway, state \in [Gateway -> {"available", "deleting", "deleted"}]
  PROVE  /\ CloudState(g) \in {"live", "going"} <=> state[g] # "deleted"
         /\ state[g] = "deleting" => CloudState(g) = "going"
         /\ state[g] = "deleted" => CloudState(g) = "gone"
BY DEF CloudState

\* The end of the wait is AwaitNatGateways, if there was anything to wait for.
LEMMA EndIsAwait ==
  ASSUME WaitInv, WaitInv', Waited # {}, step # "done", step' = "done",
         UNCHANGED <<ignoreErrors, ngws, alive, deleted, state>>,
         \/ /\ ~failed' /\ log' = Verdicts /\ result' = "nil" /\ alive \cup deleted = Waited
         \/ /\ failed'
            /\ IF ignoreErrors THEN log' = Verdicts /\ UNCHANGED result
               ELSE result' = "error" /\ UNCHANGED log
  PROVE  Run!AwaitNatGateways
<1> USE DEF WaitInv
<1>1. /\ Waited' = Waited /\ \A g \in Gateway : CloudState(g)' = CloudState(g)
      /\ Waited \subseteq Gateway
  <2>1. ngws \in Seq(Gateway) /\ Waited = {ngws[j] : j \in 1..Len(ngws)}
    BY ValuesOf, WaitAssumption, 1 \in Nat \ {0} DEF WaitAssumption
  <2> QED
    BY <2>1 DEF Waited, CloudState
<1>2. ~failed /\ result = "nil" /\ log = {}
  BY DEF ReportedAtTheEnd
<1>3. Run!Waiting("polled")
  <2>1. NatType # NoObject
    BY DEF NatType, NoObject
  <2>2. [t \in {NatType} |-> Table!InitResourceDeleter[t]][NatType].waits = "polled"
    BY GatewaysArePolled
  <2> QED
    BY <1>1, <1>2, <2>1, <2>2 DEF Run!Waiting
<1>4. alive \in SUBSET Waited /\ deleted \in SUBSET Waited /\ alive \cap deleted = {}
  BY DEF TypeOK
<1>5. \A g \in deleted : [h \in Gateway |-> CloudState(h)][g] \notin {"live", "going"}
  BY <1>1, <1>4, StatesInCloud DEF ListsComplete, TypeOK
<1>6. Verdicts = log \cup (alive \X {"failed"}) \cup (deleted \X {"deleted"})
  BY <1>2 DEF Verdicts
<1>7. CASE ~failed' /\ log' = Verdicts /\ result' = "nil" /\ alive \cup deleted = Waited
  <2>1. (step = "done" /\ (failed \/ alive # {}))' = (FALSE \/ alive # {})
    BY <1>7
  <2> QED
    BY <1>2, <1>3, <1>4, <1>5, <1>6, <1>7
       DEF Run!AwaitNatGateways, Run!Exists, Run!Entries
<1>8. CASE failed'
  <2>1. CASE ignoreErrors
    <3>1. /\ log' = log \cup (alive \X {"failed"}) \cup (deleted \X {"deleted"})
          /\ UNCHANGED (IF result = "error" THEN "error" ELSE "running")
      BY <1>2, <1>6, <1>8, <2>1
    <3>2. /\ (IF failed THEN 1 ELSE 0) < 1
          /\ (IF failed THEN 1 ELSE 0)' = (IF failed THEN 1 ELSE 0) + 1
          /\ (step = "done" /\ (failed \/ alive # {}))' = TRUE
      BY <1>2, <1>8
    <3>3. [DryRun |-> FALSE, IgnoreErrors |-> ignoreErrors].IgnoreErrors
      BY <2>1
    <3>4. alive \in SUBSET (IF step = "done" THEN {} ELSE Waited)
          /\ deleted \in SUBSET (IF step = "done" THEN {} ELSE Waited)
      BY <1>4
    <3> QED
      BY <1>3, <1>4, <1>5, <3>1, <3>2, <3>3, <3>4
         DEF Run!AwaitNatGateways, Run!Exists, Run!Entries
  <2>2. CASE ~ignoreErrors
    <3>1. result' = "error" /\ UNCHANGED log
      BY <1>8, <2>2
    <3> QED
      BY <1>2, <1>3, <1>4, <1>5, <1>8, <2>2, <3>1
         DEF Run!AwaitNatGateways, Run!Exists, Run!Entries
  <2> QED
    BY <2>1, <2>2
<1> QED
  BY <1>7, <1>8

\* AWS deletes a gateway in the run when it does here.
LEMMA DeletionIsDeletion ==
  ASSUME WaitInv, NEW g \in Gateway, FinishDeletion(g)
  PROVE  Run!FinishDeletion(g)
<1> USE DEF WaitInv
<1>1. /\ state \in [Gateway -> {"available", "deleting", "deleted"}]
      /\ state' \in [Gateway -> {"available", "deleting", "deleted"}]
      /\ state[g] = "deleting" /\ state'[g] = "deleted"
      /\ \A h \in Gateway \ {g} : state'[h] = state[h]
      /\ UNCHANGED <<ignoreErrors, ngws, step, alive, failed, result, log>>
  BY DEF FinishDeletion, TypeOK, pollVars, outcomeVars
<1>2. /\ CloudState(g) = "going" /\ CloudState(g)' = "gone"
      /\ \A h \in Gateway \ {g} : CloudState(h)' = CloudState(h)
  BY <1>1 DEF CloudState
<1>3. [h \in Gateway |-> CloudState(h)]' = [[h \in Gateway |-> CloudState(h)] EXCEPT ![g] = "gone"]
  BY <1>2
<1>4. Waited' = Waited /\ {h \in Waited : state[h] # "available"}' = {h \in Waited : state[h] # "available"}
  <2>1. Waited \subseteq Gateway /\ Waited' = Waited
    <3>1. ngws \in Seq(Gateway) /\ Waited = {ngws[j] : j \in 1..Len(ngws)}
      BY ValuesOf, WaitAssumption, 1 \in Nat \ {0} DEF WaitAssumption
    <3> QED
      BY <1>1, <3>1 DEF Waited
  <2> QED
    BY <1>1, <2>1
<1>5. OnGateways({})[g] = {}
  BY DEF OnGateways
<1> QED
  BY <1>1, <1>2, <1>3, <1>4, <1>5
     DEF Run!FinishDeletion, Run!runVars, Run!histVars

\* waitUntilNatGatewaysDeleted, over all polls, chunks and pages, does what
\* AwaitNatGateways of DeleteRun does in one step, and nothing else.
THEOREM ImplementsAwaitNatGatewaysHolds == Spec => ImplementsAwaitNatGateways
<1>1. ASSUME WaitInv, WaitInv', [Next]_vars
      PROVE  [ \/ Run!AwaitNatGateways
               \/ \E g \in Gateway : Run!FinishDeletion(g) ]_(Run!vars)
  <2>1. CASE /\ UNCHANGED <<ignoreErrors, ngws, outcomeVars, state>> /\ (step = "done" <=> step' = "done")
             /\ (step = "done" => UNCHANGED alive)
    BY <2>1, PollingIsInvisible
  <2>2. CASE StartPoll \/ RequestChunk \/ RequestPage \/ Sleep
    <3>1. UNCHANGED <<ignoreErrors, ngws, outcomeVars, state>> /\ step # "done" /\ step' # "done"
      BY <2>2 DEF StartPoll, RequestChunk, RequestPage, AfterPage, Sleep
    <3> QED
      BY <2>1, <3>1
  <2>3. CASE Expire \/ Terminated \/ UNCHANGED vars
    BY <2>1, <2>3 DEF Expire, Terminated, vars, pollVars
  <2>4. CASE RequestFails
    <3>1. Waited # {}
      BY <1>1, <2>4 DEF RequestFails, WaitInv, FirstChunkOnly
    <3>2. /\ step # "done" /\ step' = "done" /\ failed'
          /\ UNCHANGED <<ignoreErrors, ngws, alive, deleted, state>>
          /\ IF ignoreErrors THEN log' = Verdicts /\ UNCHANGED result
             ELSE result' = "error" /\ UNCHANGED log
      BY <2>4 DEF RequestFails, pollVars
    <3> QED
      BY <1>1, <3>1, <3>2, EndIsAwait
  <2>5. CASE StopWaiting
    <3>1. /\ step = "split" /\ step' = "done" /\ log' = Verdicts
          /\ UNCHANGED <<ignoreErrors, ngws, alive, deleted, failed, result, state>>
      BY <2>5 DEF StopWaiting, pollVars
    <3>2. ~failed /\ result = "nil" /\ log = {} /\ alive \cup deleted = Waited
      BY <1>1, <3>1 DEF WaitInv, ReportedAtTheEnd, ListsComplete
    <3>3. CASE Waited # {}
      BY <1>1, <3>1, <3>2, <3>3, EndIsAwait
    <3>4. CASE Waited = {}
      <4>1. alive = {} /\ deleted = {} /\ Verdicts = {}
        BY <3>2, <3>4 DEF Verdicts
      <4>2. Waited' = Waited /\ \A g \in Gateway : CloudState(g)' = CloudState(g)
        BY <3>1 DEF Waited, CloudState
      <4>3. UNCHANGED Run!vars
        BY <3>1, <3>2, <3>4, <4>1, <4>2 DEF Run!vars, Run!runVars, Run!histVars
      <4> QED
        BY <4>3
    <3> QED
      BY <3>3, <3>4
  <2>6. ASSUME NEW g \in Gateway, FinishDeletion(g)
        PROVE  Run!FinishDeletion(g)
    BY <1>1, <2>6, DeletionIsDeletion
  <2> QED
    BY <1>1, <2>2, <2>3, <2>4, <2>5, <2>6 DEF Next, Program
<1> QED
  BY WaitInvariant, <1>1, PTL DEF Spec, ImplementsAwaitNatGateways
=============================================================================
