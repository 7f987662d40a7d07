------------------------------- MODULE NatWait -------------------------------
(***************************************************************************)
(* How the deleter of NAT gateways waits for them (deleter/ec2.go): ask    *)
(* for the state of all, in chunks and pages; stop when none is alive,     *)
(* when five minutes have passed or at the first error; else sleep and ask *)
(* again.  Meanwhile AWS deletes the gateways one by one, or never does.   *)
(***************************************************************************)
EXTENDS Naturals, SequencesExt

CONSTANTS
  Gateway,
  Listings,      \* what RequestEC2NatGateways may have listed: sequences
  ChunkSize,     \* gateways in a chunk (200)
  ValuesLimit,   \* most values AWS takes in a filter (200)
  PageSize,      \* most gateways in one answer
  MaxSleeps,     \* sleeps that fit into the five minutes (20)
  Configs        \* the possible IgnoreErrors

\* A chunk is as large as AWS allows: "Can only filter in batches of 200".
ASSUME WaitAssumption ==
  /\ ValuesLimit <= ChunkSize
  /\ Listings \subseteq Seq(Gateway) /\ \A s \in Listings : IsInjective(s)
  /\ ChunkSize \in Nat \ {0} /\ ValuesLimit \in Nat \ {0} /\ PageSize \in Nat \ {0}
  /\ MaxSleeps \in Nat \ {0} /\ Configs \subseteq BOOLEAN

VARIABLES
  ignoreErrors,
  ngws,       \* the gateways waited for
  step,       \* "poll", "request", "page", "split" or "done"
  chunk,      \* the chunk asked for
  unseen,     \* of the current request, not in a page yet
  deleted,    \* deletedNGWs of this poll
  alive,      \* aliveNGWs of this poll
  sleeps,
  expired,    \* TRUE once the five minutes have passed
  failed,     \* TRUE once a request has failed
  result,     \* "nil" or "error"
  log,        \* log entries: <<gateway, result>>
  state       \* of each gateway: "available", "deleting" or "deleted", in AWS

pollVars == <<chunk, unseen, deleted, alive>>
outcomeVars == <<failed, result, log>>
vars == <<ignoreErrors, ngws, step, pollVars, sleeps, expired, outcomeVars, state>>

\* A gateway whose deletion was refused, with IgnoreErrors, is waited for as well.
Init ==
  /\ ignoreErrors \in Configs /\ ngws \in Listings
  /\ step = "poll" /\ chunk = 1 /\ unseen = {} /\ deleted = {} /\ alive = {}
  /\ sleeps = 0 /\ expired = FALSE
  /\ failed = FALSE /\ result = "nil" /\ log = {}
  /\ state \in [Gateway -> IF ignoreErrors THEN {"available", "deleting"} ELSE {"deleting"}]

(***************************************************************************)
(* createNATGatewayParamChunks: the list of ids is not emptied between the *)
(* chunks, so each holds those before it.                                  *)
(***************************************************************************)
CalcChunk(i) == IF i * ChunkSize > Len(ngws) THEN Len(ngws) ELSE i * ChunkSize

Values(i) == ToSet(SubSeq(ngws, 1, CalcChunk(i)))

IsLastChunk(i) == i * ChunkSize >= Len(ngws)

(***************************************************************************)
(* filterDeletedNATGateways                                                *)
(***************************************************************************)
StartPollKeeping ==
  /\ step = "poll"
  /\ chunk' = 1 /\ step' = IF ngws = << >> THEN "split" ELSE "request"
  /\ UNCHANGED <<ignoreErrors, ngws, unseen, deleted, alive, sleeps, expired, outcomeVars,
                 state>>

StartPoll ==
  /\ step = "poll"
  /\ chunk' = 1 /\ deleted' = {} /\ alive' = {}
  /\ step' = IF ngws = << >> THEN "split" ELSE "request"
  /\ UNCHANGED <<ignoreErrors, ngws, unseen, sleeps, expired, outcomeVars, state>>

RequestChunk ==
  /\ step = "request" /\ Cardinality(Values(chunk)) <= ValuesLimit
  /\ unseen' = Values(chunk)
  /\ step' = "page"
  /\ UNCHANGED <<ignoreErrors, ngws, chunk, deleted, alive, sleeps, expired, outcomeVars,
                 state>>

\* splitNATGatewaysByState
IsDeletedOrGoing(g) == state[g] # "available"

IsDeleted(g) == state[g] = "deleted"

AfterFirstPage(more) == IF IsLastChunk(chunk) THEN "split" ELSE "request"

AfterPage(more) ==
  IF more THEN "page" ELSE IF IsLastChunk(chunk) THEN "split" ELSE "request"

RequestPage ==
  /\ step = "page"
  /\ \E page \in SUBSET unseen, more \in BOOLEAN :
       /\ Cardinality(page) <= PageSize /\ page # {}
       /\ more <=> page # unseen
       /\ deleted' = deleted \cup {g \in page : IsDeleted(g)}
       /\ alive' = alive \cup {g \in page : ~IsDeleted(g)}
       /\ unseen' = unseen \ page
       /\ step' = AfterPage(more)
  /\ chunk' = IF step' = "request" THEN chunk + 1 ELSE chunk
  /\ UNCHANGED <<ignoreErrors, ngws, sleeps, expired, outcomeVars, state>>

(***************************************************************************)
(* The end of DeleteResources: log entries for what is in the two lists.   *)
(***************************************************************************)
Verdicts == (alive \X {"failed"}) \cup (deleted \X {"deleted"})

\* Too many values, a throttled request, or any other error.
RequestFails ==
  /\ step \in {"request", "page"}
  /\ failed' = TRUE /\ step' = "done"
  /\ IF ignoreErrors THEN log' = Verdicts /\ UNCHANGED result
     ELSE result' = "error" /\ UNCHANGED log
  /\ UNCHANGED <<ignoreErrors, ngws, pollVars, sleeps, expired, state>>

(***************************************************************************)
(* waitUntilNatGatewaysDeleted                                             *)
(***************************************************************************)
IsOverWhenGone == alive = {}

IsOver == expired \/ alive = {}

StopWaiting ==
  /\ step = "split" /\ IsOver
  /\ step' = "done" /\ log' = Verdicts
  /\ UNCHANGED <<ignoreErrors, ngws, pollVars, sleeps, expired, failed, result, state>>

Sleep ==
  /\ step = "split" /\ ~IsOver
  /\ sleeps' = IF sleeps < MaxSleeps THEN sleeps + 1 ELSE sleeps
  /\ expired' = (sleeps' = MaxSleeps)
  /\ step' = "poll"
  /\ UNCHANGED <<ignoreErrors, ngws, pollVars, outcomeVars, state>>

(***************************************************************************)
(* Time, which passes during requests as well, and AWS.                    *)
(***************************************************************************)
Expire ==
  /\ step # "done" /\ ~expired
  /\ expired' = TRUE
  /\ UNCHANGED <<ignoreErrors, ngws, step, pollVars, sleeps, outcomeVars, state>>

FinishDeletion(g) ==
  /\ state[g] = "deleting"
  /\ state' = [state EXCEPT ![g] = "deleted"]
  /\ UNCHANGED <<ignoreErrors, ngws, step, pollVars, sleeps, expired, outcomeVars>>

Terminated == step = "done" /\ UNCHANGED vars

Program ==
  StartPoll \/ RequestChunk \/ RequestPage \/ RequestFails \/ StopWaiting \/ Sleep

Next == Program \/ Expire \/ (\E g \in Gateway : FinishDeletion(g)) \/ Terminated

Spec == Init /\ [][Next]_vars

\* The process runs and every AWS call returns.
FairSpec == Spec /\ WF_vars(Program)

(***************************************************************************)
(* Correctness                                                             *)
(***************************************************************************)
Waited == ToSet(ngws)

\* A gateway is in one list at most, and in neither until its page has come.
TypeOK ==
  /\ step \in {"poll", "request", "page", "split", "done"}
  /\ chunk \in 1..(Len(ngws) + 1) /\ unseen \subseteq Waited
  /\ alive \cup deleted \subseteq Waited /\ alive \cap deleted = {}
  /\ step \in {"request", "page"} => unseen \cap (alive \cup deleted) = {}
  /\ state \in [Gateway -> {"available", "deleting", "deleted"}]
  /\ sleeps \in 0..MaxSleeps /\ expired \in BOOLEAN /\ failed \in BOOLEAN
  /\ result \in {"nil", "error"} /\ log \subseteq Waited \X {"deleted", "failed"}

\* Unless a request fails, every gateway that was waited for is reported, over all
\* chunks and pages of the last poll, and only once.
EachReportedOnce ==
  step = "done" /\ ~failed =>
    \A g \in Waited : Cardinality({e \in log : e[1] = g}) = 1

\* Whether AWS ever finishes or not, the wait ends.
Ends == <>(step = "done")
=============================================================================
