---------------------------- MODULE NatWaitInRun ----------------------------
(***************************************************************************)
(* DeleteRun takes the wait for NAT gateways for one step,                 *)
(* AwaitNatGateways.  Here the polling of NatWait is shown to be such a    *)
(* step, for an account of nothing but these gateways: a DeleteRun whose   *)
(* deleter has made its requests and has only to wait.                     *)
(***************************************************************************)
EXTENDS NatWait

Table == INSTANCE Deleters

NoObject == "none"
NatType == "NatGateway"
OnGateways(x) == [g \in Gateway |-> x]

RunConfigs == [DryRun : {FALSE}, IgnoreErrors : Configs]

CloudState(g) ==
  CASE state[g] = "available" -> "live"
    [] state[g] = "deleting"  -> "going"
    [] state[g] = "deleted"   -> "gone"

Run ==
  INSTANCE DeleteRun WITH
    Type <- {NatType}, Object <- Gateway, None <- NoObject,
    TypeOf <- OnGateways(NatType), ParentOf <- OnGateways(NoObject),
    Marks <- OnGateways({}), Blockers <- OnGateways({}), Cascade <- OnGateways({}),
    Replaces <- OnGateways(NoObject), Async <- {NatType}, Unawaited <- {},
    Retryable <- {},
    Deleter <- [t \in {NatType} |-> Table!InitResourceDeleter[t]],
    DelOrder <- <<NatType>>, ResMaps <- {}, Configs <- RunConfigs,
    NumMaxRetries <- 0, MaxFaults <- 1,
    cfg <- [DryRun |-> FALSE, IgnoreErrors |-> ignoreErrors],
    names <- [t \in {NatType} |-> Waited \X {1}],
    todo <- {}, cur <- NatType, listed <- TRUE, pending <- {},
    item <- <<NoObject, 1>>, attempt <- 0,
    awaited <- IF step = "done" THEN {} ELSE Waited,
    exit <- IF result = "error" THEN "error" ELSE "running",
    cloud <- [g \in Gateway |-> CloudState(g)],
    touched <- {g \in Waited : state[g] # "available"},
    skipped <- Gateway \ Waited,
    faults <- IF failed THEN 1 ELSE 0,
    late <- step = "done" /\ (failed \/ alive # {}),
    heldUp <- {}

\* waitUntilNatGatewaysDeleted, with all its polls, chunks and pages, does what
\* AwaitNatGateways promises and nothing else: it reports no gateway as deleted
\* that is not gone, leaves none out unless a request fails, and returns an error
\* only to a run that stops at errors.
ImplementsAwaitNatGateways ==
  [][\/ Run!AwaitNatGateways
     \/ \E g \in Gateway : Run!FinishDeletion(g)]_(Run!vars)
=============================================================================
