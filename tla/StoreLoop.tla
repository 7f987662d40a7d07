----------------------------- MODULE StoreLoop -----------------------------
(***************************************************************************)
(* What the deleters of S3 buckets and of hosted zones share: the loop of  *)
(* deleteARNs (cmd/grafiti/delete.go) that runs the one and then the       *)
(* other, its DeleteConfig, and the log.                                   *)
(***************************************************************************)
EXTENDS Integers, FiniteSets

CONSTANTS
  Configs,     \* the possible DeleteConfigs
  MaxFaults    \* bound on failed requests and on changes made by others

ASSUME LoopAssumption ==
  /\ Configs \subseteq [DryRun : BOOLEAN, IgnoreErrors : BOOLEAN]
  /\ MaxFaults \in Nat

VARIABLES
  cfg,
  turn,    \* the deleter that runs: "S3Bucket", then "HostedZone", then "none"
  exit,    \* "running", "nil" or "error"
  log,     \* log entries: <<object, result>>
  faults

loopVars == <<cfg, turn, exit, log, faults>>

LoopInit ==
  /\ cfg \in Configs /\ turn = "S3Bucket" /\ exit = "running"
  /\ log = {} /\ faults = 0

IsTurn(t) == exit = "running" /\ turn = t

Disturb == faults < MaxFaults /\ faults' = faults + 1

LogAll(S, result) == log' = log \cup (S \X {result})

LoopTypeOK ==
  /\ cfg \in [DryRun : BOOLEAN, IgnoreErrors : BOOLEAN]
  /\ turn \in {"S3Bucket", "HostedZone", "none"}
  /\ exit \in {"running", "nil", "error"}
  /\ faults \in 0..MaxFaults
=============================================================================
