--------------------------- MODULE DeleteRunIsSafe ---------------------------
(***************************************************************************)
(* DeleteRun implements SafeDelete.  A resource is settled when it is not  *)
(* live, has a log entry of a failure, or was dropped without a request.   *)
(***************************************************************************)
EXTENDS DeleteRun

MayChangeOf(G) ==
  {o \in Object : \E p \in {o, ParentOf[o]} : p \in G /\ ~Protected(p)}

Unchecked == {o \in Object : Deleter[TypeOf[o]].dryRun = "unchecked"}

Settled == {o \in Named : cloud[o] # "live" \/ Failed(o) \/ o \in skipped}

Safe ==
  INSTANCE SafeDelete WITH
    MayChange <- MayChangeOf,
    DryRunMayChange <- Unchecked,
    given <- Named, ignoring <- cfg.IgnoreErrors, dry <- cfg.DryRun,
    changed <- touched, settled <- Settled, outcome <- exit

\* Every run, with all its deleters, requests, retries and waits, and whatever AWS
\* and others do meanwhile, keeps the promise of SafeDelete.
ImplementsSafeDelete == Safe!Spec
=============================================================================
