----------------------------- MODULE SafeDelete -----------------------------
(***************************************************************************)
(* What a run of `grafiti delete' promises to whoever starts it, without   *)
(* deleters, order, requests, retries and waits: it changes only what it   *)
(* may; what it was given is settled one by one, in any order, by the run  *)
(* or by others, and nothing that is settled is taken up again; and the    *)
(* run ends well only when everything is settled, with an error only if it *)
(* was not told to ignore errors, and does nothing afterwards.             *)
(***************************************************************************)
CONSTANTS
  Object,         \* the resources of the account
  MayChange(_),   \* what a run may change that is given a set of resources
  DryRunMayChange \* what a dry run may change

VARIABLES
  given,       \* the resources the run was given
  ignoring,    \* IgnoreErrors
  dry,         \* DryRun
  changed,     \* the resources a request of this run took effect on
  settled,     \* those given that are deleted, reported as failed, or dropped
  outcome      \* "running", "nil" or "error"

vars == <<given, ignoring, dry, changed, settled, outcome>>

Init ==
  /\ given \subseteq Object /\ ignoring \in BOOLEAN /\ dry \in BOOLEAN
  /\ changed = {} /\ settled = {} /\ outcome = "running"

Progress ==
  /\ changed \subseteq changed' /\ settled \subseteq settled'
  /\ changed' \ changed \subseteq MayChange(given) \cap IF dry THEN DryRunMayChange ELSE Object
  /\ settled' \subseteq given
  /\ UNCHANGED <<given, ignoring, dry>>

Work == outcome = "running" /\ UNCHANGED outcome /\ Progress

\* What others delete is settled as well, also after the run.
OthersSettle ==
  /\ settled \subseteq settled' /\ settled' \subseteq given
  /\ UNCHANGED <<given, ignoring, dry, changed, outcome>>

EndWell ==
  /\ outcome = "running" /\ outcome' = "nil"
  /\ dry \/ settled = given
  /\ UNCHANGED <<given, ignoring, dry, changed, settled>>

\* The last request before the error may have taken effect.
EndWithError == outcome = "running" /\ outcome' = "error" /\ ~ignoring /\ Progress

Next == Work \/ OthersSettle \/ EndWell \/ EndWithError

Spec == Init /\ [][Next]_vars
=============================================================================
