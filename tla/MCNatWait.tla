------------------------------ MODULE MCNatWait ------------------------------
(***************************************************************************)
(* Up to three gateways in chunks of two and pages of one: none, one       *)
(* chunk, and the second chunk that AWS refuses.                           *)
(***************************************************************************)
EXTENDS NatWaitInRun

CONSTANTS nat1, nat2, nat3

MCListings == {<< >>, <<nat1>>, <<nat1, nat2>>, <<nat1, nat2, nat3>>}
=============================================================================
