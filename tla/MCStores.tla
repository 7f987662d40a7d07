------------------------------ MODULE MCStores ------------------------------
(***************************************************************************)
(* Two buckets of up to three objects, two of which fit into a page and    *)
(* into a request; a private and a public zone that are to be deleted, and *)
(* a public zone that is not.  One name is in all three.                   *)
(***************************************************************************)
EXTENDS Stores

CONSTANTS bucket1, bucket2,
          inner, outer, other,     \* zones
          innerX, outerX, otherX,  \* record sets with the name "x"
          otherY,                  \* another name
          outerNS                  \* a delegation

MCZoneOf ==
  [r \in Record |->
     CASE r = innerX -> inner
       [] r \in {outerX, outerNS} -> outer
       [] OTHER -> other]

MCNameOf ==
  [r \in Record |->
     CASE r = otherY -> "y"
       [] r = outerNS -> "ns"
       [] OTHER -> "x"]

\* Nothing, one object, a full page, and more than a page.
MCContents ==
  {[b \in Bucket |-> IF b = bucket1 THEN K ELSE {1}] : K \in {{}, {1}, {1, 2}, {1, 2, 3}}}

MCRecords == {R \in SUBSET Record : otherY \in R}

AllConfigs == [DryRun : BOOLEAN, IgnoreErrors : BOOLEAN]
=============================================================================
