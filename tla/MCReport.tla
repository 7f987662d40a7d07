------------------------------ MODULE MCReport ------------------------------
(***************************************************************************)
(* A run over a NAT gateway and its address.                               *)
(***************************************************************************)
EXTENDS Report

Table == INSTANCE Deleters
MCDeleter == Table!InitResourceDeleter
MCDelOrder == Table!DeleteOrder
MCType == DOMAIN MCDeleter

MCTypeOf == [ngw |-> "NatGateway", eip |-> "EIP"]
MCObject == DOMAIN MCTypeOf
NoParent == [o \in MCObject |-> None]
NoObjects == [o \in MCObject |-> {}]
MCBlockers == [ngw |-> {}, eip |-> {"ngw"}]
MCResMaps == {[t \in MCType |-> {o \in MCObject : MCTypeOf[o] = t} \X {1}]}
MCConfigs == {[DryRun |-> FALSE, IgnoreErrors |-> TRUE]}
=============================================================================
