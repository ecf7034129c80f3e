----------------------------- MODULE MCGateway -----------------------------
(* Instances of Gateway for TLC.  The branches change overlapping sets of   *)
(* variables: one each of their own, one in common, and one that none of    *)
(* them had at the divergent gateway.                                       *)
EXTENDS Gateway

CONSTANTS b1, b2, b3

MCBase == [x |-> 0, y |-> 0, z |-> 0]
MCBranchVars ==
  [b \in Branches |->
     CASE b = b1 -> [x |-> 1, y |-> 0, z |-> 1]
       [] b = b2 -> [x |-> 0, y |-> 2, z |-> 2, fresh |-> 2]
       [] OTHER -> [x |-> 0, y |-> 0, z |-> 0, fresh |-> 3]]

\* Conditions that may hold together.
AllInclusive == [g \in Gateways |-> "inclusive"]
AnyPaths == [g \in Gateways |-> (SUBSET Branches) \ {{}}]

\* A parallel gateway, and an exclusive one with disjoint conditions.
MixedTypes == [g \in Gateways |-> IF g = "g1" THEN "parallel" ELSE "exclusive"]
MixedPaths == [g \in Gateways |-> IF g = "g1" THEN {Branches} ELSE {{b} : b \in Branches}]
=============================================================================
