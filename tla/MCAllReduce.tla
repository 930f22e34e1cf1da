---------------------------- MODULE MCAllReduce ----------------------------
(***************************************************************************)
(* Small instances of AllReduce.                                           *)
(***************************************************************************)
EXTENDS AllReduceInv

CONSTANTS n1, n2, n3, n4

(* Three nodes: a root with two children, and a chain.                     *)
Fork  == [n \in Node |-> IF n = n1 THEN None ELSE n1]
Chain == [n \in Node |-> CASE n = n1 -> None [] n = n2 -> n1 [] n = n3 -> n2]

(* Four nodes: an inner node with two children.                            *)
Stem  == [n \in Node |-> CASE n = n1 -> None [] n = n2 -> n1 [] OTHER -> n2]

BothTrees == {Fork, Chain}
OneFork   == {Fork}
OneStem   == {Stem}

(* accumulate_avg: the number of nodes, then the weights.                  *)
AverageCalls == <<1, 2>>
WeightCalls  == <<2>>

(* More bytes than an int counts: IntMax is 7.                             *)
WideCalls    == <<4>>
=============================================================================
