----------------------------- MODULE SumService -----------------------------
(***************************************************************************)
(* What all_reduce promises to the nodes of a cluster that average their   *)
(* weights or gradients ("This implements the allreduce function of MPI",  *)
(* allreduce.h:6).  In the c-th call every node brings a vector of         *)
(* Calls[c] floats; when all have called, one vector of sums is agreed on, *)
(* and every node gets exactly that one: not a sum of the same numbers     *)
(* added up in another order, which in floating point is another number.   *)
(*                                                                         *)
(* AllReduce implements this specification.                                *)
(***************************************************************************)
EXTENDS Naturals, Sequences, Bags

CONSTANTS
  Node,       \* the nodes of the cluster
  Calls       \* the number of floats of each call

VARIABLES
  entered,    \* how many calls each node has begun
  agreed,     \* the vector of sums of each call decided so far
  results     \* what the calls of each node have returned

vars == <<entered, agreed, results>>

(* Each node's number is in the sum, and once.                             *)
IsSum(vector, c) ==
  /\ Len(vector) = Calls[c]
  /\ \A e \in 1..Calls[c] :
       vector[e].terms = SetToBag({<<n, c, e>> : n \in Node})

Init ==
  /\ entered = [n \in Node |-> 0]
  /\ agreed = <<>>
  /\ results = [n \in Node |-> <<>>]

Enter(n) ==
  /\ entered[n] = Len(results[n])
  /\ entered[n] < Len(Calls)
  /\ entered' = [entered EXCEPT ![n] = @ + 1]
  /\ UNCHANGED <<agreed, results>>

(* The sum is there only when every node has brought its part.             *)
Agree ==
  LET c == Len(agreed) + 1 IN
    /\ \A n \in Node : entered[n] >= c
    /\ Len(agreed') = c
    /\ SubSeq(agreed', 1, c - 1) = agreed
    /\ IsSum(agreed'[c], c)
    /\ UNCHANGED <<entered, results>>

Return(n) ==
  /\ entered[n] = Len(results[n]) + 1
  /\ entered[n] <= Len(agreed)
  /\ results' = [results EXCEPT ![n] = Append(@, agreed[entered[n]])]
  /\ UNCHANGED <<entered, agreed>>

Next == Agree \/ \E n \in Node : Enter(n) \/ Return(n)

Spec == Init /\ [][Next]_vars
=============================================================================
