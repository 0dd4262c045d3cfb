------------------------------ MODULE MCRollout ------------------------------
(***************************************************************************)
(* A small instance of Rollout: one agent that is redeployed and one that  *)
(* is deployed beside it.                                                  *)
(***************************************************************************)
EXTENDS Rollout, TLC

CONSTANTS order, product, o1, o2

Gens == [a \in Agent |-> IF a = order THEN 2 ELSE 1]
OperatorSymmetry == Permutations(Operator)
=============================================================================
