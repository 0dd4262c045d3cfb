-------------------------- MODULE MCSubAgentRefresh --------------------------
(***************************************************************************)
(* Small instances of SubAgentRefresh: all turns on the worker's one loop, *)
(* or one of them on a loop of its own.                                    *)
(***************************************************************************)
EXTENDS SubAgentRefresh, TLC

CONSTANTS t1, t2, t3, l1, l2

OneLoop == [t \in Turn |-> l1]
TwoLoops == [t \in Turn |-> IF t = t3 THEN l2 ELSE l1]

\* Turns on one loop are interchangeable.
LoopSymmetry == Permutations({t1, t2})
=============================================================================
