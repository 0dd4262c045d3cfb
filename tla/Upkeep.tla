-------------------------------- MODULE Upkeep --------------------------------
(***************************************************************************)
(* What running the provisioning tools promises, whatever the tools are: a *)
(* run only ever adds to what is in order, except that it may replace      *)
(* things that are replaced by design.                                     *)
(***************************************************************************)
CONSTANTS
  Resource,    \* what is to be kept in order
  Replaced     \* what a run may put out of order

VARIABLES
  good,        \* the resources that are in order
  busy         \* whether a tool is running

vars == <<good, busy>>

Init == good \subseteq Resource /\ busy = FALSE

Begin == ~ busy /\ busy' = TRUE /\ UNCHANGED good
End == busy /\ busy' = FALSE /\ UNCHANGED good

\* A step of a tool.
Work ==
  /\ busy /\ UNCHANGED busy
  /\ good' \subseteq Resource
  /\ good \ good' \subseteq Replaced

\* A long-running operation gets through.
Settle ==
  /\ UNCHANGED busy
  /\ \E r \in Resource : good' = good \cup {r}

\* Someone else changes the cloud: one resource, with whatever is a part of it.
Damage == ~ busy /\ UNCHANGED busy /\ good' \subseteq good

Next == Begin \/ End \/ Work \/ Settle \/ Damage
Spec == Init /\ [][Next]_vars
=============================================================================
