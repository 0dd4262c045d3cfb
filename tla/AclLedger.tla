----------------------------- MODULE AclLedger ------------------------------
(***************************************************************************)
(* What the admin API promises, with every request in one step: a caller   *)
(* who is an admin now changes one document, and never to a store without  *)
(* an admin user.  AclAdmin is the detailed specification.                 *)
(***************************************************************************)
EXTENDS AclStore

VARIABLES roles, users

ledgerVars == <<roles, users>>

LedgerInit ==
  /\ roles \in RoleDocs
  /\ users \in UserDocs
  /\ HasAdmin(roles, users)

\* One granted request, check and write together.
Mutate(caller, op) ==
  /\ IsAdmin(roles, users, caller)
  /\ WellFormed(op)
  /\ Applicable(op, roles, users)
  /\ KeepsAnAdmin(op, roles, users)
  /\ roles' = RolesAfter(op, roles)
  /\ users' = UsersAfter(op, users)

LedgerNext == \E caller \in Email \cup {Absent}, op \in Op : Mutate(caller, op)

LedgerSpec == LedgerInit /\ [][LedgerNext]_ledgerVars
=============================================================================
