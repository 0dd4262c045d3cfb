------------------------------ MODULE AclStore ------------------------------
(***************************************************************************)
(* The two Firestore collections the per-user access control lives in      *)
(* (acl_roles, acl_users), and the decision logic that is pure over them:  *)
(* frontend/app/admin.py.  The supervisor (agents/.../app/acl.py) reads    *)
(* the same documents.  No state here: AclLedger, AclAdmin, AclSeed and    *)
(* SupervisorAcl extend this module and own the variables.                 *)
(*                                                                         *)
(* A collection is a total function from document id to document, with     *)
(* Absent where there is no document.  Role and Email hold every spelling  *)
(* a request can carry; Lower is strip().lower(), which admin.py applies   *)
(* to the ids it writes and to the caller's email.                         *)
(***************************************************************************)
CONSTANTS
  Role,      \* role names, in any spelling
  Email,     \* user emails, in any spelling
  Grant,     \* what a role's "agents" may list: agent names and "*"
  Lower,     \* the spelling strip().lower() gives
  Slug,      \* the role names _ROLE_RE accepts
  Address,   \* the emails _EMAIL_RE accepts
  Absent     \* no document, or no identity

RoleDoc == [agents : SUBSET Grant, is_admin : BOOLEAN]
UserDoc == [roles : SUBSET Role]
RoleDocs == [Role -> RoleDoc \cup {Absent}]
UserDocs == [Email -> UserDoc \cup {Absent}]

(***************************************************************************)
(* A mutation names a document and the content it gets: Absent deletes.    *)
(***************************************************************************)
RoleOp == [col : {"roles"}, key : Role, doc : RoleDoc \cup {Absent}]
UserOp == [col : {"users"}, key : Email, doc : UserDoc \cup {Absent}]
Op == RoleOp \cup UserOp

ASSUME AbsentAssumption ==
  Absent \notin RoleDoc /\ Absent \notin UserDoc /\ Absent \notin Email

ASSUME LowerAssumption ==
  /\ Lower \in [Role \cup Email -> Role \cup Email]
  /\ \A r \in Role : Lower[r] \in Role
  /\ \A e \in Email : Lower[e] \in Email

-----------------------------------------------------------------------------
AdminRoles(rs) == {r \in Role : rs[r] # Absent /\ rs[r].is_admin}

AdminEmails(rs, us) ==
  {e \in Email : us[e] # Absent /\ us[e].roles \cap AdminRoles(rs) # {}}

\* No identity is never an admin.
IsAdmin(rs, us, caller) ==
  caller # Absent /\ Lower[caller] \in AdminEmails(rs, us)

HasAdmin(rs, us) == AdminEmails(rs, us) # {}

\* The set of agents (or "*") the documents grant a user.
Granted(rs, us, e) ==
  IF us[e] = Absent THEN {}
  ELSE UNION {rs[r].agents : r \in {x \in us[e].roles : rs[x] # Absent}}

-----------------------------------------------------------------------------
\* The checks on the arguments alone: only a put has them.
WellFormed(op) ==
  op.doc # Absent => Lower[op.key] \in (IF op.col = "roles" THEN Slug ELSE Address)

\* The checks against a snapshot: a delete needs its document, a user's roles
\* must exist.
Applicable(op, rs, us) ==
  /\ op.doc = Absent =>
       IF op.col = "roles" THEN rs[Lower[op.key]] # Absent
                           ELSE us[Lower[op.key]] # Absent
  /\ op.col = "users" /\ op.doc # Absent => \A r \in op.doc.roles : rs[r] # Absent

RolesAfter(op, rs) ==
  IF op.col = "roles" THEN [rs EXCEPT ![Lower[op.key]] = op.doc] ELSE rs

UsersAfterAsSpelled(op, us) ==
  IF op.col = "users" THEN [us EXCEPT ![op.key] = op.doc] ELSE us

UsersAfter(op, us) ==
  IF op.col = "users" THEN [us EXCEPT ![Lower[op.key]] = op.doc] ELSE us

KeepsAnAdminBefore(op, rs, us) == HasAdmin(rs, us)

\* _guard_lockout on the snapshot with the mutation applied.
KeepsAnAdmin(op, rs, us) == HasAdmin(RolesAfter(op, rs), UsersAfter(op, us))
=============================================================================
