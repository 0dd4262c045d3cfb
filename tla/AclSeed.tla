------------------------------- MODULE AclSeed -------------------------------
(***************************************************************************)
(* Seeding the ACL store from runtime-manifest.yaml while administrators   *)
(* use the BFF: _apply_acl of agents/provision/provision_agents.py beside  *)
(* the ledger of AclLedger.                                                *)
(*                                                                         *)
(* A run takes the seed roles first, then the seed users: it GETs a        *)
(* document, decides, and PATCHes it, with no precondition on the update.  *)
(* The operator may kill it, and any HTTP error ends it; the cure is to    *)
(* run it again.  A database that does not exist yet is an empty store: it *)
(* has no admin, so the API changes nothing there.                         *)
(***************************************************************************)
EXTENDS AclLedger

CONSTANTS
  SeedRoles,   \* the manifest's acl.roles, name -> document
  SeedUsers,   \* the manifest's acl.users, email -> set of roles
  Ops,         \* what administrators change meanwhile
  Stores       \* the stores a behaviour may start from, as [roles, users]

ASSUME SeedAssumption ==
  /\ \E D \in SUBSET Role : SeedRoles \in [D -> RoleDoc]
  /\ \E D \in SUBSET Email : SeedUsers \in [D -> SUBSET Role]
  /\ Ops \subseteq Op
  /\ \A s \in Stores : s.roles \in RoleDocs /\ s.users \in UserDocs
  /\ Absent \notin Role

VARIABLES
  spc,     \* "off" (never run, or killed), "roles", "users", "done"
  left,    \* the manifest entries this phase has still to handle
  target,  \* the document it has read and not yet decided about, or Absent
  live,    \* what it has read
  quiet    \* history: no administrator has written since the run began

runVars == <<spc, left, target, live>>
vars == <<roles, users, spc, left, target, live, quiet>>

Init ==
  /\ \E s \in Stores : roles = s.roles /\ users = s.users
  /\ spc = "off"
  /\ left = {}
  /\ target = Absent
  /\ live = Absent
  /\ quiet = FALSE

-----------------------------------------------------------------------------
StartWithUsers ==
  /\ spc \in {"off", "done"}
  /\ spc' = "users"
  /\ left' = DOMAIN SeedUsers
  /\ quiet' = TRUE
  /\ UNCHANGED <<roles, users, target, live>>

\* The report, the prompt and the other resources' findings only decide whether
\* _apply_acl is reached at all; it reads every document itself.
Start ==
  /\ spc \in {"off", "done"}
  /\ spc' = "roles"
  /\ left' = DOMAIN SeedRoles
  /\ quiet' = TRUE
  /\ UNCHANGED <<roles, users, target, live>>

GetRole(r) ==
  /\ spc = "roles"
  /\ target = Absent
  /\ r \in left
  /\ target' = r
  /\ live' = roles[r]
  /\ UNCHANGED <<roles, users, spc, left, quiet>>

Decided == left' = left \ {target} /\ target' = Absent /\ live' = Absent

PatchRoleIfMissing ==
  /\ spc = "roles"
  /\ target # Absent
  /\ roles' = IF live = Absent THEN [roles EXCEPT ![target] = SeedRoles[target]]
              ELSE roles
  /\ Decided
  /\ UNCHANGED <<users, spc, quiet>>

\* A role that differs in any field gets every field of the seed.
PatchRole ==
  /\ spc = "roles"
  /\ target # Absent
  /\ roles' = IF live # SeedRoles[target]
              THEN [roles EXCEPT ![target] = SeedRoles[target]] ELSE roles
  /\ Decided
  /\ UNCHANGED <<users, spc, quiet>>

RolesDone ==
  /\ spc = "roles"
  /\ left = {}
  /\ spc' = "users"
  /\ left' = DOMAIN SeedUsers
  /\ UNCHANGED <<roles, users, target, live, quiet>>

GetUser(e) ==
  /\ spc = "users"
  /\ target = Absent
  /\ e \in left
  /\ target' = e
  /\ live' = users[Lower[e]]
  /\ UNCHANGED <<roles, users, spc, left, quiet>>

Merged == SeedUsers[target] \cup (IF live = Absent THEN {} ELSE live.roles)

PatchUserWithSeedOnly ==
  /\ spc = "users"
  /\ target # Absent
  /\ users' = [users EXCEPT ![Lower[target]] = [roles |-> SeedUsers[target]]]
  /\ Decided
  /\ UNCHANGED <<roles, spc, quiet>>

\* The seed roles join the ones it has read; nothing is written when that
\* changes nothing.
PatchUser ==
  /\ spc = "users"
  /\ target # Absent
  /\ users' = IF live = Absent \/ Merged # live.roles
              THEN [users EXCEPT ![Lower[target]] = [roles |-> Merged]] ELSE users
  /\ Decided
  /\ UNCHANGED <<roles, spc, quiet>>

UsersDone ==
  /\ spc = "users"
  /\ left = {}
  /\ spc' = "done"
  /\ UNCHANGED <<roles, users, left, target, live, quiet>>

KilledStuck ==
  /\ spc \in {"roles", "users"}
  /\ spc' = "off"
  /\ UNCHANGED <<roles, users, left, target, live, quiet>>

\* Killed, or an HTTP call raised, before or after what it asked for was done; or
\* the database could not be created (then main still prints "done", exit code 0).
Killed ==
  /\ spc \in {"roles", "users"}
  /\ spc' = "off"
  /\ left' = {}
  /\ target' = Absent
  /\ live' = Absent
  /\ UNCHANGED <<roles, users, quiet>>

\* One change made in the admin view, as the ledger allows it.
UiWrite(caller, op) ==
  /\ Mutate(caller, op)
  /\ quiet' = FALSE
  /\ UNCHANGED runVars

Run ==
  \/ \E r \in DOMAIN SeedRoles : GetRole(r)
  \/ PatchRole \/ RolesDone
  \/ \E e \in DOMAIN SeedUsers : GetUser(e)
  \/ PatchUser \/ UsersDone

Next ==
  \/ Start \/ Run \/ Killed
  \/ \E caller \in Email, op \in Ops : UiWrite(caller, op)

Spec == Init /\ [][Next]_vars

\* The operator runs it again until a run gets through: not every attempt is
\* killed at the same point.
FairSpec ==
  /\ Spec
  /\ WF_vars(Start)
  /\ SF_vars(PatchRole) /\ SF_vars(RolesDone)
  /\ SF_vars(PatchUser) /\ SF_vars(UsersDone)
  /\ \A r \in DOMAIN SeedRoles : SF_vars(GetRole(r))
  /\ \A e \in DOMAIN SeedUsers : SF_vars(GetUser(e))

-----------------------------------------------------------------------------
(* Properties.                                                             *)

\* Every variable keeps its type, and a run that is over holds no document.
TypeOK ==
  /\ roles \in RoleDocs
  /\ users \in UserDocs
  /\ spc \in {"off", "roles", "users", "done"}
  /\ left \in SUBSET (IF spc = "roles" THEN DOMAIN SeedRoles
                      ELSE IF spc = "users" THEN DOMAIN SeedUsers ELSE {})
  /\ target \in left \cup {Absent}
  /\ live \in (IF spc = "roles" THEN RoleDoc ELSE UserDoc) \cup {Absent}
  /\ quiet \in BOOLEAN

\* compare_acl, on a store whose database exists: is every finding OK?
RoleOK(r) == roles[r] = SeedRoles[r]
UserOK(e) == users[Lower[e]] # Absent /\ SeedUsers[e] \subseteq users[Lower[e]].roles
NoFinding ==
  /\ \A r \in DOMAIN SeedRoles : RoleOK(r)
  /\ \A e \in DOMAIN SeedUsers : UserOK(e)

\* A run that nobody interfered with, after whatever earlier runs were killed half
\* way, leaves a store the next --check has no finding about.
QuietRunConverges == spc = "done" /\ quiet => NoFinding

\* Roles come before the users that get them: a run killed between the two leaves
\* no person with a seed role that does not exist.
NoGrantWithoutRole ==
  quiet /\ spc = "users" => \A r \in DOMAIN SeedRoles : RoleOK(r)

Patching == spc \in {"roles", "users"} /\ target # Absent /\ target' = Absent /\ spc' = spc

Takes(e) ==
  /\ users[e] # Absent
  /\ users'[e] = Absent \/ ~ users[e].roles \subseteq users'[e].roles

\* Is the document the run is about to decide on still what it has read?
IsCurrent == live = (IF spc = "roles" THEN roles[target] ELSE users[Lower[target]])

\* "Seed-only: apply never deletes and MERGES user roles, so admin-UI edits survive
\* re-runs" (provision_agents.py:12-13), as far as it is true: a run takes a role
\* from a person, or the last admin from the store, only if an administrator has
\* written between its GET and its PATCH.
LossesAreRaces ==
  [][Patching /\ IsCurrent =>
       /\ \A e \in Email : ~ Takes(e)
       /\ HasAdmin(roles, users) => HasAdmin(roles', users')]_vars

\* "You cannot delete/demote the last admin (recoverable only via Firestore console
\* otherwise)" (admin.py:13-14): in fact running the seed again recovers it too.
LockoutIsRecovered == ~ HasAdmin(roles, users) ~> HasAdmin(roles, users)
=============================================================================
