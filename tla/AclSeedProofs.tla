---------------------------- MODULE AclSeedProofs ----------------------------
(***************************************************************************)
(* Theorems about AclSeed, for every manifest, store and set of changes    *)
(* the administrators may make meanwhile.                                  *)
(***************************************************************************)
EXTENDS AclSeed, TLAPS

-----------------------------------------------------------------------------
(* The invariant.                                                          *)

\* A run that holds no document has read none.
Clean == target = Absent => live = Absent

\* What a run nobody interferes with knows: the document it holds is the one it has
\* read, and every entry it is through with is as the manifest says.
Progress ==
  /\ target # Absent => IsCurrent
  /\ spc = "roles" => \A r \in DOMAIN SeedRoles \ left : RoleOK(r)
  /\ spc \in {"users", "done"} => \A r \in DOMAIN SeedRoles : RoleOK(r)
  /\ spc \in {"users", "done"} => \A e \in DOMAIN SeedUsers \ left : UserOK(e)

SeedInv == TypeOK /\ Clean /\ (quiet => Progress)

\* A mutation turns well-typed collections into well-typed collections.
LEMMA AfterTyped ==
  ASSUME NEW o \in Op, NEW rs \in RoleDocs, NEW us \in UserDocs
  PROVE  RolesAfter(o, rs) \in RoleDocs /\ UsersAfter(o, us) \in UserDocs
<1>1. CASE o \in RoleOp
  BY <1>1, LowerAssumption DEF RoleOp, RolesAfter, UsersAfter, RoleDocs, UserDocs
<1>2. CASE o \in UserOp
  BY <1>2, LowerAssumption DEF UserOp, RolesAfter, UsersAfter, RoleDocs, UserDocs
<1>3. QED
  BY <1>1, <1>2 DEF Op

\* The manifest names roles and people, and gives roles documents.
LEMMA SeedTyped ==
  /\ \A r \in DOMAIN SeedRoles : r \in Role /\ SeedRoles[r] \in RoleDoc
  /\ \A e \in DOMAIN SeedUsers :
       e \in Email /\ Lower[e] \in Email /\ SeedUsers[e] \in SUBSET Role
<1>1. PICK D \in SUBSET Role : SeedRoles \in [D -> RoleDoc]
  BY SeedAssumption
<1>2. PICK E \in SUBSET Email : SeedUsers \in [E -> SUBSET Role]
  BY SeedAssumption
<1> QED
  BY <1>1, <1>2, LowerAssumption

\* A name is never the mark for "no document".
LEMMA NamesArePresent == Absent \notin DOMAIN SeedRoles /\ Absent \notin DOMAIN SeedUsers
BY SeedTyped, SeedAssumption, AbsentAssumption

\* A change an administrator makes keeps the collections well-typed.
LEMMA UiWriteTyped ==
  ASSUME TypeOK, NEW caller \in Email, NEW op \in Ops, UiWrite(caller, op)
  PROVE  roles' \in RoleDocs /\ users' \in UserDocs
BY AfterTyped, SeedAssumption DEF UiWrite, Mutate, TypeOK

\* The merge of the roles read with the seed's contains both.
LEMMA MergedContainsBoth ==
  ASSUME TypeOK, spc = "users", target # Absent
  PROVE  /\ target \in DOMAIN SeedUsers
         /\ live # Absent => live \in UserDoc /\ live.roles \subseteq Merged
         /\ SeedUsers[target] \subseteq Merged
         /\ [roles |-> Merged] \in UserDoc
<1>1. target \in DOMAIN SeedUsers /\ live \in UserDoc \cup {Absent}
  BY DEF TypeOK
<1>2. SeedUsers[target] \in SUBSET Role
  BY <1>1, SeedTyped
<1>3. live # Absent => live.roles \in SUBSET Role
  BY <1>1 DEF UserDoc
<1> QED
  BY <1>1, <1>2, <1>3 DEF Merged, UserDoc

-----------------------------------------------------------------------------
(* Type correctness.                                                       *)

\* Every step keeps the types, and what a run has read goes with what it holds.
LEMMA TypeStep ==
  ASSUME TypeOK, Clean, [Next]_vars
  PROVE  TypeOK' /\ Clean'
<1> USE NamesArePresent DEF TypeOK, Clean
<1>1. CASE Start
  BY <1>1 DEF Start
<1>2. ASSUME NEW r \in DOMAIN SeedRoles, GetRole(r) PROVE TypeOK' /\ Clean'
  BY <1>2, SeedTyped DEF GetRole, RoleDocs
<1>3. CASE PatchRole
  <2>1. target \in DOMAIN SeedRoles
    BY <1>3 DEF PatchRole
  <2>2. roles' \in RoleDocs
    BY <1>3, <2>1, SeedTyped DEF PatchRole, RoleDocs
  <2> QED
    BY <1>3, <2>2 DEF PatchRole, Decided
<1>4. CASE RolesDone
  BY <1>4 DEF RolesDone
<1>5. ASSUME NEW e \in DOMAIN SeedUsers, GetUser(e) PROVE TypeOK' /\ Clean'
  BY <1>5, SeedTyped DEF GetUser, UserDocs
<1>6. CASE PatchUser
  <2>1. users' \in UserDocs
    BY <1>6, SeedTyped, MergedContainsBoth DEF PatchUser, UserDocs
  <2> QED
    BY <1>6, <2>1 DEF PatchUser, Decided
<1>7. CASE UsersDone
  BY <1>7 DEF UsersDone
<1>8. CASE Killed
  BY <1>8 DEF Killed
<1>9. ASSUME NEW caller \in Email, NEW op \in Ops, UiWrite(caller, op)
      PROVE  TypeOK' /\ Clean'
  BY <1>9, UiWriteTyped DEF UiWrite, runVars
<1>10. CASE UNCHANGED vars
  BY <1>10 DEF vars
<1> QED
  BY <1>1, <1>2, <1>3, <1>4, <1>5, <1>6, <1>7, <1>8, <1>9, <1>10 DEF Next, Run

-----------------------------------------------------------------------------
(* A quiet run.                                                            *)

\* A role the run has decided on is the seed's, written now or found so.
LEMMA PatchedRoleIsOK ==
  ASSUME TypeOK, Progress, PatchRole
  PROVE  \A r \in DOMAIN SeedRoles : r = target \/ RoleOK(r) => RoleOK(r)'
<1>1. target \in DOMAIN SeedRoles /\ IsCurrent /\ live = roles[target]
  BY DEF PatchRole, TypeOK, Progress, IsCurrent
<1>2. roles' = IF live # SeedRoles[target]
              THEN [roles EXCEPT ![target] = SeedRoles[target]] ELSE roles
  BY DEF PatchRole
<1> QED
  BY <1>1, <1>2, SeedTyped DEF RoleOK, TypeOK, RoleDocs

\* A user the run has decided on has the seed's roles, and nobody loses any: two
\* spellings of one address are one document.
LEMMA PatchedUserIsOK ==
  ASSUME TypeOK, PatchUser, IsCurrent
  PROVE  /\ \A e \in Email : users[e] # Absent =>
              users'[e] # Absent /\ users[e].roles \subseteq users'[e].roles
         /\ \A e \in DOMAIN SeedUsers : e = target \/ UserOK(e) => UserOK(e)'
<1>1. /\ target \in DOMAIN SeedUsers /\ Lower[target] \in Email
      /\ live = users[Lower[target]]
      /\ users' = IF live = Absent \/ Merged # live.roles
                  THEN [users EXCEPT ![Lower[target]] = [roles |-> Merged]] ELSE users
  BY SeedTyped DEF PatchUser, TypeOK, IsCurrent
<1>2. users \in UserDocs /\ users' \in UserDocs
  BY <1>1, MergedContainsBoth DEF PatchUser, TypeOK, UserDocs
<1>3. /\ users'[Lower[target]] # Absent
      /\ SeedUsers[target] \subseteq users'[Lower[target]].roles
      /\ live # Absent => live.roles \subseteq users'[Lower[target]].roles
  BY <1>1, <1>2, MergedContainsBoth, AbsentAssumption DEF PatchUser, UserDocs
<1>4. \A e \in Email \ {Lower[target]} : users'[e] = users[e]
  BY <1>1, <1>2 DEF UserDocs
<1>5. \A e \in Email : users[e] # Absent =>
        users'[e] # Absent /\ users[e].roles \subseteq users'[e].roles
  BY <1>1, <1>3, <1>4
<1>6. ASSUME NEW e \in DOMAIN SeedUsers, e = target \/ UserOK(e) PROVE UserOK(e)'
  BY <1>3, <1>5, <1>6, SeedTyped DEF UserOK
<1> QED
  BY <1>5, <1>6

\* Every step of a run nobody interferes with brings it forward.
LEMMA ProgressStep ==
  ASSUME TypeOK, TypeOK', Clean, quiet => Progress, [Next]_vars, quiet'
  PROVE  Progress'
<1> USE NamesArePresent
<1>1. CASE Start
  BY <1>1 DEF Start, TypeOK, Progress, RoleOK, UserOK
<1>2. ASSUME NEW r \in DOMAIN SeedRoles, GetRole(r) PROVE Progress'
  BY <1>2 DEF GetRole, Progress, IsCurrent, RoleOK, UserOK
<1>3. CASE PatchRole
  <2>1. Progress /\ spc = "roles" /\ spc' = "roles"
        /\ left' = left \ {target} /\ target' = Absent
    BY <1>3 DEF PatchRole, Decided
  <2>2. \A r \in DOMAIN SeedRoles \ left' : RoleOK(r)'
    BY <1>3, <2>1, PatchedRoleIsOK DEF Progress
  <2> QED
    BY <2>1, <2>2 DEF Progress
<1>4. CASE RolesDone
  BY <1>4 DEF RolesDone, TypeOK, Progress, RoleOK, UserOK
<1>5. ASSUME NEW e \in DOMAIN SeedUsers, GetUser(e) PROVE Progress'
  BY <1>5 DEF GetUser, Progress, IsCurrent, RoleOK, UserOK
<1>6. CASE PatchUser
  <2>1. /\ Progress /\ spc = "users" /\ spc' = "users" /\ roles' = roles
        /\ left' = left \ {target} /\ target' = Absent /\ target # Absent
    BY <1>6 DEF PatchUser, Decided
  <2>2. \A e \in DOMAIN SeedUsers \ left' : UserOK(e)'
    BY <1>6, <2>1, PatchedUserIsOK DEF Progress
  <2> QED
    BY <2>1, <2>2 DEF Progress, RoleOK
<1>7. CASE UsersDone
  BY <1>7 DEF UsersDone, TypeOK, Progress, RoleOK, UserOK
<1>8. CASE Killed
  BY <1>8 DEF Killed, Progress
<1>9. ASSUME NEW caller \in Email, NEW op \in Ops, UiWrite(caller, op) PROVE Progress'
  BY <1>9 DEF UiWrite
<1>10. CASE UNCHANGED vars
  BY <1>10 DEF vars, Progress, IsCurrent, RoleOK, UserOK
<1> QED
  BY <1>1, <1>2, <1>3, <1>4, <1>5, <1>6, <1>7, <1>8, <1>9, <1>10 DEF Next, Run

\* The invariant holds initially, whatever the store holds.
LEMMA SeedInvInit == Init => SeedInv
BY SeedAssumption DEF Init, SeedInv, TypeOK, Clean

\* The inductive invariant holds of every behaviour.
LEMMA SeedInvariant == Spec => []SeedInv
<1>1. SeedInv /\ [Next]_vars => SeedInv'
  BY TypeStep, ProgressStep DEF SeedInv
<1> QED
  BY <1>1, SeedInvInit, PTL DEF Spec

-----------------------------------------------------------------------------
(* What the invariant gives.                                               *)

\* Every variable keeps its type, and a run that is over holds no document.
THEOREM TypeCorrect == Spec => []TypeOK
BY SeedInvariant, PTL DEF SeedInv

\* A run nobody interferes with, after whatever earlier runs were killed half way,
\* leaves a store compare_acl has no finding about.
THEOREM QuietRunSeeds == Spec => []QuietRunConverges
<1>1. SeedInv => QuietRunConverges
  BY DEF SeedInv, Progress, TypeOK, QuietRunConverges, NoFinding
<1> QED
  BY <1>1, SeedInvariant, PTL

\* A run killed between the roles and the users leaves no seed role undefined that a
\* person has been given.
THEOREM RolesComeFirst == Spec => []NoGrantWithoutRole
<1>1. SeedInv => NoGrantWithoutRole
  BY DEF SeedInv, Progress, NoGrantWithoutRole
<1> QED
  BY <1>1, SeedInvariant, PTL

\* A store with an admin keeps one when a role becomes the seed's, which is an admin's,
\* or when people get more roles.
LEMMA AdminsStay ==
  ASSUME NEW rs, NEW rt, NEW us, NEW ut,
         \A r \in Role : rs[r] # Absent /\ rs[r].is_admin => rt[r] # Absent /\ rt[r].is_admin,
         \A e \in Email : us[e] # Absent => ut[e] # Absent /\ us[e].roles \subseteq ut[e].roles,
         HasAdmin(rs, us)
  PROVE  HasAdmin(rt, ut)
<1>1. AdminRoles(rs) \subseteq AdminRoles(rt)
  BY DEF AdminRoles
<1>2. PICK e \in Email : us[e] # Absent /\ us[e].roles \cap AdminRoles(rs) # {}
  BY DEF HasAdmin, AdminEmails
<1> QED
  BY <1>1, <1>2 DEF HasAdmin, AdminEmails

\* Where every seed role is an admin's, as in runtime-manifest.yaml, a run takes a role
\* from a person or the last admin from the store only if an administrator has written
\* between its GET and its PATCH (provision_agents.py:12-13).
THEOREM LossesAreOnlyRaces ==
  ASSUME \A r \in DOMAIN SeedRoles : SeedRoles[r].is_admin
  PROVE  Spec => LossesAreRaces
<1> DEFINE NoLoss == /\ \A e \in Email : ~ Takes(e)
                     /\ HasAdmin(roles, users) => HasAdmin(roles', users')
<1>1. ASSUME SeedInv, Next, Patching, IsCurrent
      PROVE  NoLoss
  <2>1. PatchRole \/ PatchUser
    BY <1>1 DEF Next, Run, Patching, Start, GetRole, RolesDone, GetUser, UsersDone, Killed,
       UiWrite, runVars
  <2>2. CASE PatchRole
    <3>1. target \in DOMAIN SeedRoles /\ users' = users /\ roles \in RoleDocs
      BY <1>1, <2>2 DEF PatchRole, SeedInv, TypeOK
    <3>2. \A r \in Role : roles[r] # Absent /\ roles[r].is_admin =>
            roles'[r] # Absent /\ roles'[r].is_admin
      BY <2>2, <3>1, SeedTyped, AbsentAssumption DEF PatchRole, RoleDocs
    <3> QED
      BY <3>1, <3>2, AdminsStay DEF Takes
  <2>3. CASE PatchUser
    <3>1. \A e \in Email : users[e] # Absent =>
            users'[e] # Absent /\ users[e].roles \subseteq users'[e].roles
      BY <1>1, <2>3, PatchedUserIsOK DEF SeedInv
    <3>2. roles' = roles
      BY <2>3 DEF PatchUser
    <3> QED
      BY <3>1, <3>2, AdminsStay DEF Takes
  <2> QED
    BY <2>1, <2>2, <2>3
<1>2. SeedInv /\ [Next]_vars => [Patching /\ IsCurrent => NoLoss]_vars
  BY <1>1
<1> QED
  BY <1>2, SeedInvariant, PTL DEF Spec, LossesAreRaces
=============================================================================
