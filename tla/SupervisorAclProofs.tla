------------------------ MODULE SupervisorAclProofs -------------------------
(***************************************************************************)
(* Theorems about SupervisorAcl, for every set of turns, roles, users and  *)
(* specialists and every change made to the store meanwhile.               *)
(***************************************************************************)
EXTENDS SupervisorAcl, TLAPS

-----------------------------------------------------------------------------
(* Type correctness.                                                       *)

\* A mutation turns well-typed collections into well-typed collections.
LEMMA AfterTyped ==
  ASSUME NEW o \in Op, NEW rs \in RoleDocs, NEW us \in UserDocs
  PROVE  RolesAfter(o, rs) \in RoleDocs /\ UsersAfter(o, us) \in UserDocs
<1>1. CASE o \in RoleOp
  BY <1>1, LowerAssumption DEF RoleOp, RolesAfter, UsersAfter, RoleDocs, UserDocs
<1>2. CASE o \in UserOp
  BY <1>2, LowerAssumption DEF UserOp, RolesAfter, UsersAfter, RoleDocs, UserDocs
<1>3. QED
  BY <1>1, <1>2 DEF Op

\* The stores a behaviour starts from are well typed.
LEMMA TypeInit == Init => TypeOK
  BY TurnStoreAssumption DEF Init, TypeOK

\* Every step of a turn, and every change of the store, keeps the types.
LEMMA TypeStep == TypeOK /\ [Next]_vars => TypeOK'
<1> SUFFICES ASSUME TypeOK, [Next]_vars PROVE TypeOK'
  OBVIOUS
<1> USE DEF TypeOK, history
<1>1. ASSUME NEW t \in Turn, NEW u \in Email \cup {Absent}, NEW at \in SUBSET Agent,
             Begin(t, u, at)
      PROVE  TypeOK'
  <2>1. RolesOf(users, u) \in SUBSET Role
    BY DEF RolesOf, UserDocs, UserDoc
  <2>2. Offers(roles) \in SUBSET (Role \X Grant)
    BY DEF Offers
  <2>3. QED
    BY <1>1, <2>1, <2>2 DEF Begin
<1>2. ASSUME NEW t \in Turn, ReadUserDoc(t) PROVE TypeOK'
  <2>1. RolesOf(users, user[t]) \in SUBSET Role
    BY DEF RolesOf, UserDocs, UserDoc
  <2>2. QED
    BY <1>2, <2>1 DEF ReadUserDoc
<1>3. ASSUME NEW t \in Turn, NEW r \in Role, ReadRoleDoc(t, r) PROVE TypeOK'
  <2>1. (IF roles[r] = Absent THEN {} ELSE roles[r].agents) \in SUBSET Grant
    BY DEF RoleDocs, RoleDoc
  <2>2. QED
    BY <1>3, <2>1 DEF ReadRoleDoc
<1>4. ASSUME NEW t \in Turn, ReadFails(t) PROVE TypeOK'
  BY <1>4 DEF ReadFails, Reading
<1>5. ASSUME NEW t \in Turn, Resolved(t) PROVE TypeOK'
  BY <1>5 DEF Resolved
<1>6. ASSUME NEW t \in Turn, Trim(t) PROVE TypeOK'
  BY <1>6 DEF Trim
<1>7. ASSUME NEW t \in Turn, NEW a \in Agent, Transfer(t, a) PROVE TypeOK'
  BY <1>7 DEF Transfer
<1>8. ASSUME NEW t \in Turn, End(t) PROVE TypeOK'
  BY <1>8 DEF End
<1>9. ASSUME NEW o \in Ops, StoreChange(o) PROVE TypeOK'
  <2>1. roles' \in RoleDocs /\ users' \in UserDocs
    BY <1>9, AfterTyped, TurnStoreAssumption DEF StoreChange
  <2>2. \A u \in Email \cup {Absent} : RolesOf(users', u) \in SUBSET Role
    BY <2>1 DEF RolesOf, UserDocs, UserDoc
  <2>3. Offers(roles') \in SUBSET (Role \X Grant)
    BY DEF Offers
  <2>4. QED
    BY <1>9, <2>1, <2>2, <2>3 DEF StoreChange, Witness, turnVars
<1>10. CASE UNCHANGED vars
  BY <1>10 DEF vars
<1>11. QED
  BY <1>1, <1>2, <1>3, <1>4, <1>5, <1>6, <1>7, <1>8, <1>9, <1>10 DEF Next, TurnStep

\* Every variable keeps its type; nothing is collected before the first read and
\* nothing is reached before the hooks have run.
THEOREM TypeCorrect == Spec => []TypeOK
  BY TypeInit, TypeStep, PTL DEF Spec

-----------------------------------------------------------------------------
(* Where grants come from.                                                 *)

\* The history of a turn in progress holds at least what the store says now.
HistoryCovers ==
  \A t \in Turn : tpc[t] # "idle" =>
    /\ RolesOf(users, user[t]) \subseteq held[t]
    /\ Offers(roles) \subseteq offered[t]

\* A transfer that went through is permitted by the memo, which no step of a
\* running turn changes.
ReachedIsPermitted ==
  \A t \in Turn : \A a \in reached[t] : Permits(allowed[t], a)

\* A failed read leaves nothing in the memo and nothing more to read.
FailedIsEmpty ==
  \A t \in Turn : failed[t] => tpc[t] \in {"trim", "running"} /\ allowed[t] = {}

GrantInv ==
  /\ TypeOK
  /\ HistoryCovers
  /\ GrantsComeFromThisTurn
  /\ ReachedIsPermitted
  /\ FailedIsEmpty

\* Every step of a turn and every change of the store keeps the invariant: what a
\* read adds to the memo is in the history, and the history only grows.
LEMMA GrantInvStep == GrantInv /\ [Next]_vars => GrantInv'
<1> SUFFICES ASSUME GrantInv, [Next]_vars, TypeOK'
             PROVE  /\ HistoryCovers' /\ GrantsComeFromThisTurn'
                    /\ ReachedIsPermitted' /\ FailedIsEmpty'
  BY TypeStep DEF GrantInv
<1> USE DEF GrantInv, TypeOK, HistoryCovers, GrantsComeFromThisTurn,
            ReachedIsPermitted, FailedIsEmpty, history
<1>1. ASSUME NEW t \in Turn, NEW u \in Email \cup {Absent}, NEW at \in SUBSET Agent,
             Begin(t, u, at)
      PROVE  /\ HistoryCovers' /\ GrantsComeFromThisTurn'
             /\ ReachedIsPermitted' /\ FailedIsEmpty'
  <2>1. \A s \in Turn : s # t => /\ tpc'[s] = tpc[s] /\ user'[s] = user[s]
                                 /\ held'[s] = held[s] /\ offered'[s] = offered[s]
    BY <1>1 DEF Begin
  <2>2. user'[t] = u /\ held'[t] = RolesOf(users, u) /\ offered'[t] = Offers(roles)
    BY <1>1 DEF Begin
  <2>3. toRead[t] = {} /\ allowed[t] = {} /\ reached[t] = {} /\ ~ failed[t]
    BY <1>1 DEF Begin
  <2>4. UNCHANGED <<roles, users, toRead, allowed, reached, failed>>
    BY <1>1 DEF Begin
  <2>5. HistoryCovers'
    BY <2>1, <2>2, <2>4 DEF RolesOf, Offers
  <2>6. GrantsComeFromThisTurn'
    BY <2>1, <2>3, <2>4
  <2>7. ReachedIsPermitted'
    BY <2>4
  <2>8. FailedIsEmpty'
    BY <2>1, <2>3, <2>4
  <2>9. QED
    BY <2>5, <2>6, <2>7, <2>8
<1>2. ASSUME NEW t \in Turn, ReadUserDoc(t)
      PROVE  /\ HistoryCovers' /\ GrantsComeFromThisTurn'
             /\ ReachedIsPermitted' /\ FailedIsEmpty'
  BY <1>2 DEF ReadUserDoc
<1>3. ASSUME NEW t \in Turn, NEW r \in Role, ReadRoleDoc(t, r)
      PROVE  /\ HistoryCovers' /\ GrantsComeFromThisTurn'
             /\ ReachedIsPermitted' /\ FailedIsEmpty'
  <2> DEFINE new == IF roles[r] = Absent THEN {} ELSE roles[r].agents
  <2>1. \A g \in new : <<r, g>> \in offered[t]
    BY <1>3 DEF ReadRoleDoc, Offers, RoleDocs, RoleDoc
  <2>2. r \in held[t]
    BY <1>3 DEF ReadRoleDoc
  <2>3. allowed' = [allowed EXCEPT ![t] = @ \cup new]
    BY <1>3 DEF ReadRoleDoc
  <2>4. GrantsComeFromThisTurn'
    <3>1. held' = held /\ offered' = offered /\ toRead' = [toRead EXCEPT ![t] = @ \ {r}]
      BY <1>3 DEF ReadRoleDoc
    <3>2. ASSUME NEW s \in Turn
          PROVE  /\ toRead'[s] \subseteq held[s]
                 /\ \A g \in allowed'[s] : \E x \in held[s] : <<x, g>> \in offered[s]
      <4>1. allowed'[s] = IF s = t THEN allowed[t] \cup new ELSE allowed[s]
        BY <2>3
      <4>2. toRead'[s] \subseteq toRead[s]
        BY <3>1
      <4>3. QED
        BY <2>1, <2>2, <4>1, <4>2
    <3>3. QED
      BY <3>1, <3>2
  <2>5. HistoryCovers'
    <3>1. UNCHANGED <<roles, users, tpc, user, held, offered>>
      BY <1>3 DEF ReadRoleDoc
    <3>2. QED
      BY <3>1 DEF RolesOf, Offers
  <2>6. reached' = reached /\ reached[t] = {}
    BY <1>3 DEF ReadRoleDoc
  <2>7. ReachedIsPermitted' /\ FailedIsEmpty'
    BY <1>3, <2>6 DEF ReadRoleDoc, Permits
  <2>8. QED
    BY <2>4, <2>5, <2>7
<1>4. ASSUME NEW t \in Turn, ReadFails(t)
      PROVE  /\ HistoryCovers' /\ GrantsComeFromThisTurn'
             /\ ReachedIsPermitted' /\ FailedIsEmpty'
  <2>1. reached[t] = {}
    BY <1>4 DEF ReadFails, Reading
  <2>2. HistoryCovers' /\ GrantsComeFromThisTurn' /\ FailedIsEmpty'
    BY <1>4 DEF ReadFails, Reading, RolesOf, Offers
  <2>3. ReachedIsPermitted'
    BY <1>4, <2>1 DEF ReadFails, Reading, Permits
  <2>4. QED
    BY <2>2, <2>3
<1>5. ASSUME NEW t \in Turn, Resolved(t)
      PROVE  /\ HistoryCovers' /\ GrantsComeFromThisTurn'
             /\ ReachedIsPermitted' /\ FailedIsEmpty'
  BY <1>5 DEF Resolved
<1>6. ASSUME NEW t \in Turn, Trim(t)
      PROVE  /\ HistoryCovers' /\ GrantsComeFromThisTurn'
             /\ ReachedIsPermitted' /\ FailedIsEmpty'
  BY <1>6 DEF Trim
<1>7. ASSUME NEW t \in Turn, NEW a \in Agent, Transfer(t, a)
      PROVE  /\ HistoryCovers' /\ GrantsComeFromThisTurn'
             /\ ReachedIsPermitted' /\ FailedIsEmpty'
  BY <1>7 DEF Transfer, Blocked
<1>8. ASSUME NEW t \in Turn, End(t)
      PROVE  /\ HistoryCovers' /\ GrantsComeFromThisTurn'
             /\ ReachedIsPermitted' /\ FailedIsEmpty'
  BY <1>8 DEF End
<1>9. ASSUME NEW o \in Ops, StoreChange(o)
      PROVE  /\ HistoryCovers' /\ GrantsComeFromThisTurn'
             /\ ReachedIsPermitted' /\ FailedIsEmpty'
  <2>1. \A t \in Turn : tpc[t] # "idle" =>
          /\ held'[t] = held[t] \cup RolesOf(users', user[t])
          /\ offered'[t] = offered[t] \cup Offers(roles')
    BY <1>9 DEF StoreChange, Witness
  <2>2. \A t \in Turn : tpc[t] = "idle" => allowed[t] = {} /\ toRead[t] = {}
    OBVIOUS
  <2>3. UNCHANGED <<tpc, user, toRead, allowed, reached, failed>>
    BY <1>9 DEF StoreChange, Witness, turnVars
  <2>4. HistoryCovers'
    BY <2>1, <2>3 DEF RolesOf, Offers
  <2>5. GrantsComeFromThisTurn'
    <3>1. ASSUME NEW t \in Turn
          PROVE  /\ toRead[t] \subseteq held'[t]
                 /\ \A g \in allowed[t] : \E r \in held'[t] : <<r, g>> \in offered'[t]
      <4>1. CASE tpc[t] = "idle"
        BY <2>2, <4>1
      <4>2. CASE tpc[t] # "idle"
        <5>1. held[t] \subseteq held'[t] /\ offered[t] \subseteq offered'[t]
          BY <2>1, <4>2
        <5>2. QED
          BY <5>1
      <4>3. QED
        BY <4>1, <4>2
    <3>2. QED
      BY <2>3, <3>1
  <2>6. ReachedIsPermitted'
    BY <2>3 DEF Permits
  <2>7. FailedIsEmpty'
    BY <2>3
  <2>8. QED
    BY <2>4, <2>5, <2>6, <2>7
<1>10. CASE UNCHANGED vars
  BY <1>10 DEF vars
<1>11. QED
  BY <1>1, <1>2, <1>3, <1>4, <1>5, <1>6, <1>7, <1>8, <1>9, <1>10 DEF Next, TurnStep

\* The invariant of the three theorems below.
LEMMA GrantInvariant == Spec => []GrantInv
<1>1. Init => GrantInv
  BY TypeInit DEF GrantInv, Init, HistoryCovers, GrantsComeFromThisTurn,
     ReachedIsPermitted, FailedIsEmpty
<1>2. QED
  BY <1>1, GrantInvStep, PTL DEF Spec

\* Instant revoke: for any number of concurrent turns and changes, an agent is
\* permitted only through a role held, and listing it, during this very turn.
THEOREM GrantsAreFresh == Spec => []GrantsComeFromThisTurn
  BY GrantInvariant, PTL DEF GrantInv

\* The hard block: no transfer goes through without such a role, whether or not
\* the specialists could be hidden from the model.
THEOREM TransfersAreGranted == Spec => []NoForbiddenTransfer
<1>1. GrantInv => NoForbiddenTransfer
  BY DEF GrantInv, GrantsComeFromThisTurn, ReachedIsPermitted, NoForbiddenTransfer,
     Permits
<1>2. QED
  BY <1>1, GrantInvariant, PTL

\* A turn one of whose reads raised reaches no specialist at all.
THEOREM LookupFailureGrantsNothing == Spec => []FailClosed
<1>1. GrantInv => FailClosed
  BY DEF GrantInv, FailedIsEmpty, ReachedIsPermitted, FailClosed, Permits
<1>2. QED
  BY <1>1, GrantInvariant, PTL

-----------------------------------------------------------------------------
(* What a resolution adds up to.                                           *)

\* While the store stands still and no read fails, the memo holds what the role
\* documents read so far grant: those of the user's roles that are not left to read.
ExactSoFar ==
  \A t \in Turn :
    undisturbed[t] /\ ~ failed[t] /\ tpc[t] \in {"role_docs", "trim", "running"} =>
      /\ toRead[t] \subseteq RolesOf(users, user[t])
      /\ \A g \in Grant :
           g \in allowed[t] <=>
             \E r \in RolesOf(users, user[t]) \ toRead[t] :
               roles[r] # Absent /\ g \in roles[r].agents

\* Every read adds the grants of the document it took off the list, and a change of
\* the store disturbs every turn.
LEMMA ExactStep ==
  ASSUME GrantInv, TypeOK', ExactSoFar, [Next]_vars
  PROVE  ExactSoFar'
<1> USE DEF GrantInv, TypeOK, ExactSoFar, FailedIsEmpty, history
<1>1. ASSUME NEW t \in Turn, NEW u \in Email \cup {Absent}, NEW at \in SUBSET Agent,
             Begin(t, u, at)
      PROVE  ExactSoFar'
  BY <1>1 DEF Begin
<1>2. ASSUME NEW t \in Turn, ReadUserDoc(t) PROVE ExactSoFar'
  BY <1>2 DEF ReadUserDoc
<1>3. ASSUME NEW t \in Turn, NEW r \in Role, ReadRoleDoc(t, r) PROVE ExactSoFar'
  <2>1. /\ r \in toRead[t] /\ tpc[t] = "role_docs"
        /\ toRead' = [toRead EXCEPT ![t] = @ \ {r}]
        /\ allowed' = [allowed EXCEPT ![t] =
             @ \cup (IF roles[r] = Absent THEN {} ELSE roles[r].agents)]
        /\ UNCHANGED <<roles, users, tpc, user, failed, undisturbed>>
    BY <1>3 DEF ReadRoleDoc
  <2>2. \A s \in Turn \ {t} : toRead'[s] = toRead[s] /\ allowed'[s] = allowed[s]
    BY <2>1
  <2>3. ASSUME undisturbed[t], ~ failed[t], NEW g \in Grant
        PROVE  g \in allowed'[t] <=>
                 \E x \in RolesOf(users, user[t]) \ toRead'[t] :
                   roles[x] # Absent /\ g \in roles[x].agents
    <3> DEFINE Gives(x) == roles[x] # Absent /\ g \in roles[x].agents
               unread == RolesOf(users, user[t]) \ toRead[t]
    <3>1. RolesOf(users, user[t]) \ toRead'[t] = unread \cup {r}
      BY <2>1, <2>3
    <3>2. g \in allowed'[t] <=> g \in allowed[t] \/ Gives(r)
      <4>1. CASE roles[r] = Absent
        BY <2>1, <4>1
      <4>2. CASE roles[r] # Absent
        BY <2>1, <4>2
      <4> QED
        BY <4>1, <4>2
    <3>3. g \in allowed[t] <=> \E x \in unread : Gives(x)
      BY <2>1, <2>3
    <3>4. g \in allowed'[t] <=> \E x \in unread \cup {r} : Gives(x)
      <4> HIDE DEF GrantInv, TypeOK, ExactSoFar, Gives, unread
      <4> QED
        BY <3>2, <3>3
    <3> QED
      BY <3>1, <3>4
  <2>4. toRead'[t] \subseteq toRead[t]
    BY <2>1
  <2> QED
    BY <2>1, <2>2, <2>3, <2>4
<1>4. ASSUME NEW t \in Turn, ReadFails(t) PROVE ExactSoFar'
  BY <1>4 DEF ReadFails
<1>5. ASSUME NEW t \in Turn, Resolved(t) PROVE ExactSoFar'
  BY <1>5 DEF Resolved
<1>6. ASSUME NEW t \in Turn, Trim(t) PROVE ExactSoFar'
  BY <1>6 DEF Trim
<1>7. ASSUME NEW t \in Turn, NEW a \in Agent, Transfer(t, a) PROVE ExactSoFar'
  BY <1>7 DEF Transfer
<1>8. ASSUME NEW t \in Turn, End(t) PROVE ExactSoFar'
  BY <1>8 DEF End
<1>9. ASSUME NEW o \in Ops, StoreChange(o) PROVE ExactSoFar'
  BY <1>9 DEF StoreChange, Witness
<1>10. CASE UNCHANGED vars
  BY <1>10 DEF vars
<1> QED
  BY <1>1, <1>2, <1>3, <1>4, <1>5, <1>6, <1>7, <1>8, <1>9, <1>10 DEF Next, TurnStep

\* If the store stands still and no read fails, a turn may reach exactly what the
\* documents grant its user: the order of the reads and the roles that no longer
\* exist make no difference.
THEOREM ResolutionAddsUp == Spec => []ResolutionIsExact
<1>1. Init => ExactSoFar
  BY DEF Init, ExactSoFar
<1>2. GrantInv /\ GrantInv' /\ ExactSoFar /\ [Next]_vars => ExactSoFar'
  BY ExactStep DEF GrantInv
<1>3. ASSUME GrantInv, ExactSoFar, NEW t \in Turn,
             undisturbed[t], ~ failed[t], tpc[t] \in {"trim", "running"}
      PROVE  allowed[t] = IF user[t] = Absent THEN {} ELSE Granted(roles, users, user[t])
  <2> DEFINE grants == IF user[t] = Absent THEN {} ELSE Granted(roles, users, user[t])
  <2>1. toRead[t] = {} /\ allowed[t] \in SUBSET Grant
    BY <1>3 DEF GrantInv, TypeOK
  <2>2. \A g : g \in grants <=>
          \E r \in RolesOf(users, user[t]) : roles[r] # Absent /\ g \in roles[r].agents
    BY DEF Granted, RolesOf
  <2>3. \A r \in RolesOf(users, user[t]) : roles[r] # Absent => roles[r].agents \in SUBSET Grant
    BY <1>3 DEF GrantInv, TypeOK, RolesOf, UserDocs, UserDoc, RoleDocs, RoleDoc
  <2>4. \A g \in Grant : g \in allowed[t] <=> g \in grants
    BY <1>3, <2>1, <2>2 DEF ExactSoFar
  <2>5. grants \in SUBSET Grant
    BY <2>2, <2>3
  <2> HIDE DEF grants
  <2>6. allowed[t] = grants
    BY <2>1, <2>4, <2>5
  <2> QED
    BY <2>6 DEF grants
<1>4. GrantInv /\ ExactSoFar => ResolutionIsExact
  BY <1>3 DEF ResolutionIsExact
<1> QED
  BY <1>1, <1>2, <1>4, GrantInvariant, PTL DEF Spec
=============================================================================
