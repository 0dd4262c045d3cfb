--------------------------- MODULE AclAdminProofs ---------------------------
(***************************************************************************)
(* Theorems about AclAdmin, for every set of roles, emails, operations and *)
(* concurrent requests.                                                    *)
(***************************************************************************)
EXTENDS AclAdmin, TLAPS

-----------------------------------------------------------------------------
(* Type correctness.                                                       *)

\* A mutation turns well-typed collections into well-typed collections.
LEMMA AfterTyped ==
  ASSUME NEW o \in Op, NEW rs \in RoleDocs, NEW us \in UserDocs
  PROVE  RolesAfter(o, rs) \in RoleDocs /\ UsersAfter(o, us) \in UserDocs
<1>1. CASE o \in RoleOp
  BY <1>1, LowerAssumption DEF RoleOp, RolesAfter, UsersAfter, RoleDocs, UserDocs
<1>2. CASE o \in UserOp
  BY <1>2, LowerAssumption DEF UserOp, RolesAfter, UsersAfter, RoleDocs, UserDocs
<1>3. QED
  BY <1>1, <1>2 DEF Op

\* Whatever the interleaving, the variables keep their types, a slot holds a
\* mutation exactly while it is taken, and no snapshot outlives its pair of reads.
THEOREM TypeCorrect == Spec => []TypeOK
<1>1. Init => TypeOK
  BY SeedsAssumption
  DEF Init, TypeOK, PC, Caller, Reply, NoRoles, RoleDocs
<1>2. TypeOK /\ [Next]_vars => TypeOK'
  <2> SUFFICES ASSUME TypeOK, [Next]_vars PROVE TypeOK'
    OBVIOUS
  <2> USE DEF TypeOK, PC, Checking, Mutating, Reply, NoRoles
  <2>0. NoRoles \in RoleDocs
    BY DEF RoleDocs
  <2>1. ASSUME NEW q \in Request, NEW e \in Caller, NEW o \in Ops, Arrive(q, e, o)
        PROVE  TypeOK'
    BY <2>1, OpsAssumption DEF Arrive
  <2>2. ASSUME NEW q \in Request, AuthReadRoles(q) PROVE TypeOK'
    BY <2>2 DEF AuthReadRoles, ReadRoles
  <2>3. ASSUME NEW q \in Request, AuthReadUsers(q) PROVE TypeOK'
    BY <2>0, <2>3 DEF AuthReadUsers, Finish
  <2>4. ASSUME NEW q \in Request, AuthFails(q) PROVE TypeOK'
    BY <2>0, <2>4 DEF AuthFails, Finish
  <2>5. ASSUME NEW q \in Request, RejectArguments(q) PROVE TypeOK'
    BY <2>0, <2>5 DEF RejectArguments, Finish
  <2>6. ASSUME NEW q \in Request, MutReadRoles(q) PROVE TypeOK'
    BY <2>6 DEF MutReadRoles, ReadRoles
  <2>7. ASSUME NEW q \in Request, MutReadUsers(q) PROVE TypeOK'
    BY <2>0, <2>7 DEF MutReadUsers, Finish
  <2>8. ASSUME NEW q \in Request, Write(q) PROVE TypeOK'
    <3>1. op[q] \in Op
      BY <2>8 DEF Write
    <3>2. roles' \in RoleDocs /\ users' \in UserDocs
      BY <2>8, <3>1, AfterTyped DEF Write
    <3>3. undisturbed' \in [Request -> BOOLEAN]
      BY <2>8 DEF Write
    <3>4. QED
      BY <2>0, <2>8, <3>2, <3>3 DEF Write, Finish
  <2>9. ASSUME NEW q \in Request, MutationFails(q) PROVE TypeOK'
    BY <2>0, <2>9 DEF MutationFails, Finish
  <2>10. ASSUME NEW q \in Request, Respond(q) PROVE TypeOK'
    BY <2>10 DEF Respond, Caller
  <2>11. CASE UNCHANGED vars
    BY <2>11 DEF vars
  <2>12. QED
    BY <2>1, <2>2, <2>3, <2>4, <2>5, <2>6, <2>7, <2>8, <2>9, <2>10, <2>11
    DEF Next, Step, Proceed
<1>3. QED
  BY <1>1, <1>2, PTL DEF Spec

-----------------------------------------------------------------------------
(* Undisturbed requests.                                                   *)

\* No slot is taken initially.
LEMMA UndisturbedInit == Init => UndisturbedReads
  BY DEF Init, UndisturbedReads, Mutating

\* Reads keep the invariant because they copy the store as it is; a write keeps
\* it because it marks every other request as overlapped.
LEMMA UndisturbedStep ==
  TypeOK /\ UndisturbedReads /\ [Next]_vars => UndisturbedReads'
<1> SUFFICES ASSUME TypeOK, UndisturbedReads, [Next]_vars
             PROVE  UndisturbedReads'
  OBVIOUS
<1> USE DEF TypeOK, UndisturbedReads, Mutating
<1>1. ASSUME NEW q \in Request, NEW e \in Caller, NEW o \in Ops, Arrive(q, e, o)
      PROVE  UndisturbedReads'
  BY <1>1 DEF Arrive
<1>2. ASSUME NEW q \in Request, AuthReadRoles(q) PROVE UndisturbedReads'
  BY <1>2 DEF AuthReadRoles, ReadRoles
<1>3. ASSUME NEW q \in Request, AuthReadUsers(q) PROVE UndisturbedReads'
  BY <1>3 DEF AuthReadUsers, Finish
<1>4. ASSUME NEW q \in Request, AuthFails(q) PROVE UndisturbedReads'
  BY <1>4 DEF AuthFails, Finish
<1>5. ASSUME NEW q \in Request, RejectArguments(q) PROVE UndisturbedReads'
  BY <1>5 DEF RejectArguments, Finish
<1>6. ASSUME NEW q \in Request, MutReadRoles(q) PROVE UndisturbedReads'
  BY <1>6 DEF MutReadRoles, ReadRoles
<1>7. ASSUME NEW q \in Request, MutReadUsers(q) PROVE UndisturbedReads'
  BY <1>7 DEF MutReadUsers, Finish
<1>8. ASSUME NEW q \in Request, Write(q) PROVE UndisturbedReads'
  <2>1. pc' = [pc EXCEPT ![q] = "done"]
    BY <1>8 DEF Write, Finish
  <2>2. \A p \in Request : undisturbed'[p] => p = q
    BY <1>8 DEF Write
  <2>3. QED
    BY <2>1, <2>2
<1>9. ASSUME NEW q \in Request, MutationFails(q) PROVE UndisturbedReads'
  BY <1>9 DEF MutationFails, Finish
<1>10. ASSUME NEW q \in Request, Respond(q) PROVE UndisturbedReads'
  BY <1>10 DEF Respond
<1>11. CASE UNCHANGED vars
  BY <1>11 DEF vars
<1>12. QED
  BY <1>1, <1>2, <1>3, <1>4, <1>5, <1>6, <1>7, <1>8, <1>9, <1>10, <1>11
  DEF Next, Step, Proceed

\* Until somebody else writes, what a request has checked is true of the store
\* as it is, not only of the snapshots it read.
THEOREM UndisturbedReadsAreCurrent == Spec => []UndisturbedReads
<1>1. QED
  BY UndisturbedInit, UndisturbedStep, TypeCorrect, PTL DEF Spec

-----------------------------------------------------------------------------
(* Changes to the store are steps of the ledger.                           *)

\* The ledger, instantiated on the same documents, has the same operators.
LEMMA SameMutate ==
  ASSUME NEW e \in Caller, NEW o \in Op,
         IsAdmin(roles, users, e), WellFormed(o), Accepts(o, roles, users),
         roles' = RolesAfter(o, roles), users' = UsersAfter(o, users)
  PROVE  Ledger!Mutate(e, o)
<1>1. Ledger!IsAdmin(roles, users, e)
  BY DEF IsAdmin, AdminEmails, AdminRoles,
         Ledger!IsAdmin, Ledger!AdminEmails, Ledger!AdminRoles
<1>2. Ledger!WellFormed(o)
  BY DEF WellFormed, Ledger!WellFormed
<1>3. Ledger!Applicable(o, roles, users)
  BY DEF Accepts, Applicable, Ledger!Applicable
<1>4. Ledger!KeepsAnAdmin(o, roles, users)
  BY DEF Accepts, KeepsAnAdmin, HasAdmin, AdminEmails, AdminRoles,
         RolesAfter, UsersAfter,
         Ledger!KeepsAnAdmin, Ledger!HasAdmin, Ledger!AdminEmails,
         Ledger!AdminRoles, Ledger!RolesAfter, Ledger!UsersAfter
<1>5. roles' = Ledger!RolesAfter(o, roles) /\ users' = Ledger!UsersAfter(o, users)
  BY DEF RolesAfter, UsersAfter, Ledger!RolesAfter, Ledger!UsersAfter
<1>6. QED
  BY <1>1, <1>2, <1>3, <1>4, <1>5 DEF Ledger!Mutate

\* Only the write of some request changes the store.
LEMMA OnlyWriteChanges ==
  ASSUME TypeOK, [Next]_vars, store' # store
  PROVE  \E q \in Request : Write(q)
<1>1. ASSUME NEW q \in Request, NEW e \in Caller, NEW o \in Ops, Arrive(q, e, o)
      PROVE  FALSE
  BY <1>1 DEF Arrive, store
<1>2. ASSUME NEW q \in Request, Step(q), ~ Write(q)
      PROVE  FALSE
  BY <1>2 DEF Step, Proceed, AuthReadRoles, AuthReadUsers, AuthFails, RejectArguments,
     MutReadRoles, MutReadUsers, ReadRoles, MutationFails, Respond, store
<1>3. CASE UNCHANGED vars
  BY <1>3 DEF vars, store
<1>4. QED
  BY <1>1, <1>2, <1>3 DEF Next

\* A write of an undisturbed request is one step of the ledger.
LEMMA UndisturbedWrite ==
  ASSUME TypeOK, UndisturbedReads, NEW q \in Request, undisturbed[q], Write(q)
  PROVE  Ledger!Mutate(caller[q], op[q])
<1>1. pc[q] = "write"
  BY DEF Write
<1>2. caller[q] \in Caller /\ op[q] \in Op
  BY <1>1 DEF TypeOK
<1>3. /\ IsAdmin(roles, users, caller[q])
      /\ WellFormed(op[q])
      /\ Accepts(op[q], roles, users)
  BY <1>1 DEF UndisturbedReads, Mutating
<1>4. roles' = RolesAfter(op[q], roles) /\ users' = UsersAfter(op[q], users)
  BY DEF Write
<1>5. QED
  BY <1>2, <1>3, <1>4, SameMutate

\* A change made by a request that no other write overlapped is authorised,
\* applicable and leaves an admin, all in the store it is made to.
THEOREM UndisturbedChangesAreAtomic == Spec => UndisturbedIsAtomic
<1> DEFINE Atomic == \A q \in Request :
             undisturbed[q] /\ Changes(q) => Ledger!Mutate(caller[q], op[q])
<1>1. TypeOK /\ UndisturbedReads /\ [Next]_vars => Atomic
  <2> SUFFICES ASSUME TypeOK, UndisturbedReads, [Next]_vars,
                      NEW q \in Request, undisturbed[q], Changes(q)
               PROVE  Ledger!Mutate(caller[q], op[q])
    OBVIOUS
  <2>1. PICK p \in Request : Write(p)
    BY OnlyWriteChanges DEF Changes
  <2>2. p = q
    BY <2>1 DEF Changes, Write, Finish, TypeOK
  <2>3. QED
    BY <2>1, <2>2, UndisturbedWrite
<1>2. QED
  BY <1>1, TypeCorrect, UndisturbedReadsAreCurrent, PTL DEF Spec, UndisturbedIsAtomic

-----------------------------------------------------------------------------
(* One request at a time.                                                  *)

OneAtATime == \A p, q \in Request : p = q

\* Nobody can overlap the only handler there is.
AlwaysUndisturbed == \A q \in Request : pc[q] # "idle" => undisturbed[q]

\* A slot is taken undisturbed; only a write marks others, and there are none.
LEMMA AloneStep ==
  ASSUME OneAtATime, TypeOK, AlwaysUndisturbed, [Next]_vars
  PROVE  AlwaysUndisturbed'
<1> USE DEF TypeOK, AlwaysUndisturbed, OneAtATime
<1>arrival. ASSUME NEW q \in Request, NEW e \in Caller, NEW o \in Ops, Arrive(q, e, o)
            PROVE  AlwaysUndisturbed'
  BY <1>arrival DEF Arrive
<1>handling. ASSUME NEW q \in Request, Step(q) PROVE AlwaysUndisturbed'
  <2>1. CASE Write(q)
    BY <2>1 DEF Write
  <2>2. CASE Respond(q)
    BY <2>2 DEF Respond
  <2>3. CASE ~ Write(q) /\ ~ Respond(q)
    BY <1>handling, <2>3 DEF Step, Proceed, AuthReadRoles, AuthReadUsers, AuthFails,
       RejectArguments, MutReadRoles, MutReadUsers, ReadRoles, MutationFails, Finish,
       Checking, Mutating
  <2> QED
    BY <2>1, <2>2, <2>3
<1> QED
  BY <1>arrival, <1>handling DEF Next, vars

\* With a single slot, whoever writes is the request itself.
LEMMA AloneIsUndisturbed ==
  ASSUME OneAtATime
  PROVE  Spec => []AlwaysUndisturbed
<1>1. Init => AlwaysUndisturbed
  BY DEF Init, AlwaysUndisturbed
<1>2. TypeOK /\ AlwaysUndisturbed /\ [Next]_vars => AlwaysUndisturbed'
  BY AloneStep
<1> QED
  BY <1>1, <1>2, TypeCorrect, PTL DEF Spec

\* With one request at a time the API implements the ledger: every step of a
\* handler is a stutter or one authorised, guarded mutation.
THEOREM SerialApiRefinesLedger ==
  ASSUME OneAtATime
  PROVE  Spec => RefinesLedger
<1>1. Init => Ledger!LedgerInit
  BY SeedsAssumption
  DEF Init, Ledger!LedgerInit, HasAdmin, AdminEmails, AdminRoles,
      Ledger!HasAdmin, Ledger!AdminEmails, Ledger!AdminRoles,
      RoleDocs, UserDocs, RoleDoc, UserDoc,
      Ledger!RoleDocs, Ledger!UserDocs, Ledger!RoleDoc, Ledger!UserDoc
<1>2. TypeOK /\ UndisturbedReads /\ AlwaysUndisturbed /\ [Next]_vars
        => [Ledger!LedgerNext]_(Ledger!ledgerVars)
  <2> SUFFICES ASSUME TypeOK, UndisturbedReads, AlwaysUndisturbed, [Next]_vars,
                      store' # store
               PROVE  Ledger!LedgerNext
    BY DEF store, Ledger!ledgerVars
  <2>1. PICK q \in Request : Write(q)
    BY OnlyWriteChanges
  <2>2. pc[q] = "write" /\ undisturbed[q]
    BY <2>1 DEF Write, AlwaysUndisturbed
  <2>3. Ledger!Mutate(caller[q], op[q])
    BY <2>1, <2>2, UndisturbedWrite
  <2>4. caller[q] \in Email \cup {Absent} /\ op[q] \in Op
    BY <2>2 DEF TypeOK, Caller
  <2>5. Ledger!Op = Op
    BY DEF Op, RoleOp, UserOp, RoleDoc, UserDoc,
       Ledger!Op, Ledger!RoleOp, Ledger!UserOp, Ledger!RoleDoc, Ledger!UserDoc
  <2>6. QED
    BY <2>3, <2>4, <2>5 DEF Ledger!LedgerNext
<1>3. QED
  BY <1>1, <1>2, TypeCorrect, UndisturbedReadsAreCurrent, AloneIsUndisturbed, PTL
  DEF Spec, RefinesLedger, Ledger!LedgerSpec

\* One request at a time, the last admin cannot be removed: the guard of
\* admin.py:12-14 does what its docstring says as long as requests do not overlap.
THEOREM SerialApiKeepsAnAdmin ==
  ASSUME OneAtATime
  PROVE  Spec => []NeverLockedOut
<1>1. Init => NeverLockedOut
  BY SeedsAssumption DEF Init, NeverLockedOut
<1>2. TypeOK /\ UndisturbedReads /\ AlwaysUndisturbed /\ NeverLockedOut /\ [Next]_vars
        => NeverLockedOut'
  <2> SUFFICES ASSUME TypeOK, UndisturbedReads, AlwaysUndisturbed, NeverLockedOut,
                      [Next]_vars
               PROVE  NeverLockedOut'
    OBVIOUS
  <2>1. CASE store' = store
    BY <2>1 DEF store, NeverLockedOut, HasAdmin, AdminEmails, AdminRoles
  <2>2. CASE store' # store
    <3>1. PICK q \in Request : Write(q)
      BY <2>2, OnlyWriteChanges
    <3>2. pc[q] = "write" /\ undisturbed[q]
      BY <3>1 DEF Write, AlwaysUndisturbed
    <3>3. HasAdmin(RolesAfter(op[q], roles), UsersAfter(op[q], users))
      BY <3>2 DEF UndisturbedReads, Accepts, KeepsAnAdmin
    <3>4. QED
      BY <3>1, <3>3 DEF Write, NeverLockedOut, HasAdmin, AdminEmails, AdminRoles
  <2>3. QED
    BY <2>1, <2>2
<1>3. QED
  BY <1>1, <1>2, TypeCorrect, UndisturbedReadsAreCurrent, AloneIsUndisturbed, PTL
  DEF Spec

-----------------------------------------------------------------------------
(* What an answer is worth.                                                *)

\* A mutation answered with "ok" is in the store until somebody else writes.
OkStands ==
  \A q \in Request : reply[q] = "ok" =>
    /\ pc[q] = "done"
    /\ undisturbed[q] /\ op[q].col = "users" => users[Lower[op[q].key]] = op[q].doc

\* Only a write answers "ok", and it marks every other request as overlapped.
LEMMA OkStandsStep == TypeOK /\ OkStands /\ [Next]_vars => OkStands'
<1> SUFFICES ASSUME TypeOK, OkStands, [Next]_vars PROVE OkStands'
  OBVIOUS
<1> USE DEF TypeOK, OkStands
<1>1. ASSUME NEW q \in Request, NEW e \in Caller, NEW o \in Ops, Arrive(q, e, o)
      PROVE  OkStands'
  BY <1>1 DEF Arrive
<1>2. ASSUME NEW q \in Request, Step(q), ~ Write(q), ~ Respond(q)
      PROVE  OkStands'
  <2>1. /\ pc[q] # "done" /\ users' = users /\ op' = op /\ undisturbed' = undisturbed
        /\ \A p \in Request \ {q} : pc'[p] = pc[p] /\ reply'[p] = reply[p]
        /\ reply'[q] # "ok"
    BY <1>2 DEF Step, Proceed, AuthReadRoles, AuthReadUsers, AuthFails, RejectArguments,
       MutReadRoles, MutReadUsers, ReadRoles, MutationFails, Finish, Checking, Mutating
  <2> QED
    BY <2>1
<1>3. ASSUME NEW q \in Request, Write(q) PROVE OkStands'
  <2>1. /\ pc' = [pc EXCEPT ![q] = "done"] /\ op' = op
        /\ users' = UsersAfter(op[q], users)
        /\ \A p \in Request : undisturbed'[p] => p = q
        /\ \A p \in Request \ {q} : reply'[p] = reply[p]
    BY <1>3 DEF Write, Finish
  <2>2. op[q] \in Op
    BY <1>3 DEF Write
  <2>3. op[q].col = "users" => users'[Lower[op[q].key]] = op[q].doc
    BY <2>1, <2>2, LowerAssumption DEF UsersAfter, Op, RoleOp, UserOp, UserDocs
  <2> QED
    BY <2>1, <2>3
<1>4. ASSUME NEW q \in Request, Respond(q) PROVE OkStands'
  BY <1>4 DEF Respond
<1>5. CASE UNCHANGED vars
  BY <1>5 DEF vars
<1> QED
  BY <1>1, <1>2, <1>3, <1>4, <1>5 DEF Next

\* Until somebody else writes, an "ok" for taking a person's admin roles away, or the
\* person, means that no spelling of that email is an admin any more.
THEOREM RevocationHolds == Spec => []RevokedMeansRevoked
<1>1. Init => OkStands
  BY DEF Init, OkStands
<1>2. OkStands => RevokedMeansRevoked
  BY DEF OkStands, RevokedMeansRevoked, IsAdmin, AdminEmails
<1> QED
  BY <1>1, <1>2, OkStandsStep, TypeCorrect, PTL DEF Spec

-----------------------------------------------------------------------------
(* Lockout.                                                                *)

\* Once no admin is left and nobody in flight is authorised, no request, failing
\* read or answer changes the store again, for any number of requests.
THEOREM LockoutIsFinal == Spec => LockedOutIsFinal
<1>1. TypeOK /\ [Next]_vars => (LockedOut => LockedOut' /\ UNCHANGED store)
  <2> SUFFICES ASSUME TypeOK, [Next]_vars, LockedOut
               PROVE  LockedOut' /\ UNCHANGED store
    OBVIOUS
  <2>1. UNCHANGED store
    BY OnlyWriteChanges DEF LockedOut, Write, Mutating
  <2>2. ~ HasAdmin(roles, users)'
    BY <2>1 DEF LockedOut, store, HasAdmin, AdminEmails, AdminRoles
  <2>3. \A e \in Caller : ~ IsAdmin(roles, users, e)
    BY DEF LockedOut, HasAdmin, IsAdmin
  <2>4. users' = users
    BY <2>1 DEF store
  <2> DEFINE Locked(q) == /\ pc[q] \notin Mutating
                          /\ pc[q] = "auth_users" =>
                               ~ IsAdmin(seenRoles[q], users, caller[q])
  <2>5. ASSUME NEW p \in Request PROVE Locked(p)'
    <3> USE DEF TypeOK, Mutating, Checking
    <3>0. Locked(p)
      BY DEF LockedOut
    <3>1. ASSUME NEW q \in Request, NEW e \in Caller, NEW o \in Ops, Arrive(q, e, o)
          PROVE  Locked(p)'
      BY <3>0, <3>1, <2>4 DEF Arrive, IsAdmin, AdminEmails, AdminRoles
    <3>2. ASSUME NEW q \in Request, AuthReadRoles(q) PROVE Locked(p)'
      BY <3>0, <3>2, <2>3, <2>4 DEF AuthReadRoles, ReadRoles, IsAdmin, AdminEmails, AdminRoles
    <3>3. ASSUME NEW q \in Request, AuthReadUsers(q) PROVE Locked(p)'
      <4>1. Locked(q)
        BY DEF LockedOut
      <4>2. pc' = [pc EXCEPT ![q] = "done"]
        BY <3>3, <4>1 DEF AuthReadUsers, Finish
      <4>3. seenRoles' = [seenRoles EXCEPT ![q] = NoRoles] /\ caller' = caller
        BY <3>3 DEF AuthReadUsers, Finish
      <4>4. QED
        BY <3>0, <4>2, <4>3, <2>4 DEF IsAdmin, AdminEmails, AdminRoles
    <3>4. ASSUME NEW q \in Request, AuthFails(q) PROVE Locked(p)'
      BY <3>0, <3>4, <2>4 DEF AuthFails, Finish, IsAdmin, AdminEmails, AdminRoles
    <3>5. ASSUME NEW q \in Request,
                 \/ RejectArguments(q) \/ MutReadRoles(q) \/ MutReadUsers(q)
                 \/ Write(q) \/ MutationFails(q)
          PROVE  FALSE
      BY <3>5 DEF LockedOut, RejectArguments, MutReadRoles, MutReadUsers, ReadRoles,
                  Write, MutationFails
    <3>6. ASSUME NEW q \in Request, Respond(q) PROVE Locked(p)'
      BY <3>0, <3>6, <2>4 DEF Respond, IsAdmin, AdminEmails, AdminRoles
    <3>7. CASE UNCHANGED vars
      BY <3>0, <3>7 DEF vars, IsAdmin, AdminEmails, AdminRoles
    <3>8. QED
      BY <3>1, <3>2, <3>3, <3>4, <3>5, <3>6, <3>7 DEF Next, Step, Proceed
  <2>6. QED
    BY <2>1, <2>2, <2>5 DEF LockedOut
<1>2. QED
  BY <1>1, TypeCorrect, PTL DEF Spec, LockedOutIsFinal
=============================================================================
