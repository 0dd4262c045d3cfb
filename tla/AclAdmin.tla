------------------------------ MODULE AclAdmin ------------------------------
(***************************************************************************)
(* The BFF's admin API over the ACL store: frontend/app/admin.py behind    *)
(* the endpoints of frontend/app/server.py.                                *)
(*                                                                         *)
(* A request is a coroutine that goes through two asyncio.to_thread        *)
(* calls: the admin check (stream acl_roles, then stream acl_users), then  *)
(* the mutation (stream both collections again, check in memory, write     *)
(* one document).  AclStore uses no transaction and no lock, so other      *)
(* requests - of this instance or of another one - run between any two     *)
(* Firestore calls: one action per call.                                   *)
(***************************************************************************)
EXTENDS AclStore

CONSTANTS
  Request,   \* request slots: how many handlers may be in flight at once
  Ops,       \* the mutations the clients send
  Seeds      \* the stores provisioning may leave, as [roles, users]

ASSUME OpsAssumption == Ops \subseteq Op

ASSUME SeedsAssumption ==
  \A s \in Seeds : /\ s.roles \in RoleDocs
                   /\ s.users \in UserDocs
                   /\ HasAdmin(s.roles, s.users)

VARIABLES
  roles,        \* acl_roles
  users,        \* acl_users
  pc,           \* where each handler is
  caller,       \* the IAP-verified email, Absent when there is none
  op,           \* the mutation requested
  seenRoles,    \* the roles the current to_thread call has read
  reply,        \* the HTTP answer
  undisturbed   \* history: no other request has written since this one arrived

store == <<roles, users>>
vars == <<roles, users, pc, caller, op, seenRoles, reply, undisturbed>>

Checking == {"auth_roles", "auth_users"}
Mutating == {"mut_roles", "mut_users", "write"}
PC == {"idle", "done"} \cup Checking \cup Mutating
Caller == Email \cup {Absent}
Reply == {"none", "ok", "forbidden", "invalid", "error"}

InFlight(q) == pc[q] \in Checking \cup Mutating

NoRoles == [r \in Role |-> Absent]

Init ==
  /\ \E s \in Seeds : roles = s.roles /\ users = s.users
  /\ pc = [q \in Request |-> "idle"]
  /\ caller = [q \in Request |-> Absent]
  /\ op = [q \in Request |-> Absent]
  /\ seenRoles = [q \in Request |-> NoRoles]
  /\ reply = [q \in Request |-> "none"]
  /\ undisturbed = [q \in Request |-> FALSE]

-----------------------------------------------------------------------------
(* The steps of one handler.                                               *)

Arrive(q, e, o) ==
  /\ pc[q] = "idle"
  /\ pc' = [pc EXCEPT ![q] = "auth_roles"]
  /\ caller' = [caller EXCEPT ![q] = e]
  /\ op' = [op EXCEPT ![q] = o]
  /\ undisturbed' = [undisturbed EXCEPT ![q] = TRUE]
  /\ UNCHANGED <<roles, users, seenRoles, reply>>

Finish(q, answer) ==
  /\ pc' = [pc EXCEPT ![q] = "done"]
  /\ reply' = [reply EXCEPT ![q] = answer]
  /\ seenRoles' = [seenRoles EXCEPT ![q] = NoRoles]

ReadRoles(q, from, to) ==
  /\ pc[q] = from
  /\ pc' = [pc EXCEPT ![q] = to]
  /\ seenRoles' = [seenRoles EXCEPT ![q] = roles]
  /\ UNCHANGED <<roles, users, caller, op, reply, undisturbed>>

AuthReadRoles(q) == ReadRoles(q, "auth_roles", "auth_users")

\* is_admin pairs the users it reads now with the roles it read before.
AuthReadUsers(q) ==
  /\ pc[q] = "auth_users"
  /\ \/ /\ IsAdmin(seenRoles[q], users, caller[q])
        /\ pc' = [pc EXCEPT ![q] = "mut_roles"]
        /\ seenRoles' = [seenRoles EXCEPT ![q] = NoRoles]
        /\ UNCHANGED reply
     \/ /\ ~ IsAdmin(seenRoles[q], users, caller[q])
        /\ Finish(q, "forbidden")
  /\ UNCHANGED <<roles, users, caller, op, undisturbed>>

\* A read that fails inside is_admin is a "no"; a Firestore client that cannot
\* be built raises before it.  Nothing is granted either way.
AuthFailsOpen(q) ==
  /\ pc[q] \in Checking
  /\ pc' = [pc EXCEPT ![q] = "mut_roles"]
  /\ UNCHANGED <<roles, users, caller, op, seenRoles, reply, undisturbed>>

AuthFails(q) ==
  /\ pc[q] \in Checking
  /\ \E answer \in {"forbidden", "error"} : Finish(q, answer)
  /\ UNCHANGED <<roles, users, caller, op, undisturbed>>

RejectArguments(q) ==
  /\ pc[q] = "mut_roles"
  /\ ~ WellFormed(op[q])
  /\ Finish(q, "invalid")
  /\ UNCHANGED <<roles, users, caller, op, undisturbed>>

MutReadRoles(q) == ReadRoles(q, "mut_roles", "mut_users") /\ WellFormed(op[q])

AcceptsUnguarded(o, rs, us) == Applicable(o, rs, us)

Accepts(o, rs, us) == Applicable(o, rs, us) /\ KeepsAnAdmin(o, rs, us)

\* The second read, the checks and the lockout guard; the write is another call.
MutReadUsers(q) ==
  /\ pc[q] = "mut_users"
  /\ \/ /\ Accepts(op[q], seenRoles[q], users)
        /\ pc' = [pc EXCEPT ![q] = "write"]
        /\ seenRoles' = [seenRoles EXCEPT ![q] = NoRoles]
        /\ UNCHANGED reply
     \/ /\ ~ Accepts(op[q], seenRoles[q], users)
        /\ Finish(q, "invalid")
  /\ UNCHANGED <<roles, users, caller, op, undisturbed>>

\* The document is replaced whole.  The call may also fail after Firestore has
\* applied it: then the client gets an error for a change that was made.
Write(q) ==
  /\ pc[q] = "write"
  /\ roles' = RolesAfter(op[q], roles)
  /\ users' = UsersAfter(op[q], users)
  /\ \E answer \in {"ok", "error"} : Finish(q, answer)
  /\ undisturbed' = [p \in Request |-> undisturbed[p] /\ p = q]
  /\ UNCHANGED <<caller, op>>

\* A Firestore call of the mutation fails, or the instance dies under it.
MutationFails(q) ==
  /\ pc[q] \in Mutating
  /\ Finish(q, "error")
  /\ UNCHANGED <<roles, users, caller, op, undisturbed>>

RespondKeepingOp(q) ==
  /\ pc[q] = "done"
  /\ pc' = [pc EXCEPT ![q] = "idle"]
  /\ reply' = [reply EXCEPT ![q] = "none"]
  /\ UNCHANGED <<roles, users, caller, op, seenRoles, undisturbed>>

\* The answer leaves and the slot is free for another request.
Respond(q) ==
  /\ pc[q] = "done"
  /\ pc' = [pc EXCEPT ![q] = "idle"]
  /\ caller' = [caller EXCEPT ![q] = Absent]
  /\ op' = [op EXCEPT ![q] = Absent]
  /\ reply' = [reply EXCEPT ![q] = "none"]
  /\ undisturbed' = [undisturbed EXCEPT ![q] = FALSE]
  /\ UNCHANGED <<roles, users, seenRoles>>

\* What a handler does unless a call under it raises.
Proceed(q) ==
  \/ AuthReadRoles(q) \/ AuthReadUsers(q)
  \/ RejectArguments(q) \/ MutReadRoles(q) \/ MutReadUsers(q)
  \/ Write(q) \/ Respond(q)

Step(q) == Proceed(q) \/ AuthFails(q) \/ MutationFails(q)

Next ==
  \E q \in Request :
    \/ \E e \in Caller, o \in Ops : Arrive(q, e, o)
    \/ Step(q)

Spec == Init /\ [][Next]_vars

-----------------------------------------------------------------------------
(* Properties.                                                             *)

\* Every variable keeps its type, a slot holds a mutation exactly while it is
\* taken, and a snapshot lives only between the two reads of one to_thread call.
TypeOK ==
  /\ roles \in RoleDocs
  /\ users \in UserDocs
  /\ pc \in [Request -> PC]
  /\ caller \in [Request -> Caller]
  /\ op \in [Request -> Op \cup {Absent}]
  /\ \A q \in Request : pc[q] # "idle" => op[q] \in Op
  /\ \A q \in Request : pc[q] = "idle" => op[q] = Absent
  /\ seenRoles \in [Request -> RoleDocs]
  /\ \A q \in Request :
       pc[q] \notin {"auth_users", "mut_users"} => seenRoles[q] = NoRoles
  /\ reply \in [Request -> Reply]
  /\ undisturbed \in [Request -> BOOLEAN]

Ledger == INSTANCE AclLedger

\* What a request that no other write has overlapped can rely on: its four
\* reads saw one store, so at its write the caller is an admin of the store as
\* it is and the guard's verdict is about the store as it is.
UndisturbedReads ==
  \A q \in Request : undisturbed[q] =>
    /\ pc[q] \in {"auth_users", "mut_users"} => seenRoles[q] = roles
    /\ pc[q] \in Mutating => IsAdmin(roles, users, caller[q])
    /\ pc[q] \in {"mut_users", "write"} => WellFormed(op[q])
    /\ pc[q] = "write" => Accepts(op[q], roles, users)

Changes(q) == pc[q] = "write" /\ pc'[q] = "done" /\ store' # store

\* The checks of admin.py are several calls long, yet a change made by a request
\* no other write has overlapped is one step of the ledger: authorised,
\* applicable and leaving an admin.  So only overlapping writes can break the
\* promises of the module's docstring.
UndisturbedIsAtomic ==
  [][\A q \in Request :
       undisturbed[q] /\ Changes(q) => Ledger!Mutate(caller[q], op[q])]_vars

\* One request at a time, the API is the ledger (admin.py:7-14).
RefinesLedger == Ledger!LedgerSpec

\* The lockout guard (admin.py:12-14): there is always an admin user.
NeverLockedOut == HasAdmin(roles, users)

\* No admin is left and no handler in flight is, or can become, authorised.
LockedOut ==
  /\ ~ HasAdmin(roles, users)
  /\ \A q \in Request :
       /\ pc[q] \notin Mutating
       /\ pc[q] = "auth_users" => ~ IsAdmin(seenRoles[q], users, caller[q])

\* A lockout is for good as far as the API goes, "recoverable only via Firestore
\* console otherwise" (admin.py:13-14): no failing read lets anybody back in.
LockedOutIsFinal == [][LockedOut => LockedOut' /\ UNCHANGED store]_vars

\* An "ok" for taking a person's admin roles, or the person, away means that no
\* spelling of that email is an admin, until somebody else writes.
RevokedMeansRevoked ==
  \A q \in Request :
    /\ reply[q] = "ok"
    /\ undisturbed[q]
    /\ op[q].col = "users"
    /\ op[q].doc = Absent \/ op[q].doc.roles \cap AdminRoles(roles) = {}
    => \A e \in Email :
         Lower[e] = Lower[op[q].key] => ~ IsAdmin(roles, users, e)
=============================================================================
