---------------------------- MODULE SupervisorAcl ----------------------------
(***************************************************************************)
(* The supervisor's per-user ACL: agents/my_supervisor_agent/app/acl.py    *)
(* (Firestore backend, ACL_ENABLED on), with the store moving underneath.  *)
(*                                                                         *)
(* A turn resolves the user's allowed agents once, one document per read,  *)
(* memoises the result on its invocation context, trims its own copy of    *)
(* root_agent.sub_agents to it (before_agent_acl) and checks every         *)
(* transfer_to_agent the model emits against it (before_tool_acl).         *)
(***************************************************************************)
EXTENDS AclStore

CONSTANTS
  Turn,      \* turns a supervisor worker may run at once
  Star,      \* the wildcard "*"
  Ops,       \* the document changes made to the store meanwhile
  Seeds      \* the stores a behaviour may start from, as [roles, users]

Agent == Grant \ {Star}

ASSUME TurnStoreAssumption ==
  /\ Star \in Grant
  /\ Ops \subseteq Op
  /\ \A s \in Seeds : s.roles \in RoleDocs /\ s.users \in UserDocs

VARIABLES
  roles,        \* acl_roles
  users,        \* acl_users
  shared,       \* does ADK hand every turn the module's root_agent itself?
  tpc,          \* where each turn is
  user,         \* its session user, lower-cased; Absent when unreadable
  toRead,       \* the role documents _resolve_firestore has still to read
  allowed,      \* what it has collected, then the memo _acl_allowed
  subAgents,    \* names in the turn's agent.sub_agents
  reached,      \* agents the turn has been transferred to
  failed,       \* history: a read of this turn raised
  undisturbed,  \* history: the store has not changed since the turn began
  held,         \* history: roles the user has held since then
  offered       \* history: <<role, grant>> pairs the roles have listed since then

store == <<roles, users>>
turnVars == <<tpc, user, toRead, allowed, subAgents, reached>>
history == <<failed, undisturbed, held, offered>>
vars == <<roles, users, shared, tpc, user, toRead, allowed, subAgents, reached,
          failed, undisturbed, held, offered>>

RolesOf(us, u) == IF u = Absent \/ us[u] = Absent THEN {} ELSE us[u].roles
Offers(rs) == {p \in Role \X Grant : rs[p[1]] # Absent /\ p[2] \in rs[p[1]].agents}

Init ==
  /\ \E s \in Seeds : roles = s.roles /\ users = s.users
  /\ shared \in BOOLEAN
  /\ tpc = [t \in Turn |-> "idle"]
  /\ user = [t \in Turn |-> Absent]
  /\ toRead = [t \in Turn |-> {}]
  /\ allowed = [t \in Turn |-> {}]
  /\ subAgents = [t \in Turn |-> {}]
  /\ reached = [t \in Turn |-> {}]
  /\ failed = [t \in Turn |-> FALSE]
  /\ undisturbed = [t \in Turn |-> FALSE]
  /\ held = [t \in Turn |-> {}]
  /\ offered = [t \in Turn |-> {}]

-----------------------------------------------------------------------------
(* The resolution, _resolve_firestore.                                     *)

\* A turn starts with whatever the sub-agent refresh attached.
Begin(t, u, attached) ==
  /\ tpc[t] = "idle"
  /\ tpc' = [tpc EXCEPT ![t] = "user_doc"]
  /\ user' = [user EXCEPT ![t] = u]
  /\ subAgents' = [subAgents EXCEPT ![t] = attached]
  /\ undisturbed' = [undisturbed EXCEPT ![t] = TRUE]
  /\ held' = [held EXCEPT ![t] = RolesOf(users, u)]
  /\ offered' = [offered EXCEPT ![t] = Offers(roles)]
  /\ UNCHANGED <<roles, users, shared, toRead, allowed, reached, failed>>

\* No identity and no document resolve to no role, hence to the empty set.
ReadUserDoc(t) ==
  /\ tpc[t] = "user_doc"
  /\ tpc' = [tpc EXCEPT ![t] = "role_docs"]
  /\ toRead' = [toRead EXCEPT ![t] = RolesOf(users, user[t])]
  /\ UNCHANGED <<roles, users, shared, user, allowed, subAgents, reached, history>>

ReadLastRoleOnly(t, r) ==
  /\ tpc[t] = "role_docs"
  /\ r \in toRead[t]
  /\ toRead' = [toRead EXCEPT ![t] = @ \ {r}]
  /\ allowed' = [allowed EXCEPT ![t] = IF roles[r] = Absent THEN {} ELSE roles[r].agents]
  /\ UNCHANGED <<roles, users, shared, tpc, user, subAgents, reached, history>>

ReadRoleDoc(t, r) ==
  /\ tpc[t] = "role_docs"
  /\ r \in toRead[t]
  /\ toRead' = [toRead EXCEPT ![t] = @ \ {r}]
  /\ allowed' = [allowed EXCEPT ![t] =
       @ \cup (IF roles[r] = Absent THEN {} ELSE roles[r].agents)]
  /\ UNCHANGED <<roles, users, shared, tpc, user, subAgents, reached, history>>

\* Is there a read left that may raise?  No identity means none.
Reading(t) ==
  \/ tpc[t] = "user_doc" /\ user[t] # Absent
  \/ tpc[t] = "role_docs" /\ toRead[t] # {}

ReadFailsKeepingPartial(t) ==
  /\ Reading(t)
  /\ tpc' = [tpc EXCEPT ![t] = "trim"]
  /\ toRead' = [toRead EXCEPT ![t] = {}]
  /\ failed' = [failed EXCEPT ![t] = TRUE]
  /\ UNCHANGED <<roles, users, shared, user, allowed, subAgents, reached,
                 undisturbed, held, offered>>

ReadFailsKeepingQueue(t) ==
  /\ Reading(t)
  /\ tpc' = [tpc EXCEPT ![t] = "trim"]
  /\ allowed' = [allowed EXCEPT ![t] = {}]
  /\ failed' = [failed EXCEPT ![t] = TRUE]
  /\ UNCHANGED <<roles, users, shared, user, toRead, subAgents, reached,
                 undisturbed, held, offered>>

\* Any exception throws away what was collected: the empty set is memoised.
ReadFails(t) ==
  /\ Reading(t)
  /\ tpc' = [tpc EXCEPT ![t] = "trim"]
  /\ toRead' = [toRead EXCEPT ![t] = {}]
  /\ allowed' = [allowed EXCEPT ![t] = {}]
  /\ failed' = [failed EXCEPT ![t] = TRUE]
  /\ UNCHANGED <<roles, users, shared, user, subAgents, reached, undisturbed, held, offered>>

Resolved(t) ==
  /\ tpc[t] = "role_docs"
  /\ toRead[t] = {}
  /\ tpc' = [tpc EXCEPT ![t] = "trim"]
  /\ UNCHANGED <<roles, users, shared, user, toRead, allowed, subAgents, reached, history>>

\* ALLOW_ALL is the memo that holds "*".
Permits(memo, a) == Star \in memo \/ a \in memo

-----------------------------------------------------------------------------
(* The two hooks.                                                          *)

\* before_agent_acl.  On the shared root it leaves the list alone.
Trim(t) ==
  /\ tpc[t] = "trim"
  /\ tpc' = [tpc EXCEPT ![t] = "running"]
  /\ subAgents' = IF shared THEN subAgents
                  ELSE [subAgents EXCEPT ![t] = {a \in @ : Permits(allowed[t], a)}]
  /\ UNCHANGED <<roles, users, shared, user, toRead, allowed, reached, history>>

BlockedByHidingOnly(t, a) == a \notin subAgents[t]

\* before_tool_acl denies the call; ADK itself only knows attached agents.
Blocked(t, a) == ~ Permits(allowed[t], a) \/ a \notin subAgents[t]

\* The model calls transfer_to_agent(a).  A denied call only returns text.
Transfer(t, a) ==
  /\ tpc[t] = "running"
  /\ ~ Blocked(t, a)
  /\ reached' = [reached EXCEPT ![t] = @ \cup {a}]
  /\ UNCHANGED <<roles, users, shared, tpc, user, toRead, allowed, subAgents, history>>

EndKeepingMemo(t) ==
  /\ tpc[t] = "running"
  /\ tpc' = [tpc EXCEPT ![t] = "idle"]
  /\ user' = [user EXCEPT ![t] = Absent]
  /\ subAgents' = [subAgents EXCEPT ![t] = {}]
  /\ reached' = [reached EXCEPT ![t] = {}]
  /\ failed' = [failed EXCEPT ![t] = FALSE]
  /\ undisturbed' = [undisturbed EXCEPT ![t] = FALSE]
  /\ held' = [held EXCEPT ![t] = {}]
  /\ offered' = [offered EXCEPT ![t] = {}]
  /\ UNCHANGED <<roles, users, shared, toRead, allowed>>

\* The invocation context goes, and the memo with it.
End(t) ==
  /\ tpc[t] = "running"
  /\ tpc' = [tpc EXCEPT ![t] = "idle"]
  /\ user' = [user EXCEPT ![t] = Absent]
  /\ allowed' = [allowed EXCEPT ![t] = {}]
  /\ subAgents' = [subAgents EXCEPT ![t] = {}]
  /\ reached' = [reached EXCEPT ![t] = {}]
  /\ failed' = [failed EXCEPT ![t] = FALSE]
  /\ undisturbed' = [undisturbed EXCEPT ![t] = FALSE]
  /\ held' = [held EXCEPT ![t] = {}]
  /\ offered' = [offered EXCEPT ![t] = {}]
  /\ UNCHANGED <<roles, users, shared, toRead>>

-----------------------------------------------------------------------------
(* The administrators.                                                     *)

\* What a change of the store means for the history of the turns in progress.
Witness ==
  /\ undisturbed' = [t \in Turn |-> FALSE]
  /\ held' = [t \in Turn |-> IF tpc[t] = "idle" THEN {}
                             ELSE held[t] \cup RolesOf(users', user[t])]
  /\ offered' = [t \in Turn |-> IF tpc[t] = "idle" THEN {}
                                ELSE offered[t] \cup Offers(roles')]
  /\ UNCHANGED failed

\* One document is written or deleted, by the admin API or by provisioning.
StoreChange(o) ==
  /\ Applicable(o, roles, users)
  /\ roles' = RolesAfter(o, roles)
  /\ users' = UsersAfter(o, users)
  /\ Witness
  /\ UNCHANGED <<shared, turnVars>>

TurnStep(t) ==
  \/ ReadUserDoc(t) \/ \E r \in Role : ReadRoleDoc(t, r)
  \/ ReadFails(t) \/ Resolved(t) \/ Trim(t)
  \/ \E a \in Agent : Transfer(t, a)
  \/ End(t)

Next ==
  \/ \E t \in Turn :
       \/ \E u \in Email \cup {Absent}, attached \in SUBSET Agent : Begin(t, u, attached)
       \/ TurnStep(t)
  \/ \E o \in Ops : StoreChange(o)

Spec == Init /\ [][Next]_vars

-----------------------------------------------------------------------------
(* Properties.                                                             *)

\* Every variable keeps its type; nothing is collected before the first read,
\* reads are left only while the roles are being read, and nothing is reached
\* before the hooks have run.
TypeOK ==
  /\ roles \in RoleDocs
  /\ users \in UserDocs
  /\ shared \in BOOLEAN
  /\ tpc \in [Turn -> {"idle", "user_doc", "role_docs", "trim", "running"}]
  /\ user \in [Turn -> Email \cup {Absent}]
  /\ toRead \in [Turn -> SUBSET Role]
  /\ allowed \in [Turn -> SUBSET Grant]
  /\ subAgents \in [Turn -> SUBSET Agent]
  /\ reached \in [Turn -> SUBSET Agent]
  /\ failed \in [Turn -> BOOLEAN]
  /\ undisturbed \in [Turn -> BOOLEAN]
  /\ held \in [Turn -> SUBSET Role]
  /\ offered \in [Turn -> SUBSET (Role \X Grant)]
  /\ \A t \in Turn :
       /\ tpc[t] \in {"idle", "user_doc"} => allowed[t] = {}
       /\ tpc[t] # "role_docs" => toRead[t] = {}
       /\ tpc[t] # "running" => reached[t] = {}

\* Whatever the administrators do meanwhile, an agent is permitted only through a
\* role the user held at some moment of this very turn and that listed the agent
\* (or "*") at some moment of this very turn: nothing survives from an earlier
\* turn, "no cross-turn cache => instant revoke" (acl.py:26-27).
GrantsComeFromThisTurn ==
  \A t \in Turn :
    /\ toRead[t] \subseteq held[t]
    /\ \A g \in allowed[t] : \E r \in held[t] : <<r, g>> \in offered[t]

\* The policed set is "anything not allowed" (acl.py:13-16): a transfer that went
\* through has such a role behind it even if nothing could be hidden.
NoForbiddenTransfer ==
  \A t \in Turn : \A a \in reached[t] :
    \E r \in held[t] : <<r, a>> \in offered[t] \/ <<r, Star>> \in offered[t]

\* If the store stands still and no read fails, the turn may reach exactly what
\* the documents grant its user, no more and no less.
ResolutionIsExact ==
  \A t \in Turn :
    undisturbed[t] /\ ~ failed[t] /\ tpc[t] \in {"trim", "running"} =>
      allowed[t] = (IF user[t] = Absent THEN {} ELSE Granted(roles, users, user[t]))

\* "A lookup failure must never grant access" (acl.py:34-35).
FailClosed == \A t \in Turn : failed[t] => allowed[t] = {} /\ reached[t] = {}

=============================================================================
