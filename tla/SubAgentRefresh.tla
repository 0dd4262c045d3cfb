--------------------------- MODULE SubAgentRefresh ---------------------------
(***************************************************************************)
(* The supervisor's runtime refresh of its specialists:                    *)
(* agents/my_supervisor_agent/app/agent.py, lines 130 to 301, in one       *)
(* worker process, against an Agent Registry that moves.                   *)
(*                                                                         *)
(* A proxy is known by the generation of the engine its card points at: 1  *)
(* is the engine baked into the deployment, 0 is no proxy at all.  The     *)
(* TTL clock is abstracted to "fresh": the last refresh is younger than    *)
(* _REFRESH_TTL.                                                           *)
(*                                                                         *)
(* Between two awaits a coroutine runs alone on its loop, so an action is  *)
(* what happens from one await to the next.  LoopOf gives the event loop   *)
(* of each turn: client.py:183-186 says each request has its own, and      *)
(* _refresh_lock is one asyncio.Lock of the module, which binds itself to  *)
(* the loop of the first turn that has to wait for it.                     *)
(***************************************************************************)
EXTENDS Naturals, Sequences, FiniteSets

CONSTANTS
  Turn,      \* requests the worker may be serving at once
  Display,   \* display names _attachment_allowed lets through
  MaxGen,    \* bound: engine generations registered per display name
  Loop,      \* event loops
  LoopOf,    \* the loop each turn runs on
  None       \* nobody, no loop

ASSUME RefreshAssumption ==
  /\ MaxGen \in Nat \ {0}
  /\ LoopOf \in [Turn -> Loop]
  /\ None \notin Turn \cup Loop

Gen == 0 .. MaxGen
Proxies == [Display -> Gen]
NoProxy == [d \in Display |-> 0]

VARIABLES
  registry,   \* the engine generations with an entry, per display name
  resolved,   \* _resolved: the cache of built proxies
  root,       \* the sub_agents of the module's root_agent
  fresh,      \* _last_refresh is less than a TTL ago
  holder,     \* who holds _refresh_lock
  waiters,    \* the lock's queue of futures, by turn
  woken,      \* the waiters whose future is done
  lockLoop,   \* the loop the lock is bound to
  tpc,        \* where each turn is
  found,      \* what the turn's list_agents discovered
  toBuild,    \* the proxies it has still to build
  subAgents,  \* the sub_agents of the turn's own copy of root_agent
  promised    \* history: the cache when the turn began

lockVars == <<holder, waiters, woken, lockLoop>>
vars == <<registry, resolved, root, fresh, holder, waiters, woken, lockLoop,
          tpc, found, toBuild, subAgents, promised>>

Init ==
  /\ registry = [d \in Display |-> {1}]
  /\ resolved = NoProxy
  /\ root \in [Display -> {0, 1}]
  /\ fresh = FALSE
  /\ holder = None
  /\ waiters = <<>>
  /\ woken = {}
  /\ lockLoop = None
  /\ tpc = [t \in Turn |-> "idle"]
  /\ found = [t \in Turn |-> NoProxy]
  /\ toBuild = [t \in Turn |-> {}]
  /\ subAgents = [t \in Turn |-> NoProxy]
  /\ promised = [t \in Turn |-> NoProxy]

-----------------------------------------------------------------------------
(* Pure parts.                                                             *)

\* _discover_agents: of the entries with one display name, the newest.
Newest(gens) == IF gens = {} THEN 0 ELSE CHOOSE g \in gens : \A h \in gens : h <= g

\* Cached proxies replace or join those there are; none is ever removed.  This is
\* _mirror_cache_to_root on the shared root and _apply_resolved on a turn's copy.
Repoint(proxies, cache) ==
  [d \in Display |-> IF cache[d] # 0 THEN cache[d] ELSE proxies[d]]

-----------------------------------------------------------------------------
(* _refresh_lock, an asyncio.Lock.                                         *)

LockFree == holder = None /\ waiters = <<>>

\* The first waiter's future is set; the turn itself resumes later.
Release ==
  /\ holder' = None
  /\ woken' = IF waiters = <<>> THEN woken ELSE woken \cup {Head(waiters)}
  /\ UNCHANGED <<waiters, lockLoop>>

\* deque.remove: a turn is in the queue once.
Without(seq, t) ==
  LET i == CHOOSE j \in DOMAIN seq : seq[j] = t
  IN SubSeq(seq, 1, i - 1) \o SubSeq(seq, i + 1, Len(seq))

-----------------------------------------------------------------------------
(* A turn.                                                                 *)

\* ADK deep-copies root_agent for the request.
Begin(t) ==
  /\ tpc[t] = "idle"
  /\ tpc' = [tpc EXCEPT ![t] = "check"]
  /\ subAgents' = [subAgents EXCEPT ![t] = root]
  /\ promised' = [promised EXCEPT ![t] = resolved]
  /\ UNCHANGED <<registry, resolved, root, fresh, lockVars, found, toBuild>>

\* _refresh_resolved_cache has returned: re-point and serve.
Apply(t, cache) ==
  /\ tpc' = [tpc EXCEPT ![t] = "ready"]
  /\ subAgents' = [subAgents EXCEPT ![t] = Repoint(@, cache)]
  /\ found' = [found EXCEPT ![t] = NoProxy]
  /\ toBuild' = [toBuild EXCEPT ![t] = {}]

Throttled(t) ==
  /\ tpc[t] = "check"
  /\ fresh
  /\ Apply(t, resolved)
  /\ UNCHANGED <<registry, resolved, root, fresh, lockVars, promised>>

TakeLock(t) ==
  /\ tpc[t] = "check"
  /\ ~ fresh
  /\ LockFree
  /\ holder' = t
  /\ tpc' = [tpc EXCEPT ![t] = "list"]
  /\ UNCHANGED <<registry, resolved, root, fresh, waiters, woken, lockLoop,
                 found, toBuild, subAgents, promised>>

\* acquire() on a taken lock creates a future on the loop the lock is bound to.
WaitForLock(t) ==
  /\ tpc[t] = "check"
  /\ ~ fresh
  /\ ~ LockFree
  /\ lockLoop \in {None, LoopOf[t]}
  /\ lockLoop' = LoopOf[t]
  /\ waiters' = Append(waiters, t)
  /\ tpc' = [tpc EXCEPT ![t] = "waiting"]
  /\ UNCHANGED <<registry, resolved, root, fresh, holder, woken,
                 found, toBuild, subAgents, promised>>

\* On any other loop it raises RuntimeError; _refresh_sub_agents logs it and goes
\* on, past _apply_resolved.
LockRaises(t) ==
  /\ tpc[t] = "check"
  /\ ~ fresh
  /\ ~ LockFree
  /\ lockLoop \notin {None, LoopOf[t]}
  /\ tpc' = [tpc EXCEPT ![t] = "ready"]
  /\ UNCHANGED <<registry, resolved, root, fresh, lockVars,
                 found, toBuild, subAgents, promised>>

ResumeWithoutRecheck(t) ==
  /\ tpc[t] = "waiting"
  /\ t \in woken
  /\ waiters' = Without(waiters, t)
  /\ holder' = t
  /\ woken' = woken \ {t}
  /\ tpc' = [tpc EXCEPT ![t] = "list"]
  /\ UNCHANGED <<registry, resolved, root, fresh, lockLoop, found, toBuild,
                 subAgents, promised>>

\* The waiter resumes with the lock and looks at the clock once more.
Resume(t) ==
  /\ tpc[t] = "waiting"
  /\ t \in woken
  /\ waiters' = Without(waiters, t)
  /\ \/ /\ fresh
        /\ holder' = None
        /\ woken' = (woken \ {t}) \cup
             (IF waiters' = <<>> THEN {} ELSE {Head(waiters')})
        /\ Apply(t, resolved)
     \/ /\ ~ fresh
        /\ holder' = t
        /\ woken' = woken \ {t}
        /\ tpc' = [tpc EXCEPT ![t] = "list"]
        /\ UNCHANGED <<found, toBuild, subAgents>>
  /\ UNCHANGED <<registry, resolved, root, fresh, lockLoop, promised>>

ListAgentsAnyOrder(t) ==
  /\ tpc[t] = "list"
  /\ \E f \in Proxies : /\ \A d \in Display : f[d] \in registry[d]
                         /\ found' = [found EXCEPT ![t] = f]
  /\ toBuild' = [toBuild EXCEPT ![t] = Display]
  /\ tpc' = [tpc EXCEPT ![t] = "build"]
  /\ UNCHANGED <<registry, resolved, root, fresh, lockVars, subAgents, promised>>

ListAgents(t) ==
  /\ tpc[t] = "list"
  /\ found' = [found EXCEPT ![t] = [d \in Display |-> Newest(registry[d])]]
  /\ toBuild' = [toBuild EXCEPT ![t] = {d \in Display : registry[d] # {}}]
  /\ tpc' = [tpc EXCEPT ![t] = "build"]
  /\ UNCHANGED <<registry, resolved, root, fresh, lockVars, subAgents, promised>>

RefreshedWithoutMirror(t) ==
  /\ tpc[t] = "build"
  /\ toBuild[t] = {}
  /\ fresh' = TRUE
  /\ Release
  /\ Apply(t, resolved)
  /\ UNCHANGED <<registry, resolved, root, promised>>

CancelledMidBuild(t) ==
  /\ \/ /\ tpc[t] \in {"list", "build"}
        /\ Release
     \/ /\ tpc[t] = "waiting"
        /\ waiters' = Without(waiters, t)
        /\ UNCHANGED <<woken, holder, lockLoop>>
  /\ tpc' = [tpc EXCEPT ![t] = "idle"]
  /\ UNCHANGED <<registry, resolved, root, fresh, found, toBuild, subAgents, promised>>

ListFailsRaising(t) ==
  /\ tpc[t] = "list"
  /\ Release
  /\ tpc' = [tpc EXCEPT ![t] = "ready"]
  /\ UNCHANGED <<registry, resolved, root, fresh, found, toBuild, subAgents, promised>>

ListFailsHoldingLock(t) ==
  /\ tpc[t] = "list"
  /\ Apply(t, resolved)
  /\ UNCHANGED <<registry, resolved, root, fresh, lockVars, promised>>

\* The cache is kept, the clock is not touched, the turn is served from the cache.
ListFails(t) ==
  /\ tpc[t] = "list"
  /\ Release
  /\ Apply(t, resolved)
  /\ UNCHANGED <<registry, resolved, root, fresh, promised>>

BuildOnlyNew(t, d) ==
  /\ tpc[t] = "build"
  /\ d \in toBuild[t]
  /\ resolved' = IF resolved[d] # 0 THEN resolved
                 ELSE [resolved EXCEPT ![d] = found[t][d]]
  /\ toBuild' = [toBuild EXCEPT ![t] = @ \ {d}]
  /\ UNCHANGED <<registry, root, fresh, lockVars, tpc, found, subAgents, promised>>

Build(t, d) ==
  /\ tpc[t] = "build"
  /\ d \in toBuild[t]
  /\ resolved' = [resolved EXCEPT ![d] = found[t][d]]
  /\ toBuild' = [toBuild EXCEPT ![t] = @ \ {d}]
  /\ UNCHANGED <<registry, root, fresh, lockVars, tpc, found, subAgents, promised>>

\* One proxy that cannot be built keeps its predecessor.
BuildFails(t, d) ==
  /\ tpc[t] = "build"
  /\ d \in toBuild[t]
  /\ toBuild' = [toBuild EXCEPT ![t] = @ \ {d}]
  /\ UNCHANGED <<registry, resolved, root, fresh, lockVars, tpc, found,
                 subAgents, promised>>

\* Mirror, stamp, release, then re-point this turn as well.
Refreshed(t) ==
  /\ tpc[t] = "build"
  /\ toBuild[t] = {}
  /\ root' = Repoint(root, resolved)
  /\ fresh' = TRUE
  /\ Release
  /\ Apply(t, resolved)
  /\ UNCHANGED <<registry, resolved, promised>>

Reset(t) ==
  /\ tpc' = [tpc EXCEPT ![t] = "idle"]
  /\ found' = [found EXCEPT ![t] = NoProxy]
  /\ toBuild' = [toBuild EXCEPT ![t] = {}]
  /\ subAgents' = [subAgents EXCEPT ![t] = NoProxy]
  /\ promised' = [promised EXCEPT ![t] = NoProxy]

\* The caller goes away: CancelledError is no Exception, so it leaves through
\* "async with" (which releases) or through acquire() (which leaves the queue and
\* hands a wake-up it had already received on to the next waiter).
Cancelled(t) ==
  /\ \/ /\ tpc[t] \in {"list", "build"}
        /\ Release
     \/ /\ tpc[t] = "waiting"
        /\ waiters' = Without(waiters, t)
        /\ woken' = (woken \ {t}) \cup
             (IF holder = None /\ waiters' # <<>> THEN {Head(waiters')} ELSE {})
        /\ UNCHANGED <<holder, lockLoop>>
  /\ Reset(t)
  /\ UNCHANGED <<registry, resolved, root, fresh>>

\* The model answers, through the proxies the turn has.
End(t) ==
  /\ tpc[t] = "ready"
  /\ Reset(t)
  /\ UNCHANGED <<registry, resolved, root, fresh, lockVars>>

-----------------------------------------------------------------------------
(* The surroundings.                                                       *)

TtlExpires ==
  /\ fresh
  /\ fresh' = FALSE
  /\ UNCHANGED <<registry, resolved, root, lockVars, tpc, found, toBuild,
                 subAgents, promised>>

\* A deploy registers a new engine beside the old ones.
Register(d) ==
  /\ Newest(registry[d]) < MaxGen
  /\ registry' = [registry EXCEPT ![d] = @ \cup {Newest(@) + 1}]
  /\ UNCHANGED <<resolved, root, fresh, lockVars, tpc, found, toBuild,
                 subAgents, promised>>

\* --sync-registry drops a duplicate, never the newest.
Prune(d, g) ==
  /\ g \in registry[d]
  /\ g # Newest(registry[d])
  /\ registry' = [registry EXCEPT ![d] = @ \ {g}]
  /\ UNCHANGED <<resolved, root, fresh, lockVars, tpc, found, toBuild,
                 subAgents, promised>>

Refreshing(t) ==
  \/ Throttled(t) \/ TakeLock(t) \/ WaitForLock(t) \/ LockRaises(t) \/ Resume(t)
  \/ ListAgents(t) \/ ListFails(t)
  \/ \E d \in Display : Build(t, d) \/ BuildFails(t, d)
  \/ Refreshed(t)

Next ==
  \/ \E t \in Turn : Begin(t) \/ Refreshing(t) \/ Cancelled(t) \/ End(t)
  \/ TtlExpires
  \/ \E d \in Display : Register(d) \/ \E g \in 1 .. MaxGen : Prune(d, g)

Spec == Init /\ [][Next]_vars

\* Coroutines on one loop run when they can, and every call to the registry
\* returns or raises.
FairSpec == Spec /\ \A t \in Turn : WF_vars(Refreshing(t))

\* Besides, users keep coming, time passes, the registry does not fail for ever, and
\* not every caller leaves before the lock is handed to it.
Busy ==
  /\ WF_vars(TtlExpires)
  /\ \A t \in Turn :
       /\ WF_vars(Begin(t)) /\ WF_vars(End(t))
       /\ SF_vars(TakeLock(t)) /\ SF_vars(Resume(t))
       /\ SF_vars(ListAgents(t))
       /\ \A d \in Display : SF_vars(Build(t, d))
       /\ SF_vars(Refreshed(t))

BusySpec == FairSpec /\ Busy

-----------------------------------------------------------------------------
(* Properties.                                                             *)

\* Every variable keeps its type, and a turn carries discoveries and proxies only
\* while it is at the step that uses them.
TypeOK ==
  /\ registry \in [Display -> SUBSET (1 .. MaxGen)]
  /\ resolved \in Proxies
  /\ root \in Proxies
  /\ fresh \in BOOLEAN
  /\ holder \in Turn \cup {None}
  /\ waiters \in Seq(Turn)
  /\ woken \in SUBSET Turn
  /\ lockLoop \in Loop \cup {None}
  /\ tpc \in [Turn -> {"idle", "check", "waiting", "list", "build", "ready"}]
  /\ found \in [Turn -> Proxies]
  /\ toBuild \in [Turn -> SUBSET Display]
  /\ subAgents \in [Turn -> Proxies]
  /\ promised \in [Turn -> Proxies]
  /\ \A t \in Turn :
       /\ tpc[t] # "build" => toBuild[t] = {} /\ found[t] = NoProxy
       /\ tpc[t] = "idle" => subAgents[t] = NoProxy /\ promised[t] = NoProxy

\* The registry is listed by the lock's holder alone and never inside a window
\* another turn has just refreshed: the double check of agent.py:226 and 229.
OneRefresherPerWindow ==
  /\ \A t \in Turn : tpc[t] \in {"list", "build"} => holder = t /\ ~ fresh
  /\ holder # None => tpc[holder] \in {"list", "build"}

\* The cache never goes back to an older engine, whichever turns refresh it, fail
\* half-way or are cancelled.
CacheNeverGoesBack ==
  [][\A d \in Display : resolved[d] <= resolved'[d]]_vars

\* "Once the cache has the new engine, no turn serves a baked-but-dead URI"
\* (agent.py:251-252), as far as it is true: only a turn on another loop than the
\* lock's can be served by proxies older than the cache was when it began.
BehindOnlyOffLoop ==
  \A t \in Turn : tpc[t] = "ready" /\ lockLoop \in {None, LoopOf[t]} =>
    \A d \in Display : promised[t][d] <= subAgents[t][d]

\* A window is opened only by a refresh that has listed the registry, and then the
\* shared root is no older than the cache: later copies start fresh (agent.py:202).
RootFollowsCache ==
  fresh => \A d \in Display : resolved[d] <= root[d]

\* Best-effort, but never in the way: every turn gets past the refresh, or its
\* caller leaves.
TurnsGetThrough ==
  \A t \in Turn : tpc[t] = "check" ~> tpc[t] \in {"ready", "idle"}

\* A newly registered engine is picked up without redeploying the supervisor
\* (agent.py:6-8).
CacheCatchesUp ==
  \A d \in Display : MaxGen \in registry[d] ~> resolved[d] = MaxGen
=============================================================================
