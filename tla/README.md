# Verification of the ADK / Apigee multi-agent demo

TLA+ modules, TLC runs and TLAPS proofs about the repository's own logic: who may
use which agent, who may change that, how the supervisor keeps track of the
specialists while they are redeployed, what a user sees of an answer and finds again
later, what a trace says about the time, and whether the provisioning tools bring a
cloud in order and keep it so. Paths are relative to the repository.

    tlc -workers 2 -config AclAdminRace.cfg MCAclAdmin     # one run
    tlapm AclAdminProofs.tla                               # one proof module

## 1. The system

    browser -> IAP -> BFF (frontend/app) -> Apigee -> supervisor (Agent Engine)
                       |                                 |  reads ACL per turn
                       | admin API                       |  A2A to specialists
                       v                                 v
                    Firestore acl_roles / acl_users   order, product, customer agents
                       ^                                 |  MCP through Apigee
                       | seed                            v
                    provision_agents.py               orders / products / customers services

| component | state it keeps | operations | talks to |
|---|---|---|---|
| BFF admin API (`frontend/app/admin.py`, `server.py:309-377`) | none of its own; Firestore `acl_roles`, `acl_users` | put/delete role, put/delete user, admin check | Firestore, one call at a time, in worker threads |
| ACL seeding (`provision_agents.py:_apply_acl`) | the same two collections | GET, decide, PATCH, for each document of the manifest | Firestore REST |
| supervisor ACL hooks (`my_supervisor_agent/app/acl.py`) | a memo per turn | resolve, hide, block | Firestore, ADK callbacks |
| supervisor refresh (`my_supervisor_agent/app/agent.py:130-310`) | `_resolved`, `_last_refresh`, `_refresh_lock`, `root_agent.sub_agents` | list the registry, build proxies, mirror, re-point | Agent Registry, ADK |
| A2A clients (`a2a_common/client.py`) | an httpx client per proxy and loop | attach, bind to the loop | specialists |
| BFF agent client and direct view (`agent_client.py`, `llm_client.py`) | title cache | create session, stream a turn, list, delete | supervisor and models through Apigee |
| BFF server (`server.py`) | none | one generator per streamed turn, one log entry per turn | browser, agent client, Cloud Logging |
| engine logging (`a2a_common/model.py`, `ailog.py`) | a start time per call (contextvars) | one record per call, tool, delegation, request | Cloud Logging |
| IAP identity (`iap.py`) | certificate cache | verify | Google |
| trace explorer (`trace_explorer.py`) | none | rebuild one trace, a session tree | Cloud Logging |
| rollout tool (`deploy_agents.py`) | engines, registry entries | deploy, check, cleanup, sync-registry | Agent Engine, Registry |
| provisioning tools (`apigee/provision`, `agents/provision`, `services/provision`, `analytics`) | cloud resources | findings, plan, apply | gcloud, REST |
| LLM gateway (`apigee/proxies/*llm*`) | token quota counters | enforce, stream, count | models |
| e-commerce services (`services/*/app`) | Cloud SQL rows | CRUD | the database |

What is hard about it:

* **No transactions.** The admin API, the seed and the supervisor all read several
  documents with separate calls and act on what they read. Every pair of calls is a
  place for another writer.
* **Indirection.** Being an admin is `user -> roles -> is_admin`; being allowed an
  agent is `user -> roles -> agents`. A change of either document matters.
* **Failure.** Every read may raise; the promise is "fail closed" for authorisation
  and "serve with what you have" for the refresh. Handlers, seed runs and turns stop
  anywhere.
* **Cooperative concurrency.** Turns share one cache and one `asyncio.Lock`; they are
  cancelled at any `await`; each request may have an event loop of its own.
* **A moving registry.** Deploys add entries, cleanups remove them, listings are old
  when used.
* **Streams.** Chunks end anywhere, partial events are repeated by consolidated ones,
  bodies break off, browsers leave; the same answer is shown live, logged, stored and
  replayed by four different pieces of code.
* **Clocks and logs.** A turn leaves records of half a dozen components, written at the
  end of each part, some lost and some doubled; where the time went is reconstructed.
* **Tools without transactions.** Ten provisioning commands read listings that may fail,
  decide on findings, and issue hundreds of calls of which any may fail or be late.

What makes each part correct, in one line: the ledger of ACL changes is only
extended by admins and never loses the last one; a turn reaches only what its user
was granted during this turn; the supervisor's cache only moves forward and one turn
at a time refreshes it; a rollout never loses the newest engine of an agent, nor the
registry's way to it; a seed run that is repeated until it gets through leaves the
seed in place and takes nothing from anybody; an answer is shown, logged and replayed
the same; every millisecond of a turn is somebody's; a provisioning tool takes nothing
away, says "in order" only of what is, and repeated often enough gets there.

## 2. Modules

| module | what it is | extends |
|---|---|---|
| `AclStore` | the two collections as functions from document id to document, and the decision logic that is pure over them (`admin_emails`, `is_admin`, the argument checks, the lockout guard) | |
| `AclLedger` | the abstract specification: one authorised, guarded mutation at a time | `AclStore` |
| `AclAdmin` | the admin API: handlers in flight, one action per Firestore call | `AclStore`; refines `AclLedger` |
| `AclSeed` | `_apply_acl` beside the administrators, who are the ledger's `Mutate` | `AclLedger` |
| `SupervisorAcl` | supervisor turns: resolve, hide, block, while the store changes | `AclStore` |
| `SubAgentRefresh` | the registry refresh in one supervisor process | |
| `Rollout` | deploy, cleanup and registry prune by several operators | |
| `AnswerEvents` | the events of an answer and who reads them: live relay, buffered aggregation, replay, title | |
| `Conversation` | turns, sidebar, deletion, restart, against an engine that stores sessions | `AnswerEvents` |
| `TraceExplorer` | the latency attribution of a trace, as operators over records | |
| `TurnTrace` | turns that take time and write those records | `TraceExplorer` |
| `Cloud` | the vocabulary of the provisioning tools: rows, findings, calls and what they do | |
| `ServicesTool`, `GatewayTool`, `AgentsTool`, `DeliveryTools` | the rows and calls of each tool, in its own order | `Cloud` |
| `Provisioning` | campaigns: the tools run one after the other, over and over, with mishaps | the four tools; refines `Upkeep` |
| `Upkeep` | the abstract specification: a run takes nothing out of order that was in order | |
| `AclAdminProofs`, `AclSeedProofs`, `SupervisorAclProofs`, `SubAgentRefreshProofs`, `RolloutProofs`, `ConversationProofs`, `ProvisioningProofs` | theorems | the module named, TLAPS |
| `SequenceInduction` | induction over numbers and sequences and what a fold computes, for an operator that is a constant of the module; `ConversationProofs` instantiates it for each operator it needs | |
| `MC...` | values of the constants for TLC | the module named |

Definitions named for a fault (`AcceptsUnguarded`, `ResumeWithoutRecheck`,
`ReadFailsKeepingPartial`, ...) stand before the definition they distort. No
behaviour uses them; putting one in its place shows which property notices.
`PROJECT.json` names one for each property; `AnswersReplay` is also violated with
`ShowNothingMore` and with `TruncSilently`.

### AclStore, AclLedger, AclAdmin

`roles` and `users` are total functions with `Absent` for "no document". An operation
is a record `[col, key, doc]`, with `doc = Absent` for a delete. `Lower` is
`strip().lower()`; `Email` and `Role` hold spellings, so that a request for `Ann`
and one for `ann` are different inputs that reach the same document. `Slug` and
`Address` stand for the two regular expressions. A role document is its set of
grants and its flag: the list check on `agents` is abstracted into them.

A handler of `AclAdmin` goes through

    idle -> auth_roles -> auth_users -> mut_roles -> mut_users -> write -> done -> idle

which are `_admin_identity` / `require_admin` (two streams), then `put_role`,
`delete_role`, `put_user` or `delete_user` in a second `to_thread` call (two streams,
checks and guard in memory, one write). `AuthFails` and `MutationFails` are a raising
call, at any point; `Write` may also answer "error" although Firestore has applied the
change. `undisturbed` is a history variable.

### AclSeed

A run takes the seed roles, then the seed users; each is a GET (`GetRole`, `GetUser`)
and a decision with a PATCH (`PatchRole`, `PatchUser`). Roles are set exactly, users
get the union of what was read and the seed. `Killed` is the operator's Ctrl-C, an
HTTP error, or a database that cannot be created. Administrators are `AclLedger`'s
`Mutate`: this composition uses the abstract specification, so what it shows does not
depend on races inside the admin API.

### SupervisorAcl

A turn is `idle -> user_doc -> role_docs -> trim -> running -> idle`. `toRead` are the
role documents still to be read, `allowed` what has been collected and then the memo,
`shared` the case the code guards against, in which ADK hands out the module's own
`root_agent`. `held` and `offered` are history: what the store has granted the user
since the turn began. `StoreChange` is any document change.

### SubAgentRefresh

A proxy is known by the generation of the engine it points at: 0 is none, 1 the one
baked into the deployment. `fresh` abstracts the clock: the last refresh is younger
than the TTL. The lock is modelled as `asyncio.Lock` is implemented: a flag, a queue
of futures, wake-up of the first waiter on release, hand-over of the wake-up by a
cancelled waiter, and the binding to the loop of the first turn that has to wait
(`lockLoop`). An action is what a coroutine does from one `await` to the next.

Assumed: the acquisition of a free lock is atomic also between loops, which the GIL
gives for the test and the set of the flag only as long as no thread switch falls
between them. The builds of one refresh are taken in any order (the code: the order of
the listing). That a registry listing has a single page is an abstraction (see the
hazards).

The registry moves by two actions, `Register` and `Prune`, and always forward: the
newest entry is the newest engine, as `_discover_agents` has it. `Rollout` shows when
that is not so.

### Rollout

An engine is `(agent, generation)`. `entries[a]` is the registry's list of an agent's
entries in the order of `updateTime`, so the one every reader picks is the last. An
entry has two URLs, because the tool's own docstring reports that the platform has
updated one and left the other; routing reads `proto`.

Deploy workers are `Stage` (the artifacts reach the bucket at `Dir(a)`) and `Create`.
The platform registers an engine later (`Register`, `RegisterOver`), in any order.
A run of the tool goes through

    off -> c_prompt -> c_delete -> c_done -> off                        --cleanup
    off -> s_list -> s_inspect -> s_prompt -> s_delete -> s_done -> off --sync-registry

with a listing at the first arrow (and the second, for entries) and one deletion per
step. `Exit` is the end, "no" at the prompt, Ctrl-C, or a request that raises. `blind`
is the set of entries whose detail could not be read and whose summary has no URL.
`calm` is history: no engine was created or registered, no read or delete failed and
no other run deleted entries since this one began.

Abstracted: a listing is one step though it may have pages; deletion of an engine
takes effect at once; all details of a prune are read in one step, after the listing;
update times are distinct. Console deletions of engines are outside the model.

### AnswerEvents, Conversation

What the engine and the models send is external and written as the comments of
`agent_turn_stream` describe it. An answer is a script of steps: a message (thoughts,
words, perhaps a transfer), a tool result, or a failing hop; or one model's frames in
the direct view. A piece of text is `<<turn, step, number>>`, so that losing, doubling
or moving one shows. `Relay` is one pass of the loop of `agent_turn_stream`,
`RelayFrame` one of `chat_stream`, `Aggregate` and `EventsToTurns` are `_aggregate` and
`_events_to_turns`. The body is text, two pieces to an object (`Text`), and `Drain`
is `_drain_json`: what can be decoded from the front of a buffer, and what stays in it.

A consolidated event may hold a channel in several parts (`rest`: what comes after
the first). The loop decides part by part whether to skip, and the first part resets the
flag: `Show` skips the first part only. That the consolidated event of a *streamed*
message repeats it in one part is what the docstring of `agent_turn_stream` takes for
granted (`RepeatedInOnePart`), and `AnswersReplay` needs it; the run keeps to it. Messages
that are not streamed may have any number of parts.

`Scripts` may hold answers of any length: `ScriptsAssumption` only says that a script is
a list of agents' steps, not empty, or one model's answer, and that Gemini, which says
the usage in every frame, answers with one at least.

A turn goes `creating -> created -> asking -> reading -> ended -> idle`. `wire` holds
what was sent and has not arrived whole. `Receive` takes a chunk that ends after any
object or in the middle of one (`half`), appends it to `buf`, decodes, and keeps what is
left; `Drained` is the last look at `buf` when the body ends. `Log` is what follows the
`async for` in the generators of `server.py`: it cuts a long answer as `_trunc` does, with
`BodyTrunc` pieces for 2000 characters; `Leave` closes the generator instead.
`BodyCutShort` is a body that something in between closes cleanly. The sidebar is
`List` with its `_fill_title` calls, each served and answered in two steps, and a
deletion, which is asked, served and answered. `mixed` is history: the deletion met a
fetch or a creation of the same session, or its answer was lost.

Abstracted: one turn and one listing at a time (other tabs list and delete, but two
turns of one user do not interleave on one session); which sessions are the newest; the
raw events of the debug view. The engine refuses to store for a session that is gone
and says so with an error event.

### TraceExplorer, TurnTrace

A turn is a program of nested hops. `Tick` lets a millisecond pass anywhere and books
it in `spent` under the layer that is really at work (`Layer`); `Begin`, `Forward`,
`Answered` and `Logged` are the stamps and the record of each component. `Attribution`
then sees only `records`. A gateway may refuse a call (`Refuse`), a record may be lost
(`Unlogged`), a model call may be logged twice (`LoggedEarly`, the callback runs for the
last partial answer too).

Abstracted: one clock (the skew between machines is not modelled), calls in sequence
(parallel tool calls share a contextvar per task and are left out), times in whole
milliseconds.

### Cloud, the tools, Provisioning

All ten commands are built alike, so the modules are mostly tables: a `Row` is what a
comparator says of a resource (`also`: what else it looks at; `unread`: its status when
a listing fails; `under`: when the thing it belongs to is absent; `awaiting`: when
it is there but not usable yet, as an endpoint without a host), a `Call` is a guarded
write (`kinds` and `for`: the findings that trigger it; `needs`, `within`: what it fails
without; `how`: whether it creates, updates, sets, adds or drops; `hard`: whether its
failure ends the run; `late`: whether it may end before its effect is there). A resource
is `absent`, `pending`, `wrong`, `odd` (wrong in a way that calls add to or pass over, as
`_reconcile_product` does with a product that has no operation configs), `keyless` (an app
without a credential, which no call corrects and which gives no key to anybody) or `ok`.
Resources that the code treats alike (three services, three agents, the subnets) are one.

`Provisioning` runs them: `Begin` reads all listings (blindly in one, `BeginBlind`),
then one action per call, `CallDone`, `CallLate`, `CallRefused`, `CallImpossible` or
`Dies`, then `LookAgain` where the tool loops, then `End`. Between two runs somebody may
reconfigure or delete something the next tool is responsible for, add to it, or take its
key or its operation configs away.

## 3. Runs

| run | what it asks | bounds |
|---|---|---|
| `AclAdminSerial` | with one handler: types, the last admin stays, the API implements `AclLedger` | 1 slot, 3 role and 4 email spellings, 10 operations, 2 seeds |
| `AclAdminRace` | with two handlers interleaved at every call: what still holds | 2 slots, 5 operations that demote, delete, grant and promote |
| `AclAdminLockout` (violation) | can two concurrent requests remove the last admins? yes | 2 slots |
| `SupervisorAcl` | grants of this turn only, hard block, exactness, fail closed | 1 turn (turns share only the store, which changes freely), 2 roles, 2 specialists and the wildcard, 2 users |
| `RefreshSafety` | types, mutual exclusion, no turn of the lock's loop behind the cache, root follows the cache, cache never goes back | 3 turns (holder, first and second waiter), one of them on a loop of its own; 1 name, 3 generations (0 for none) |
| `RefreshLiveness` | every turn gets past the refresh; a new engine reaches the cache | 2 turns on one loop, 1 name, the same generations |
| `Rollout` | parallel deploys boot their own pickle, the newest engine survives every cleanup, an undisturbed run does what it announces, an undisturbed prune keeps the newest engine reachable | 2 operators, 2 agents with 2 and 1 generations |
| `AclSeed` | killed and repeated runs converge, roles come before users, nothing is taken except in a race, a lockout is recovered | the manifest's role, 2 seed admins, 2 people, 2 roles, 3 initial stores, every change of those |
| `Provisioning` | a quiet documented campaign settles; a green report is true; a run damages nothing (`Upkeep`); every campaign settles in the end | 8 campaigns: the documented order of all tools and one that is nearly its reverse, from an empty and from a finished cloud, with at most 1 mishap; single tools with 2 |
| `ServicesConverged` (violation) | does "converged" mean that the database can be reached? no | the services tool alone, 1 mishap |
| `Conversation` | an answer is shown and replayed the same, and logged so up to the cut; a title is its session's | 2 sessions, 2 turns, 5 kinds of answer, 2 listings, deletions or restarts, a wire of 2 objects, a log entry of 1 piece (`BodyTrunc`), titles fetched one at a time |
| `TurnTrace` | the pie against where the time went | 4 shapes of turn, 5 ms, 1 record lost, doubled or call refused |

Why these bounds are enough to be interesting: a race of the admin API needs two
writers; a lock needs a holder, a
woken waiter and one behind it; a generation must be able to move twice for a cache to
fall back. A title can outlive its session with one session and one fetch; the second
session is there for titles that get mixed up, the second turn for a session that goes
on and for logs and replays of more than one turn. An answer needs two messages for a
deduplication that is not reset, and a message of two pieces for one that is reset too
early. A log entry that holds one piece cuts three of the five answers and leaves the others
whole. Five milliseconds give every hop of the smaller turns a duration of its own and the
larger ones any mixture of zero and positive ones, with equal lengths. One mishap per
campaign breaks every call and every listing of every tool once, two of them one after the
other (a call late and the next refused, a deletion and a blind run) where a single tool
is alone; a third has no case of its own, since no tool remembers anything between runs.

Deadlock is checked in every run but `Conversation` and `TurnTrace`, which end: their
turns are used up.

### Disagreements with what the repository says

1. **Lockout.** "any mutation that would leave ZERO admin users is refused"
   (`admin.py:12-14`) holds for one request at a time and is proved for that case. Two
   admins who demote each other both pass the guard.
2. **Converged without a way to the database.** "reserved PSC endpoint address +
   consumer forwarding rule" (`provision_services.py:12-13`): the rule is only created
   by the pass that creates the address. If the instance has no link by then, the tool
   says "re-run apply" (line 642), but a second run finds the address there and skips
   the branch, no comparator has a row for the rule, and the report ends in
   "converged ✓" (line 875).

These have a run. The others were met while translating and are stated here; where a
property says what remains true, it is named.

3. **Torn check.** "gated server-side on the caller's is_admin — resolved fresh"
   (`admin.py:7-8`): roles and users are two reads, and two changes in between admit a
   caller who was never an admin. `UndisturbedReads` is what holds.
4. **Shown twice.** "stream the partial text deltas and skip the trailing consolidated event
   for that message (which repeats the full text)" (`agent_client.py:258-260`): the first
   part of the event resets the flag, and a second part is shown although it was streamed.
   Without `RepeatedInOnePart` TLC finds `AnswersReplay` violated at once.
5. **Skipped re-point.** "once the cache has the new engine, no turn serves a
   baked-but-dead URI" (`agent.py:251-252`): if requests have loops of their own
   (`client.py:183-186`), a contended lock raises and the re-point is skipped.
   `BehindOnlyOffLoop`.
6. **Lost grant.** "MERGES user roles, so admin-UI edits survive re-runs"
   (`provision_agents.py:12-13`): not an edit made between the GET and the PATCH.
   `LossesAreRaces`.
7. **Cleanup and registration.** "since the supervisor resolves the newest live engine
   every turn, cleanup is **safe**" (`docs/OPERATIONS.md:159-160`): it resolves the
   newest registry *entry*. An engine that is not registered yet makes cleanup delete
   the engine in use. `NewestStays`.
8. **One entry per turn.** "One structured front-ai-logs entry per user turn"
   (`server.py:277`): `/api/agent` logs none, `/api/chat` none that fails, and a stream
   the browser leaves none. What is logged is right, up to the cut (`AnswersReplay`).
9. **Done, but not whole.** A body that is closed early and cleanly ends in `done` like
   a complete one (`agent_client.py:237-239`); what had not arrived is missing from the
   screen and the log, not from the history.
10. **One failing title fails the list.** `_title_for` only catches `AgentError`; a fetch
   that times out raises through `asyncio.gather` and the sidebar gets a 502. Forty new
   sessions without a message would take all the fetches of every listing (line 462).
11. **Counted twice.** The trace explorer recognises the second record of a model call by
    `timing.requestSentAt` (`trace_explorer.py:437`), which `model.py` no longer writes:
    the count and the per-node latency double. The pie does not: two equal containers
    cover the same time (`AttributionIsTrue`).
12. **Green and yet not.** A secret without any version, a database or a user whose
    listing failed, and grants whose account could not be read have no finding
    (`GreenMeansInOrder` lists them as `NoRow` and `Unnoticed`). The HTTP proxy is only
    made together with the url-map; if the run dies in between no later one makes it,
    though the row stays red. A product without operation configs and an app without a key
    are red at every run, too (`Leftover`).

Three more concern `cmd_sync_registry`:

* "If **no** entry points at a live engine it warns instead of deleting"
  (`docs/OPERATIONS.md:163-164`): it warns and, after the same prompt, deletes all but
  the youngest entry (`deploy_agents.py:499-505`).
* A prune keeps an entry if *any* of its URLs is the newest engine (line 499) and
  announces that "the supervisor resolves the newest engine"; `registry_findings` wants
  *all* of them, because "ADK's runtime resolution reads protocols FIRST". After such a
  prune, `--check` asks for `--sync-registry` again, which finds nothing to do.
* `--sync-registry <agent>` lists the engines of that agent only but prunes the entries
  of all, the others by age alone. `UndisturbedPruneKeepsTheNewest` therefore promises
  reachability for selected agents only.

What still holds in spite of them is stated beside them: a change by a request that
no other write overlapped is a step of the ledger (`UndisturbedIsAtomic`), only a turn
on another loop than the lock's is served behind the cache (`BehindOnlyOffLoop`), and
a seed run takes a role, or the last admin, only if the document changed under it
(`LossesAreRaces`). "recoverable only via Firestore console otherwise"
(`admin.py:13-14`) is too pessimistic: running the seed again recovers a lockout
(`LockoutIsRecovered`).

### Fairness

* `SubAgentRefresh`, `FairSpec`: weak fairness of a turn's refresh: a coroutine that
  can run is run, and the registry client's calls end (they have timeouts).
  `TurnsGetThrough` needs no more (it is checked under the stronger `BusySpec`,
  in the run that also checks `CacheCatchesUp`).
* `BusySpec` adds assumptions about the surroundings that the code cannot give: users
  keep coming, the TTL expires, a listing and a build succeed again and again, and not
  every waiter is cancelled. Without them a supervisor nobody uses never refreshes.
* `AclSeed`: the operator repeats the run, and it is not killed at the same point for
  ever (strong fairness of each step).
* `Provisioning`: weak fairness: the operator starts the next tool, gcloud returns, and an
  operation that is pending gets through (Google's, not the code's). Mishaps are bounded,
  which is why "in the end" means after the last one.
* The other modules state safety only. That an admin request is answered is not a property:
  a handler waits for nothing but its own calls.

## 4. Proofs

Checked by `tlapm` for every value of the constants that satisfies the named
assumptions (`AbsentAssumption`, `LowerAssumption`, `OpsAssumption`, `SeedsAssumption`,
`SeedAssumption`, `TurnStoreAssumption`, `RefreshAssumption`, `RolloutAssumption`,
`ConversationAssumption`, `ScriptsAssumption`, `CampaignsAssumption`); TLC evaluates them in every run. What
a theorem assumes beyond them is said below. The shape is always the same: a module
states its inductive invariant as a conjunction of named parts, one lemma per group of
actions shows that a step keeps it, and the theorem reads the property off.

`AclAdminProofs`, for any number of concurrent requests:

* `TypeCorrect`: `TypeOK` is inductive.
* `UndisturbedReadsAreCurrent`: the invariant `UndisturbedReads` says that what a
  request has read and decided is true of the store *now* while nobody else has
  written. Reads keep it because they copy the store, writes because they mark every
  other request. It is what the code's check-then-act needs and cannot enforce.
* `UndisturbedChangesAreAtomic`: from it, a change by an undisturbed request is
  `Ledger!Mutate`.
* `SerialApiRefinesLedger`, `SerialApiKeepsAnAdmin`: with the extra assumption of one
  request slot everybody is undisturbed, so the API implements `AclLedger` and the
  last admin stays.
* `LockoutIsFinal`: after a lockout nothing is ever authorised again.
* `RevocationHolds`: `RevokedMeansRevoked` speaks of revocations only; what is inductive
  is `OkStands`: whatever document a request was told "ok" about is in the store, under
  the address as stored, until somebody else writes.

`AclSeedProofs`, for any manifest, any store and any administrators:

* `TypeCorrect`, `QuietRunSeeds`, `RolesComeFirst`, from `SeedInv`: a run between
  two documents holds none (`Clean`), and a run nobody interferes with holds the document
  as it is and has put in place all it has been through (`Progress`, which gives both
  properties at its two ends). Earlier runs may have stopped anywhere.
* `LossesAreOnlyRaces`: a PATCH based on the current document merges, so it takes no
  role from anybody, nor the last admin from the store. It assumes that the seed's
  roles are admin roles, as the one in `runtime-manifest.yaml:69-72` is: the PATCH of a
  role that is not could replace a document that makes somebody an admin.

`SupervisorAclProofs`, for any number of turns and any changes of the store:

* `TypeCorrect`, then the inductive invariant `GrantInv`: the history covers the store
  as it is (`HistoryCovers`), so whatever a read adds to the memo is in the history;
  what was reached is permitted by a memo that no step of a running turn changes
  (`ReachedIsPermitted`); a failed read leaves an empty memo that nothing extends
  (`FailedIsEmpty`). `GrantsComeFromThisTurn` alone is not inductive: it says nothing
  about the store the next read will see.
* `GrantsAreFresh`, `TransfersAreGranted`, `LookupFailureGrantsNothing` follow.
* `ResolutionAddsUp`: `ResolutionIsExact` speaks of the end of the resolution; on the
  way (`ExactSoFar`) what is collected and what the roles still to be read grant add up
  to what the user is granted.

`SubAgentRefreshProofs`, for any number of turns, event loops and registrations:

* The inductive invariant `RefreshInv` has the types, the order of the registry's
  entries (`RegistryRanked`), the lock (`LockInv`: who is at work holds it, who waits is
  in the queue, and only its head is ever woken, while nobody holds the lock), and the
  ages (`AgeInv`: nothing cached or found is newer than the registry, what is still to be
  built is no older than what is cached, and what a turn was promised no newer).
* `OneRefresher` needs the lock's part; `CacheOnlyGetsNewer`, `RootIsNoOlder` and
  `BehindOnlyOffTheLoop` need the ages *and* the lock: that the cache only gets newer
  rests on nobody else refreshing between a listing and the last build.

`RolloutProofs`, for any number of agents, engines, entries and operators:

* `TypeCorrect`, from `PlatformOK` (one entry per id, every engine numbered as created)
  and `RunsOK` (the operators' variables).
* `EnginesBootTheirAgent`: between staging and creation a worker's path holds its own
  agent (`PickleInv`).
* `CleanupKeepsTheNewest`: `NewestStays` is not inductive, a deletion could be of
  anything; what makes it so is `PlanIsOld`: whatever a cleanup has planned is older
  than the newest engine there ever was, which later deploys only make truer.
* `DoneIsDone`, `PruneKeepsTheNewest`: an operator that nobody disturbs *knows* the
  platform (`CalmInv`): its listings are as things are, its plan is what is left of the
  plan it made, and that plan spares exactly one entry of each agent, the last one that
  refers to the engine it keeps.

`ConversationProofs`, for any number of sessions, turns, fills and deletions, and for
answers of any length:

* `TitlesAreOfTheirSession`: `TitlesBelong` speaks of the cache alone; the inductive
  `TitleInv` says the same of every title underway in a turn, a listing or a late
  answer (`UnderwayOK`), beside what the turn and the deletion in progress know of
  their sessions. That a title stays true rests on `FirstTextStays`: storing more events
  never changes what the first message is.
* `ConversationTyped`: `TypeOK` is not inductive. `FlightInv` adds what streams: the
  events in `engine` and on the `wire` are such as the engine may send for the message
  of the turn in flight (`Streams`: a buffered turn gets no partial event), nothing
  streams unless a turn reads (`WireOK`), a model's answer has no session (`PlaceOK`),
  and what is stored is of this turn or an earlier one (`HistoryOK`).
* `AnswersAreReplayed`, which assumes `RepeatedInOnePart`: `AnswersReplay` compares what was shown and logged with the
  stored session, long after the answer streamed. The invariant `AnswerInv` says it at
  each point of the way: while a turn reads, the whole answer is what was shown so far,
  then the wire, then what the engine has yet to send, and what the session has stored of
  it is what the first two say (`ReadOK`); when it ended well its whole answer was told
  (`EndOK`); and every sound entry of the log is what its session still says, up to the cut
  (`LogOK`).
  The steps rest on what the operators of `AnswerEvents` compute for *every* answer:
  partial pieces add up to the whole message that follows them, which is then skipped, so
  that the live relay tells what is stored (`AnswerAll`); `_aggregate` tells the same of
  whole events (`AggregateTold`); however the text is cut into chunks, what is decoded
  are the objects that are whole by now, in order, and the buffer holds the front of the
  next (`DrainIs`, `ReceiveIs`); reading in two chunks is reading once
  (`RelayAllConcat`); a cut text is the head of it and the number of what is missing
  (`TruncIs`); a model's frames end with all its tokens (`DirectAnswer`); and the
  replay of a session shows what was stored between one message and the next as one reply
  (`FlushAnswers`).

`SequenceInduction` is how these are proved. The library's induction theorems take an
operator as a parameter, which the provers cannot instantiate. Here the operator is a
constant of the module, so each use is an `INSTANCE` with the statement to be proved
(`Holds`) and the operator that is folded (`Step`). That numbers are well ordered, the
one hypothesis, is `LeastNumber` of `ConversationProofs`. `FoldEmpty`, `FoldAppend` and
`FoldConcat` say what folding computes; each fold of the model is shown to be one by
expanding the definitions of the community modules (`RelayIsFold` and its likes).

The proofs corrected the model in three places. `Relay`, `Answer` and `Own` (of
`TurnTrace`) were CASE expressions whose guards overlap; TLC takes the first that holds,
but TLA+ leaves the value open. They now test in the order of the code.

`ProvisioningProofs`, for any campaign, that is any order of the tools, any cloud to
begin with in which nothing that is in order refers to what is not there, and nothing
rests on it (`Consistent`), and any number of mishaps:

* `TypeCorrect`: beside the types, that a run that ends or dies leaves nothing behind in
  the tool. Its invariant `ProvInv` is the one of the next theorem.
* `NoToolDamages`: the tools implement `Upkeep`, step by step. First, every call of the
  ten tools is *gentle* (`Gentle`: it creates, updates, sets, or only spoils what is
  replaced by design, or what refers to something that it makes because it is absent),
  and every row has a status whatever is read. Then a gentle call keeps what is in order
  on a `Consistent` cloud (`CallStep`), and keeps it consistent. The one call that needs
  more is the creation of the target server, which requires no endpoint: it is issued
  only for a finding, and a finding of that kind means that the endpoint was there when
  the run looked (`FoundInv`), and no call of a run deletes it.
* `GreenIsInOrder`: a report without findings means that every row is quiet. What a quiet
  row tells is said once per kind of row (`Tells`, and `Loud` for a row that a listing
  that could not be read makes speak up), row by row for the ten tools; what no row
  tells is either excepted by name or is what something with a row rests on (`Rests`: the
  proxy under a forwarding rule, the developer of an app, the zone of a record), which is
  in order because the cloud is `Consistent`. The exceptions are those of the property,
  so the theorem is no weaker than what TLC checks.

What stays with TLC, and why:

* all liveness (`LockoutIsRecovered`, `TurnsGetThrough`,
  `CacheCatchesUp`, `SettlesInTheEnd`): the prover has no fairness and no ENABLED;
* `TurnTrace`: what is right depends on how the hops of a program nest, which for every
  program is a grammar, and the attribution adds up durations over sets of records;
* `Provisioning`'s `QuietCampaignSettles`: without mishaps a campaign is one execution,
  determined by its cloud and its order, and TLC follows it to the end.

## 5. Not modelled yet, and the plan

In order of importance:

1. Proofs: `TurnTrace` for every well-nested program, with `SequenceInduction` for the
   nesting and for the sums.
2. `OrderService`: two-commit order creation, unguarded status transitions,
   check-then-insert uniqueness.
3. `IapCerts`: the double-checked certificate cache under failures (`iap.py:56`).
4. `LlmQuota`: enforce before, count after; the bound on the overshoot.
5. `SupervisorRollout`: `Rollout` composed with `SubAgentRefresh` instead of its
   `Register` and `Prune`: for how long does a supervisor keep pointing at a deleted
   engine, and can its cache go back when engines are registered out of order?
6. `SupervisorTurn`: refresh, ACL hooks and loop-bound clients of one turn composed, and
   the contextvars that carry identity, session and trace through it.

Not modelled within the parts that are: the page of 100 registry entries; listings of a
first provisioning pass that fail because the API they need is not enabled yet; per-node self
latency, the drawing of the topology and the session navigator of the trace explorer;
parallel tool calls in a trace, and clocks that differ; deployment of Apigee proxies and
the builds of images.

Left out for good: the browser UI (rendering), the specialists (configuration), the
vendored copies of `a2a_common`, Dockerfiles, OpenAPI documents and sample data.
