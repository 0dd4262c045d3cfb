------------------------------- MODULE Rollout -------------------------------
(***************************************************************************)
(* Rolling agents out: agents/provision/deploy_agents.py, with any number  *)
(* of operators, against Agent Engine and the Agent Registry.              *)
(*                                                                         *)
(* An engine is known by its agent and its generation, in the order of     *)
(* creation.  A registry entry has two URLs (card, protocols), each by the *)
(* generation it points at; entries[a] is in the order of updateTime, the  *)
(* newest last, so what the supervisor picks is the last.                  *)
(*                                                                         *)
(* The platform registers each engine some time after it is created, in    *)
(* any order, with a fresh entry or over an old one, and then it may leave *)
(* the protocols URL behind ("seen live", deploy_agents.py:165-171).       *)
(***************************************************************************)
EXTENDS Naturals, Sequences, FiniteSets

CONSTANTS
  Agent,      \* manifest keys of the agents
  MaxGen,     \* bound: engines ever created of each agent
  Operator,   \* people and pipelines that run the tool
  None        \* no artifact

ASSUME RolloutAssumption == MaxGen \in [Agent -> Nat] /\ None \notin Agent

Gen == UNION {1 .. MaxGen[a] : a \in Agent}
Entry == [id : Gen, card : Gen, proto : Gen]

VARIABLES
  deploying,  \* the agents with a deploy worker between staging and create
  staged,     \* the pickle at each staging path of the bucket
  created,    \* how many engines each agent has ever had
  engines,    \* the live ones
  booted,     \* history: whose pickles an agent's engines have booted
  pending,    \* engines the platform has not registered yet
  entries,    \* the registry, per agent
  opc,        \* where each operator's run is
  kept,       \* the engine the run keeps per agent, 0 if none or not selected
  listed,     \* sync: the entries it has listed
  plan,       \* what it is going to delete, as <<agent, generation or entry id>>
  calm        \* history: nothing has disturbed this run since it began

platformVars == <<deploying, staged, created, engines, booted, pending, entries>>
runVars == <<opc, kept, listed, plan, calm>>
vars == <<platformVars, runVars>>

NoEngines == [a \in Agent |-> 0]
NoEntries == [a \in Agent |-> <<>>]

Init ==
  /\ deploying = {}
  /\ staged = [a \in Agent |-> None]
  /\ created = [a \in Agent |-> 0]
  /\ engines = [a \in Agent |-> {}]
  /\ booted = [a \in Agent |-> {}]
  /\ pending = [a \in Agent |-> {}]
  /\ entries = NoEntries
  /\ opc = [o \in Operator |-> "off"]
  /\ kept = [o \in Operator |-> NoEngines]
  /\ listed = [o \in Operator |-> NoEntries]
  /\ plan = [o \in Operator |-> {}]
  /\ calm = [o \in Operator |-> FALSE]

-----------------------------------------------------------------------------
(* Pure parts.                                                             *)

\* group_engines puts the newest first; 0 when there is none.
Newest(gens) == IF gens = {} THEN 0 ELSE CHOOSE g \in gens : \A h \in gens : h <= g

\* registry_engine_ids: every engine an entry refers to.
Ids(e) == {e.card, e.proto}

Last(s) == s[Len(s)]
IdsOf(s) == {s[i].id : i \in DOMAIN s}

\* An agent has at most one entry per id.
Without(s, id) ==
  IF id \notin IdsOf(s) THEN s
  ELSE LET i == CHOOSE j \in DOMAIN s : s[j].id = id
       IN SubSeq(s, 1, i - 1) \o SubSeq(s, i + 1, Len(s))

KeepOldest(selected) ==
  UNION {{<<a, g>> : g \in {h \in engines[a] : \E k \in engines[a] : k < h}} : a \in selected}

\* derive_cleanup: all engines of the selected agents but the newest of each.
Stale(selected) ==
  UNION {{<<a, g>> : g \in engines[a] \ {Newest(engines[a])}} : a \in selected}

\* The detail of a listed entry: as it is by now, or the listing's summary when the
\* GET fails; a summary may lack the URLs.
DetailIds(a, e, blind) ==
  IF e.id \in blind THEN {}
  ELSE IF e.id \in IdsOf(entries[a])
       THEN Ids(CHOOSE d \in {entries[a][i] : i \in DOMAIN entries[a]} : d.id = e.id)
       ELSE Ids(e)

KeepLastEntry(o, a, blind) == Last(listed[o][a]).id

\* cmd_sync_registry: the newest of the entries at the newest live engine, else the
\* newest entry.
KeptEntry(o, a, blind) ==
  LET s == listed[o][a]
      atLive == {i \in DOMAIN s : kept[o][a] \in DetailIds(a, s[i], blind)}
  IN IF atLive # {} THEN s[Newest(atLive)].id ELSE Last(s).id

RedundantIfDead(o, blind) ==
  UNION {{<<a, id>> : id \in {e \in IdsOf(listed[o][a]) : e \notin engines[a]}} : a \in Agent}

Redundant(o, blind) ==
  UNION {{<<a, id>> : id \in IdsOf(listed[o][a]) \ {KeptEntry(o, a, blind)}} :
           a \in {b \in Agent : listed[o][b] # <<>>}}

-----------------------------------------------------------------------------
(* Deploys.  cmd_deploy runs one worker process per agent, all at once.    *)

SharedDir(a) == CHOOSE b \in Agent : TRUE

\* gcs_dir_name: where the worker's artifacts are staged.
Dir(a) == a

\* The preflights and the prompt have passed.
Stage(a) ==
  /\ a \notin deploying
  /\ created[a] < MaxGen[a]
  /\ deploying' = deploying \cup {a}
  /\ staged' = [staged EXCEPT ![Dir(a)] = a]
  /\ UNCHANGED <<created, engines, booted, pending, entries, runVars>>

\* A new engine boots what is staged at its path.
Create(a) ==
  /\ a \in deploying
  /\ deploying' = deploying \ {a}
  /\ created' = [created EXCEPT ![a] = @ + 1]
  /\ engines' = [engines EXCEPT ![a] = @ \cup {created'[a]}]
  /\ pending' = [pending EXCEPT ![a] = @ \cup {created'[a]}]
  /\ booted' = [booted EXCEPT ![a] = @ \cup {staged[Dir(a)]}]
  /\ calm' = [o \in Operator |-> FALSE]
  /\ UNCHANGED <<staged, entries, opc, kept, listed, plan>>

\* One agent's worker fails; the others go on.
WorkerFails(a) ==
  /\ a \in deploying
  /\ deploying' = deploying \ {a}
  /\ UNCHANGED <<staged, created, engines, booted, pending, entries, runVars>>

-----------------------------------------------------------------------------
(* The platform.                                                           *)

Registered(a, g, s) ==
  /\ g \in pending[a] \cap engines[a]
  /\ pending' = [pending EXCEPT ![a] = @ \ {g}]
  /\ entries' = [entries EXCEPT ![a] = s]
  /\ calm' = [o \in Operator |-> FALSE]
  /\ UNCHANGED <<deploying, staged, created, engines, booted, opc, kept, listed, plan>>

Register(a, g) ==
  Registered(a, g, Append(entries[a], [id |-> g, card |-> g, proto |-> g]))

RegisterOver(a, g, i) ==
  /\ i \in DOMAIN entries[a]
  /\ LET e == entries[a][i]
     IN Registered(a, g, Append(Without(entries[a], e.id), [e EXCEPT !.card = g]))

-----------------------------------------------------------------------------
(* Runs of the tool.                                                       *)

GoTo(o, to) == opc' = [opc EXCEPT ![o] = to]

ForgetKeepingPlan(o) ==
  /\ GoTo(o, "off")
  /\ kept' = [kept EXCEPT ![o] = NoEngines]
  /\ listed' = [listed EXCEPT ![o] = NoEntries]
  /\ calm' = [calm EXCEPT ![o] = FALSE]
  /\ UNCHANGED plan

\* What a run that is over leaves behind: nothing.
Forget(o) ==
  /\ GoTo(o, "off")
  /\ kept' = [kept EXCEPT ![o] = NoEngines]
  /\ listed' = [listed EXCEPT ![o] = NoEntries]
  /\ plan' = [plan EXCEPT ![o] = {}]
  /\ calm' = [calm EXCEPT ![o] = FALSE]

Starts(o, to, selected) ==
  /\ opc[o] = "off"
  /\ GoTo(o, to)
  /\ kept' = [kept EXCEPT ![o] =
       [a \in Agent |-> IF a \in selected THEN Newest(engines[a]) ELSE 0]]
  /\ calm' = [calm EXCEPT ![o] = TRUE]
  /\ UNCHANGED <<platformVars, listed>>

\* Nothing stale, nothing to do.
CleanupLists(o, selected) ==
  /\ Stale(selected) # {}
  /\ Starts(o, "c_prompt", selected)
  /\ plan' = [plan EXCEPT ![o] = Stale(selected)]

SyncListsEngines(o, selected) ==
  /\ Starts(o, "s_list", selected)
  /\ UNCHANGED plan

\* The listing holds the entries of all agents, selected or not.
SyncListsEntries(o) ==
  /\ opc[o] = "s_list"
  /\ GoTo(o, "s_inspect")
  /\ listed' = [listed EXCEPT ![o] = entries]
  /\ UNCHANGED <<platformVars, kept, plan, calm>>

\* The details are read, some of the reads in vain.
SyncInspects(o, blind) ==
  /\ opc[o] = "s_inspect"
  /\ GoTo(o, IF Redundant(o, blind) = {} THEN "s_done" ELSE "s_prompt")
  /\ plan' = [plan EXCEPT ![o] = Redundant(o, blind)]
  /\ listed' = [listed EXCEPT ![o] = NoEntries]
  /\ calm' = [calm EXCEPT ![o] = @ /\ blind = {}]
  /\ UNCHANGED <<platformVars, kept>>

Confirm(o) ==
  /\ \/ opc[o] = "c_prompt" /\ GoTo(o, "c_delete")
     \/ opc[o] = "s_prompt" /\ GoTo(o, "s_delete")
  /\ UNCHANGED <<platformVars, kept, listed, plan, calm>>

\* One engine is deleted.  Deleting it again is a 404, which ends the run.
CleanupDeletes(o, a, g) ==
  /\ opc[o] = "c_delete"
  /\ <<a, g>> \in plan[o]
  /\ g \in engines[a]
  /\ engines' = [engines EXCEPT ![a] = @ \ {g}]
  /\ plan' = [plan EXCEPT ![o] = @ \ {<<a, g>>}]
  /\ UNCHANGED <<deploying, staged, created, booted, pending, entries,
                 opc, kept, listed, calm>>

\* One entry is deleted: another run's listing may be stale by now.
SyncDeletes(o, a, id) ==
  /\ opc[o] = "s_delete"
  /\ <<a, id>> \in plan[o]
  /\ entries' = [entries EXCEPT ![a] = Without(@, id)]
  /\ plan' = [plan EXCEPT ![o] = @ \ {<<a, id>>}]
  /\ calm' = [p \in Operator |-> calm[p] /\ p = o]
  /\ UNCHANGED <<deploying, staged, created, engines, booted, pending,
                 opc, kept, listed>>

\* "keep going"
SyncDeleteFails(o, a, id) ==
  /\ opc[o] = "s_delete"
  /\ <<a, id>> \in plan[o]
  /\ plan' = [plan EXCEPT ![o] = @ \ {<<a, id>>}]
  /\ calm' = [calm EXCEPT ![o] = FALSE]
  /\ UNCHANGED <<platformVars, opc, kept, listed>>

Finished(o) ==
  /\ plan[o] = {}
  /\ \/ opc[o] = "c_delete" /\ GoTo(o, "c_done")
     \/ opc[o] = "s_delete" /\ GoTo(o, "s_done")
  /\ UNCHANGED <<platformVars, kept, listed, plan, calm>>

\* The run exits: done, declined, killed, or by an exception of a request.
Exit(o) ==
  /\ opc[o] # "off"
  /\ Forget(o)
  /\ UNCHANGED platformVars

Step(o) ==
  \/ \E selected \in SUBSET Agent : CleanupLists(o, selected) \/ SyncListsEngines(o, selected)
  \/ SyncListsEntries(o)
  \/ \E blind \in SUBSET UNION {IdsOf(listed[o][a]) : a \in Agent} : SyncInspects(o, blind)
  \/ Confirm(o) \/ Finished(o) \/ Exit(o)
  \/ \E x \in plan[o] :
       \/ CleanupDeletes(o, x[1], x[2])
       \/ SyncDeletes(o, x[1], x[2]) \/ SyncDeleteFails(o, x[1], x[2])

Next ==
  \/ \E a \in Agent : Stage(a) \/ Create(a) \/ WorkerFails(a)
  \/ \E a \in Agent, g \in Gen :
       Register(a, g) \/ \E i \in DOMAIN entries[a] : RegisterOver(a, g, i)
  \/ \E o \in Operator : Step(o)

Spec == Init /\ [][Next]_vars

-----------------------------------------------------------------------------
(* Properties.                                                             *)

OPC == {"off", "c_prompt", "c_delete", "c_done",
        "s_list", "s_inspect", "s_prompt", "s_delete", "s_done"}

\* Every variable keeps its type, only engines there ever were are referred to, an
\* agent has one entry per id, and a run that is over holds nothing.
TypeOK ==
  /\ deploying \subseteq Agent
  /\ staged \in [Agent -> Agent \cup {None}]
  /\ created \in [Agent -> Nat]
  /\ \A a \in Agent : created[a] <= MaxGen[a]
  /\ engines \in [Agent -> SUBSET Gen]
  /\ pending \in [Agent -> SUBSET Gen]
  /\ \A a \in Agent : engines[a] \cup pending[a] \subseteq 1 .. created[a]
  /\ booted \in [Agent -> SUBSET (Agent \cup {None})]
  /\ entries \in [Agent -> Seq(Entry)]
  /\ \A a \in Agent : Cardinality(IdsOf(entries[a])) = Len(entries[a])
  /\ opc \in [Operator -> OPC]
  /\ kept \in [Operator -> [Agent -> Nat]]
  /\ \A o \in Operator, a \in Agent : kept[o][a] <= created[a]
  /\ listed \in [Operator -> [Agent -> Seq(Entry)]]
  /\ plan \in [Operator -> SUBSET (Agent \X Gen)]
  /\ calm \in [Operator -> BOOLEAN]
  /\ \A o \in Operator : opc[o] = "off" =>
       kept[o] = NoEngines /\ listed[o] = NoEntries /\ plan[o] = {} /\ ~ calm[o]

\* "An engine can boot a SIBLING's pickle" (deploy_agents.py:749-752), but not here:
\* whatever workers stage side by side, an agent's engines boot that agent.
OwnPickle == \A a \in Agent : booted[a] \subseteq {a}

\* "It never touches the newest" (OPERATIONS.md:158-160): however old the listing a
\* cleanup deletes by, an agent that was ever deployed keeps its newest engine.
NewestStays == \A a \in Agent : created[a] > 0 => created[a] \in engines[a]

Route(a) == Last(entries[a]).proto
RoutedToNewest(a) == entries[a] # <<>> /\ Route(a) = Newest(engines[a])
Reachable(a) ==
  \E i \in DOMAIN entries[a] : Newest(engines[a]) \in Ids(entries[a][i])

\* A prune that nobody disturbs, and that can read every entry, never takes the
\* supervisor off the newest engine, and never deletes the last entry that refers to
\* the newest engine of an agent it was called for.
UndisturbedPruneKeepsTheNewest ==
  [][\A o \in Operator : calm[o] /\ opc[o] = "s_delete" /\ plan'[o] # plan[o] =>
       \A a \in Agent :
         /\ RoutedToNewest(a) => RoutedToNewest(a)'
         /\ kept[o][a] # 0 /\ Reachable(a) => Reachable(a)']_vars

\* An undisturbed run that says "done" has done it: one engine of each agent it was
\* called for, one entry of every agent.
UndisturbedRunFinishes ==
  \A o \in Operator : calm[o] =>
    /\ opc[o] = "c_done" =>
         \A a \in Agent : kept[o][a] # 0 => engines[a] = {kept[o][a]}
    /\ opc[o] = "s_done" => \A a \in Agent : Len(entries[a]) <= 1
=============================================================================
