---------------------------- MODULE RolloutProofs ----------------------------
(***************************************************************************)
(* Theorems about Rollout for any number of agents, engines and operators. *)
(***************************************************************************)
EXTENDS Rollout, SequenceTheorems, FiniteSetTheorems, TLAPS

\* The largest of a set of numbers is what group_engines puts first.
LEMMA NewestIsMaximum ==
  ASSUME NEW S \in SUBSET Nat, NEW m \in S, \A h \in S : h <= m
  PROVE  Newest(S) = m
<1>1. Newest(S) = CHOOSE g \in S : \A h \in S : h <= g
  BY DEF Newest
<1>2. PICK g \in S : g = Newest(S) /\ \A h \in S : h <= g
  BY <1>1
<1> QED
  BY <1>2

-----------------------------------------------------------------------------
(* Parallel deploys.                                                       *)

\* A worker's path holds its own agent's pickle until it has created the engine.
PickleInv ==
  /\ DOMAIN staged = Agent
  /\ DOMAIN booted = Agent
  /\ \A a \in deploying : staged[a] = a
  /\ OwnPickle

\* However many agents are deployed side by side and whichever workers fail, an
\* agent's engines boot that agent's pickle.
THEOREM EnginesBootTheirAgent == Spec => []OwnPickle
<1>1. Init => PickleInv
  BY DEF Init, PickleInv, OwnPickle
<1>2. PickleInv /\ [Next]_vars => PickleInv'
  <2> SUFFICES ASSUME PickleInv, [Next]_vars PROVE PickleInv'
    OBVIOUS
  <2> USE DEF PickleInv, OwnPickle, Dir
  <2>1. ASSUME NEW a \in Agent, Stage(a) PROVE PickleInv'
    BY <2>1 DEF Stage
  <2>2. ASSUME NEW a \in Agent, Create(a) PROVE PickleInv'
    BY <2>2 DEF Create
  <2>3. ASSUME NEW a \in Agent, WorkerFails(a) PROVE PickleInv'
    BY <2>3 DEF WorkerFails
  <2>4. ASSUME UNCHANGED <<deploying, staged, booted>> PROVE PickleInv'
    BY <2>4
  <2>5. ASSUME NEW a \in Agent, NEW g \in Gen,
               Register(a, g) \/ \E i \in DOMAIN entries[a] : RegisterOver(a, g, i)
        PROVE  UNCHANGED <<deploying, staged, booted>>
    BY <2>5 DEF Register, RegisterOver, Registered
  <2>6. ASSUME NEW o \in Operator, Step(o) PROVE UNCHANGED <<deploying, staged, booted>>
    BY <2>6 DEF Step, CleanupLists, SyncListsEngines, Starts, SyncListsEntries,
      SyncInspects, Confirm, Finished, Exit, CleanupDeletes, SyncDeletes,
      SyncDeleteFails, platformVars
  <2>7. CASE UNCHANGED vars
    BY <2>4, <2>7 DEF vars, platformVars
  <2> QED
    BY <2>1, <2>2, <2>3, <2>4, <2>5, <2>6, <2>7 DEF Next
<1> QED
  BY <1>1, <1>2, PTL DEF Spec, PickleInv

-----------------------------------------------------------------------------
(* Cleanup.                                                                *)

\* A listing ages, but engines only get newer: whatever a cleanup has planned to
\* delete is older than the newest engine there ever was.
PlanIsOld ==
  \A o \in Operator : opc[o] \in {"c_prompt", "c_delete"} =>
    \A x \in plan[o] : x[1] \in Agent /\ x[2] \in Nat /\ x[2] < created[x[1]]

CleanupInv ==
  /\ created \in [Agent -> Nat]
  /\ DOMAIN engines = Agent
  /\ \A a \in Agent : engines[a] \subseteq 1 .. created[a]
  /\ DOMAIN plan = Operator
  /\ DOMAIN opc = Operator
  /\ PlanIsOld
  /\ NewestStays

\* An agent's newest live engine is the newest there ever was.
LEMMA NewestIsCreated ==
  ASSUME CleanupInv, NEW a \in Agent
  PROVE  Newest(engines[a]) = created[a]
<1>1. CASE created[a] = 0
  BY <1>1 DEF CleanupInv, Newest
<1>2. CASE created[a] # 0
  <2>1. created[a] \in engines[a] /\ \A h \in engines[a] : h <= created[a]
    BY <1>2 DEF CleanupInv, NewestStays
  <2>2. engines[a] \in SUBSET Nat
    BY DEF CleanupInv
  <2> QED
    BY <2>1, <2>2, NewestIsMaximum
<1> QED
  BY <1>1, <1>2

\* What derive_cleanup lists is older than the newest engine.
LEMMA StaleIsOld ==
  ASSUME CleanupInv, NEW selected \in SUBSET Agent, NEW x \in Stale(selected)
  PROVE  x[1] \in Agent /\ x[2] \in Nat /\ x[2] < created[x[1]]
<1>1. PICK a \in selected : x \in {<<a, g>> : g \in engines[a] \ {Newest(engines[a])}}
  BY DEF Stale
<1>2. PICK g \in engines[a] \ {Newest(engines[a])} : x = <<a, g>>
  BY <1>1
<1> QED
  BY <1>2, NewestIsCreated DEF CleanupInv

\* The steps that touch neither the engines nor a cleanup's plan.
LEMMA CleanupInvKept ==
  ASSUME CleanupInv, UNCHANGED <<created, engines>>,
         DOMAIN plan' = Operator, DOMAIN opc' = Operator,
         \A o \in Operator : opc'[o] \in {"c_prompt", "c_delete"} =>
           plan'[o] = plan[o] /\ opc[o] \in {"c_prompt", "c_delete"}
  PROVE  CleanupInv'
BY DEF CleanupInv, PlanIsOld, NewestStays

\* A deploy adds an engine newer than any there was.
LEMMA CleanupInvDeploy ==
  ASSUME CleanupInv, NEW a \in Agent, Create(a)
  PROVE  CleanupInv'
<1>1. /\ created' = [created EXCEPT ![a] = @ + 1]
      /\ engines' = [engines EXCEPT ![a] = @ \cup {created'[a]}]
      /\ UNCHANGED <<opc, plan>>
  BY DEF Create
<1>2. created' \in [Agent -> Nat] /\ \A b \in Agent : created[b] <= created'[b]
  BY <1>1 DEF CleanupInv
<1>3. \A b \in Agent : engines'[b] \subseteq 1 .. created'[b]
  BY <1>1, <1>2 DEF CleanupInv
<1>4. NewestStays'
  BY <1>1 DEF CleanupInv, NewestStays
<1>5. PlanIsOld'
  BY <1>1, <1>2 DEF CleanupInv, PlanIsOld
<1> QED
  BY <1>1, <1>2, <1>3, <1>4, <1>5 DEF CleanupInv

\* Every step keeps the invariant of the cleanup.
LEMMA CleanupInvariant == Spec => []CleanupInv
<1>1. Init => CleanupInv
  BY DEF Init, CleanupInv, PlanIsOld, NewestStays
<1>2. CleanupInv /\ [Next]_vars => CleanupInv'
  <2> SUFFICES ASSUME CleanupInv, [Next]_vars PROVE CleanupInv'
    OBVIOUS
  <2>1. ASSUME NEW a \in Agent, Create(a) PROVE CleanupInv'
    BY <2>1, CleanupInvDeploy
  <2>2. ASSUME NEW a \in Agent, Stage(a) \/ WorkerFails(a) PROVE CleanupInv'
    BY <2>2, CleanupInvKept DEF Stage, WorkerFails, runVars, CleanupInv
  <2>3. ASSUME NEW a \in Agent, NEW g \in Gen,
               Register(a, g) \/ \E i \in DOMAIN entries[a] : RegisterOver(a, g, i)
        PROVE  CleanupInv'
    BY <2>3, CleanupInvKept DEF Register, RegisterOver, Registered, CleanupInv
  <2>4. ASSUME NEW o \in Operator, Step(o) PROVE CleanupInv'
    <3>1. ASSUME NEW selected \in SUBSET Agent, CleanupLists(o, selected)
          PROVE  CleanupInv'
      <4>1. UNCHANGED <<created, engines>> /\ plan' = [plan EXCEPT ![o] = Stale(selected)]
            /\ opc' = [opc EXCEPT ![o] = "c_prompt"]
        BY <3>1 DEF CleanupLists, Starts, GoTo, platformVars
      <4>2. PlanIsOld'
        BY <4>1, StaleIsOld DEF CleanupInv, PlanIsOld
      <4> QED
        BY <4>1, <4>2 DEF CleanupInv, NewestStays
    <3>2. ASSUME NEW selected \in SUBSET Agent, SyncListsEngines(o, selected)
          PROVE  CleanupInv'
      BY <3>2, CleanupInvKept DEF SyncListsEngines, Starts, GoTo, platformVars, CleanupInv
    <3>3. CASE SyncListsEntries(o)
      BY <3>3, CleanupInvKept DEF SyncListsEntries, GoTo, platformVars, CleanupInv
    <3>4. ASSUME NEW blind, SyncInspects(o, blind) PROVE CleanupInv'
      BY <3>4, CleanupInvKept DEF SyncInspects, GoTo, platformVars, CleanupInv
    <3>5. CASE Confirm(o) \/ Finished(o)
      BY <3>5, CleanupInvKept DEF Confirm, Finished, GoTo, platformVars, CleanupInv
    <3>6. CASE Exit(o)
      BY <3>6, CleanupInvKept DEF Exit, Forget, GoTo, platformVars, CleanupInv
    <3>7. ASSUME NEW x \in plan[o], CleanupDeletes(o, x[1], x[2]) PROVE CleanupInv'
      <4>1. /\ opc[o] = "c_delete" /\ x[2] < created[x[1]]
            /\ engines' = [engines EXCEPT ![x[1]] = @ \ {x[2]}]
            /\ plan' = [plan EXCEPT ![o] = @ \ {<<x[1], x[2]>>}]
            /\ UNCHANGED <<created, opc>>
        BY <3>7 DEF CleanupDeletes, CleanupInv, PlanIsOld
      <4>2. PlanIsOld'
        BY <4>1 DEF CleanupInv, PlanIsOld
      <4>3. NewestStays' /\ \A a \in Agent : engines'[a] \subseteq 1 .. created'[a]
        BY <4>1 DEF CleanupInv, NewestStays
      <4> QED
        BY <4>1, <4>2, <4>3 DEF CleanupInv
    <3>8. ASSUME NEW x \in plan[o],
                 SyncDeletes(o, x[1], x[2]) \/ SyncDeleteFails(o, x[1], x[2])
          PROVE  CleanupInv'
      BY <3>8, CleanupInvKept DEF SyncDeletes, SyncDeleteFails, platformVars, CleanupInv
    <3> QED
      BY <2>4, <3>1, <3>2, <3>3, <3>4, <3>5, <3>6, <3>7, <3>8 DEF Step
  <2>5. CASE UNCHANGED vars
    BY <2>5, CleanupInvKept DEF vars, platformVars, runVars, CleanupInv
  <2> QED
    BY <2>1, <2>2, <2>3, <2>4, <2>5 DEF Next
<1> QED
  BY <1>1, <1>2, PTL DEF Spec

\* Deletions by a listing of any age, by any number of operators at once and while
\* agents are redeployed, leave every agent its newest engine.
THEOREM CleanupKeepsTheNewest == Spec => []NewestStays
BY CleanupInvariant, PTL DEF CleanupInv

-----------------------------------------------------------------------------
(* The registry.                                                           *)

\* Some number is the largest of a bounded set of numbers, unless it is empty.
LEMMA NewestExists ==
  ASSUME NEW n \in Nat, NEW S \in SUBSET (1 .. n), S # {}
  PROVE  Newest(S) \in S /\ \A h \in S : h <= Newest(S)
<1> DEFINE From(m) == {h \in S : m <= h}
           family == {From(m) : m \in S}
<1>1. IsWellFoundedOn(StrictSubsetOrdering(S), FiniteSubsetsOf(S))
  BY FS_StrictSubsetOrderingWellFounded
<1>2. family \subseteq FiniteSubsetsOf(S) /\ family # {}
  <2>1. IsFiniteSet(1 .. n)
    BY FS_Interval
  <2>2. \A U \in SUBSET (1 .. n) : IsFiniteSet(U)
    BY <2>1, FS_Subset
  <2> QED
    BY <2>2 DEF FiniteSubsetsOf
<1>3. PICK least \in family : \A U \in family : <<U, least>> \notin StrictSubsetOrdering(S)
  BY <1>1, <1>2, WFMin
<1>4. PICK m \in S : least = From(m)
  BY <1>3
<1>5. ASSUME NEW h \in S PROVE h <= m
  <2> SUFFICES ASSUME m < h PROVE FALSE
    OBVIOUS
  <2>0. S \subseteq Int
    OBVIOUS
  <2>1. From(h) \subseteq From(m) /\ m \in From(m) /\ m \notin From(h)
    <3>1. h \in Int /\ m \in Int /\ m <= m /\ ~ (h <= m)
      BY <2>0
    <3>2. \A x \in S : h <= x => m <= x
      BY <2>0
    <3> QED
      BY <3>1, <3>2
  <2>2. <<From(h), least>> \in StrictSubsetOrdering(S)
    BY <1>4, <2>1 DEF StrictSubsetOrdering
  <2> QED
    BY <1>3, <2>2
<1>6. S \in SUBSET Nat
  OBVIOUS
<1> QED
  BY <1>5, <1>6, NewestIsMaximum

\* An agent has one entry per id.
OneEntryPerId(s) == \A i, j \in DOMAIN s : s[i].id = s[j].id => i = j

\* Taking an entry out keeps the others in their order.
LEMMA WithoutKeepsOrder ==
  ASSUME NEW s \in Seq(Entry), OneEntryPerId(s), NEW i \in DOMAIN s
  PROVE  /\ Without(s, s[i].id) \in Seq(Entry)
         /\ Len(Without(s, s[i].id)) = Len(s) - 1
         /\ \A k \in 1 .. Len(s) - 1 :
              Without(s, s[i].id)[k] = IF k < i THEN s[k] ELSE s[k + 1]
<1> DEFINE id == s[i].id
           at == CHOOSE j \in DOMAIN s : s[j].id = id
           a == SubSeq(s, 1, i - 1)
           b == SubSeq(s, i + 1, Len(s))
<1>1. at = i
  BY DEF OneEntryPerId
<1>2. Without(s, id) = a \o b
  BY <1>1 DEF Without, IdsOf
<1>3. i \in 1 .. Len(s)
  OBVIOUS
<1>4. a \in Seq(Entry) /\ Len(a) = i - 1 /\ \A k \in 1 .. i - 1 : a[k] = s[k]
  BY <1>3
<1>5. b \in Seq(Entry) /\ Len(b) = Len(s) - i /\ \A k \in 1 .. Len(s) - i : b[k] = s[k + i]
  BY <1>3
<1> HIDE DEF a, b, id, at
<1>6. /\ a \o b \in Seq(Entry)
      /\ Len(a \o b) = Len(a) + Len(b)
      /\ \A k \in 1 .. Len(a) + Len(b) :
           (a \o b)[k] = IF k <= Len(a) THEN a[k] ELSE b[k - Len(a)]
  BY <1>4, <1>5, ConcatProperties
<1>7. Len(a) + Len(b) = Len(s) - 1
  BY <1>3, <1>4, <1>5
<1>8. ASSUME NEW k \in 1 .. Len(s) - 1
      PROVE  (a \o b)[k] = IF k < i THEN s[k] ELSE s[k + 1]
  <2>1. CASE k < i
    <3>1. k \in 1 .. i - 1 /\ k <= Len(a)
      BY <1>3, <1>4, <2>1
    <3> QED
      BY <1>4, <1>6, <1>7, <2>1, <3>1
  <2>2. CASE ~ (k < i)
    <3>1. k - (i - 1) \in 1 .. Len(s) - i /\ ~ (k <= i - 1) /\ (k - (i - 1)) + i = k + 1
      BY <1>3, <2>2
    <3> QED
      BY <1>4, <1>5, <1>6, <1>7, <2>2, <3>1
  <2> QED
    BY <2>1, <2>2
<1> QED
  BY <1>2, <1>6, <1>7, <1>8 DEF id

\* Deleting an entry leaves the entries with the other ids, and still one per id.
LEMMA WithoutTyped ==
  ASSUME NEW s \in Seq(Entry), OneEntryPerId(s), NEW id
  PROVE  /\ Without(s, id) \in Seq(Entry)
         /\ OneEntryPerId(Without(s, id))
         /\ IdsOf(Without(s, id)) = IdsOf(s) \ {id}
<1>1. CASE id \notin IdsOf(s)
  BY <1>1 DEF Without
<1>2. CASE id \in IdsOf(s)
  <2>1. PICK i \in 1 .. Len(s) : s[i].id = id
    BY <1>2 DEF IdsOf
  <2> DEFINE w == Without(s, id)
             Old(k) == IF k < i THEN k ELSE k + 1
  <2>2. /\ w \in Seq(Entry) /\ Len(w) = Len(s) - 1
        /\ \A k \in 1 .. Len(w) : w[k] = s[Old(k)]
    <3>1. i \in DOMAIN s
      BY <2>1
    <3>2. /\ Without(s, s[i].id) \in Seq(Entry)
          /\ Len(Without(s, s[i].id)) = Len(s) - 1
          /\ \A k \in 1 .. Len(s) - 1 :
               Without(s, s[i].id)[k] = IF k < i THEN s[k] ELSE s[k + 1]
      BY <3>1, WithoutKeepsOrder
    <3> QED
      BY <2>1, <3>2
  <2> HIDE DEF w
  <2>3. \A k \in 1 .. Len(w) : Old(k) \in 1 .. Len(s) /\ Old(k) # i
    BY <2>1, <2>2
  <2>4. \A k, l \in 1 .. Len(w) : Old(k) = Old(l) => k = l
    BY <2>1, <2>2
  <2>5. ASSUME NEW j \in 1 .. Len(s), j # i PROVE \E k \in 1 .. Len(w) : Old(k) = j
    <3>1. CASE j < i
      <4>1. j \in 1 .. Len(w)
        BY <2>1, <2>2, <3>1
      <4> QED
        BY <3>1, <4>1
    <3>2. CASE ~ (j < i)
      <4>1. j - 1 \in 1 .. Len(w) /\ Old(j - 1) = j
        BY <2>1, <2>2, <2>5, <3>2
      <4> QED
        BY <4>1
    <3> QED
      BY <3>1, <3>2
  <2> HIDE DEF Old
  <2>6. DOMAIN w = 1 .. Len(w) /\ DOMAIN s = 1 .. Len(s)
    BY <2>2
  <2>7. OneEntryPerId(w)
    BY <2>2, <2>3, <2>4, <2>6 DEF OneEntryPerId
  <2>8. IdsOf(w) = IdsOf(s) \ {id}
    <3>1. ASSUME NEW k \in DOMAIN w PROVE w[k].id \in IdsOf(s) \ {id}
      <4>1. w[k] = s[Old(k)] /\ Old(k) \in DOMAIN s /\ Old(k) # i
        BY <2>2, <2>3, <2>6
      <4> QED
        BY <2>1, <2>6, <4>1 DEF OneEntryPerId, IdsOf
    <3>2. ASSUME NEW j \in DOMAIN s, s[j].id # id PROVE s[j].id \in IdsOf(w)
      <4>1. PICK k \in 1 .. Len(w) : Old(k) = j
        BY <2>1, <2>5, <2>6, <3>2
      <4> QED
        BY <2>2, <2>6, <4>1 DEF IdsOf
    <3> QED
      BY <3>1, <3>2 DEF IdsOf
  <2> QED
    BY <2>2, <2>7, <2>8 DEF w
<1> QED
  BY <1>1, <1>2

\* An entry with an id of its own joins at the end.
LEMMA AppendTyped ==
  ASSUME NEW s \in Seq(Entry), OneEntryPerId(s), NEW e \in Entry, e.id \notin IdsOf(s)
  PROVE  /\ Append(s, e) \in Seq(Entry)
         /\ OneEntryPerId(Append(s, e))
         /\ IdsOf(Append(s, e)) = IdsOf(s) \cup {e.id}
<1> DEFINE w == Append(s, e)
<1>1. /\ w \in Seq(Entry) /\ Len(w) = Len(s) + 1 /\ w[Len(s) + 1] = e
      /\ \A k \in 1 .. Len(s) : w[k] = s[k]
      /\ DOMAIN w = 1 .. Len(s) + 1 /\ DOMAIN s = 1 .. Len(s)
  BY AppendProperties
<1> HIDE DEF w
<1>2. \A k \in DOMAIN w : k \in DOMAIN s \/ k = Len(s) + 1
  BY <1>1
<1>3. OneEntryPerId(w)
  BY <1>1, <1>2 DEF OneEntryPerId, IdsOf
<1>4. IdsOf(w) = IdsOf(s) \cup {e.id}
  <2>1. \A k \in DOMAIN s : k \in DOMAIN w
    BY <1>1
  <2>2. Len(s) + 1 \in DOMAIN w
    BY <1>1
  <2> QED
    BY <1>1, <1>2, <2>1, <2>2 DEF IdsOf
<1> QED
  BY <1>1, <1>3, <1>4 DEF w

\* One entry per id: as many ids as entries.
LEMMA IdsCounted ==
  ASSUME NEW s \in Seq(Entry), OneEntryPerId(s)
  PROVE  Cardinality(IdsOf(s)) = Len(s)
<1> DEFINE f == [i \in 1 .. Len(s) |-> s[i].id]
<1>1. DOMAIN s = 1 .. Len(s) /\ Len(s) \in Nat
  OBVIOUS
<1>2. f \in [1 .. Len(s) -> IdsOf(s)]
  BY <1>1 DEF IdsOf
<1>3. \A i, j \in 1 .. Len(s) : f[i] = f[j] => i = j
  BY <1>1 DEF OneEntryPerId
<1>4. \A id \in IdsOf(s) : \E i \in 1 .. Len(s) : f[i] = id
  BY <1>1 DEF IdsOf
<1> HIDE DEF f
<1>5. f \in Bijection(1 .. Len(s), IdsOf(s))
  BY <1>2, <1>3, <1>4 DEF Bijection, Injection, Surjection, IsInjective
<1>6. ExistsBijection(1 .. Len(s), IdsOf(s))
  BY <1>5 DEF ExistsBijection
<1> QED
  BY <1>1, <1>6, FS_CountingElements

-----------------------------------------------------------------------------
(* Type correctness.                                                       *)

\* The platform's side: besides the types, a worker that is still deploying has room
\* for its engine, and an engine is pending or has been registered, never both.
PlatformOK ==
  /\ deploying \subseteq Agent
  /\ \A a \in deploying : created[a] < MaxGen[a]
  /\ staged \in [Agent -> Agent \cup {None}]
  /\ created \in [Agent -> Nat]
  /\ \A a \in Agent : created[a] <= MaxGen[a]
  /\ engines \in [Agent -> SUBSET Gen]
  /\ pending \in [Agent -> SUBSET Gen]
  /\ \A a \in Agent : engines[a] \cup pending[a] \subseteq 1 .. created[a]
  /\ booted \in [Agent -> SUBSET (Agent \cup {None})]
  /\ entries \in [Agent -> Seq(Entry)]
  /\ \A a \in Agent : OneEntryPerId(entries[a])
  /\ \A a \in Agent : IdsOf(entries[a]) \subseteq (1 .. created[a]) \ pending[a]

\* The operators' side.
RunsOK ==
  /\ opc \in [Operator -> OPC]
  /\ kept \in [Operator -> [Agent -> Nat]]
  /\ \A o \in Operator, a \in Agent : kept[o][a] <= created[a]
  /\ listed \in [Operator -> [Agent -> Seq(Entry)]]
  /\ plan \in [Operator -> SUBSET (Agent \X Gen)]
  /\ calm \in [Operator -> BOOLEAN]
  /\ \A o \in Operator : opc[o] = "off" =>
       kept[o] = NoEngines /\ listed[o] = NoEntries /\ plan[o] = {} /\ ~ calm[o]

\* Generations are positive numbers.
LEMMA GenIsPositive ==
  /\ Gen \in SUBSET (Nat \ {0})
  /\ \A a \in Agent : \A g \in 1 .. MaxGen[a] : g \in Gen
BY RolloutAssumption DEF Gen

\* The two sides together are the type invariant.
LEMMA PartsOfType == PlatformOK /\ RunsOK => TypeOK
BY IdsCounted DEF PlatformOK, RunsOK, TypeOK

\* Before anything is deployed, every variable has its type.
LEMMA TypeInit == Init => PlatformOK /\ RunsOK
<1> SUFFICES ASSUME Init PROVE PlatformOK /\ RunsOK
  OBVIOUS
<1>1. <<>> \in Seq(Entry) /\ OneEntryPerId(<<>>) /\ IdsOf(<<>>) = {}
  BY DEF OneEntryPerId, IdsOf
<1>2. entries = NoEntries /\ \A a \in Agent : NoEntries[a] = <<>>
  BY DEF Init, NoEntries
<1>3. NoEntries \in [Agent -> Seq(Entry)] /\ NoEngines \in [Agent -> Nat]
  BY <1>1 DEF NoEntries, NoEngines
<1>4. PlatformOK
  BY <1>1, <1>2, <1>3, RolloutAssumption DEF Init, PlatformOK
<1>5. RunsOK
  BY <1>3 DEF Init, RunsOK, OPC, NoEngines
<1> QED
  BY <1>4, <1>5

\* Deploys and registrations keep the platform's types.
LEMMA PlatformStep ==
  ASSUME PlatformOK, RunsOK, CleanupInv, [Next]_vars
  PROVE  PlatformOK'
<1> USE GenIsPositive, RolloutAssumption DEF PlatformOK
<1>1. ASSUME NEW a \in Agent, Stage(a) PROVE PlatformOK'
  BY <1>1 DEF Stage, Dir
<1>2. ASSUME NEW a \in Agent, Create(a) PROVE PlatformOK'
  <2> DEFINE new == created[a] + 1
  <2>1. /\ created' = [created EXCEPT ![a] = new]
        /\ engines' = [engines EXCEPT ![a] = @ \cup {new}]
        /\ pending' = [pending EXCEPT ![a] = @ \cup {new}]
        /\ booted' = [booted EXCEPT ![a] = @ \cup {staged[a]}]
        /\ deploying' = deploying \ {a}
        /\ a \in deploying
        /\ UNCHANGED <<staged, entries>>
    BY <1>2 DEF Create, Dir
  <2>2. new \in Nat /\ new <= MaxGen[a] /\ new \in Gen
    BY <2>1
  <2> HIDE DEF new
  <2>3. /\ created' \in [Agent -> Nat]
        /\ \A b \in Agent : created[b] <= created'[b] /\ created'[b] <= MaxGen[b]
        /\ \A b \in deploying' : created'[b] < MaxGen[b]
    BY <2>1, <2>2 DEF new
  <2>4. /\ engines' \in [Agent -> SUBSET Gen] /\ pending' \in [Agent -> SUBSET Gen]
        /\ booted' \in [Agent -> SUBSET (Agent \cup {None})]
    BY <2>1, <2>2
  <2>5. \A b \in Agent : engines'[b] \cup pending'[b] \subseteq 1 .. created'[b]
    BY <2>1, <2>2, <2>3 DEF new
  <2>6. \A b \in Agent : IdsOf(entries'[b]) \subseteq (1 .. created'[b]) \ pending'[b]
    <3>1. new \notin 1 .. created[a]
      BY DEF new
    <3> QED
      BY <2>1, <2>3, <3>1
  <2> QED
    BY <2>1, <2>3, <2>4, <2>5, <2>6
<1>3. ASSUME NEW a \in Agent, WorkerFails(a) PROVE PlatformOK'
  BY <1>3 DEF WorkerFails
<1>4. ASSUME NEW a \in Agent, NEW g \in Gen, NEW s \in Seq(Entry), Registered(a, g, s),
             OneEntryPerId(s), IdsOf(s) \subseteq IdsOf(entries[a]) \cup {g}
      PROVE  PlatformOK'
  BY <1>4 DEF Registered
<1>5. ASSUME NEW a \in Agent, NEW g \in Gen, Register(a, g) PROVE PlatformOK'
  <2> DEFINE e == [id |-> g, card |-> g, proto |-> g]
  <2>1. e \in Entry /\ e.id \notin IdsOf(entries[a]) /\ entries[a] \in Seq(Entry)
    BY <1>5 DEF Register, Registered, Entry
  <2>2. /\ Append(entries[a], e) \in Seq(Entry) /\ OneEntryPerId(Append(entries[a], e))
        /\ IdsOf(Append(entries[a], e)) = IdsOf(entries[a]) \cup {g}
    BY <2>1, AppendTyped
  <2> QED
    BY <1>4, <1>5, <2>2 DEF Register
<1>6. ASSUME NEW a \in Agent, NEW g \in Gen, NEW i \in DOMAIN entries[a],
             RegisterOver(a, g, i)
      PROVE  PlatformOK'
  <2> DEFINE e == entries[a][i]
             new == [e EXCEPT !.card = g]
             rest == Without(entries[a], e.id)
  <2>1. e \in Entry /\ e.id \in IdsOf(entries[a]) /\ entries[a] \in Seq(Entry)
    BY DEF IdsOf
  <2>2. new \in Entry /\ new.id = e.id
    BY <2>1 DEF Entry
  <2>3. rest \in Seq(Entry) /\ OneEntryPerId(rest) /\ IdsOf(rest) = IdsOf(entries[a]) \ {e.id}
    BY <2>1, WithoutTyped
  <2>4. Registered(a, g, Append(rest, new))
    BY <1>6 DEF RegisterOver
  <2> HIDE DEF e, new, rest
  <2>5. /\ Append(rest, new) \in Seq(Entry) /\ OneEntryPerId(Append(rest, new))
        /\ IdsOf(Append(rest, new)) \subseteq IdsOf(entries[a]) \cup {g}
    BY <2>1, <2>2, <2>3, AppendTyped
  <2> QED
    BY <1>4, <2>4, <2>5
<1>7. ASSUME NEW o \in Operator, Step(o) PROVE PlatformOK'
  <2>1. ASSUME NEW x \in plan[o], CleanupDeletes(o, x[1], x[2]) PROVE PlatformOK'
    BY <2>1 DEF CleanupDeletes
  <2>2. ASSUME NEW x \in plan[o], SyncDeletes(o, x[1], x[2]) PROVE PlatformOK'
    <3>1. entries' = [entries EXCEPT ![x[1]] = Without(@, x[2])] /\ x[1] \in Agent
      BY <2>2 DEF SyncDeletes, RunsOK
    <3>2. /\ Without(entries[x[1]], x[2]) \in Seq(Entry)
          /\ OneEntryPerId(Without(entries[x[1]], x[2]))
          /\ IdsOf(Without(entries[x[1]], x[2])) \subseteq IdsOf(entries[x[1]])
      BY <3>1, WithoutTyped
    <3> QED
      BY <2>2, <3>1, <3>2 DEF SyncDeletes
  <2>3. CASE UNCHANGED platformVars
    BY <2>3 DEF platformVars
  <2> QED
    BY <1>7, <2>1, <2>2, <2>3 DEF Step, CleanupLists, SyncListsEngines, Starts,
      SyncListsEntries, SyncInspects, Confirm, Finished, Exit, SyncDeleteFails
<1>8. CASE UNCHANGED vars
  BY <1>8 DEF vars, platformVars
<1> QED
  BY <1>1, <1>2, <1>3, <1>5, <1>6, <1>7, <1>8 DEF Next

\* Listing, planning and deleting keep the operators' types.
LEMMA RunsStep ==
  ASSUME PlatformOK, RunsOK, CleanupInv, [Next]_vars
  PROVE  RunsOK'
<1> USE DEF RunsOK
<1>1. ASSUME NEW a \in Agent, Create(a) PROVE RunsOK'
  <2>1. created' = [created EXCEPT ![a] = created[a] + 1]
        /\ calm' = [o \in Operator |-> FALSE] /\ UNCHANGED <<opc, kept, listed, plan>>
    BY <1>1 DEF Create
  <2>2. \A b \in Agent : created[b] \in Nat /\ created[b] <= created'[b] /\ created'[b] \in Nat
    BY <2>1 DEF PlatformOK
  <2> QED
    BY <2>1, <2>2
<1>2. ASSUME NEW a \in Agent, Stage(a) \/ WorkerFails(a) PROVE RunsOK'
  BY <1>2 DEF Stage, WorkerFails, runVars
<1>3. ASSUME NEW a \in Agent, NEW g \in Gen,
             Register(a, g) \/ \E i \in DOMAIN entries[a] : RegisterOver(a, g, i)
      PROVE  RunsOK'
  BY <1>3 DEF Register, RegisterOver, Registered
<1>4. ASSUME NEW o \in Operator, NEW selected \in SUBSET Agent,
             CleanupLists(o, selected) \/ SyncListsEngines(o, selected)
      PROVE  RunsOK'
  <2> DEFINE new == [a \in Agent |-> IF a \in selected THEN Newest(engines[a]) ELSE 0]
  <2>1. new \in [Agent -> Nat] /\ \A a \in Agent : new[a] <= created[a]
    BY NewestIsCreated DEF PlatformOK
  <2>2. Stale(selected) \in SUBSET (Agent \X Gen)
    BY DEF Stale, PlatformOK
  <2>3. /\ kept' = [kept EXCEPT ![o] = new] /\ calm' = [calm EXCEPT ![o] = TRUE]
        /\ plan' \in {plan, [plan EXCEPT ![o] = Stale(selected)]}
        /\ \E to \in {"c_prompt", "s_list"} : opc' = [opc EXCEPT ![o] = to]
        /\ UNCHANGED <<created, listed>>
    BY <1>4 DEF CleanupLists, SyncListsEngines, Starts, GoTo, platformVars
  <2> HIDE DEF new
  <2> QED
    BY <2>1, <2>2, <2>3 DEF OPC
<1>5. ASSUME NEW o \in Operator, SyncListsEntries(o) PROVE RunsOK'
  BY <1>5 DEF SyncListsEntries, GoTo, platformVars, PlatformOK, OPC
<1>6. ASSUME NEW o \in Operator, NEW blind, SyncInspects(o, blind) PROVE RunsOK'
  <2>1. Redundant(o, blind) \in SUBSET (Agent \X Gen)
    <3>1. ASSUME NEW a \in Agent PROVE IdsOf(listed[o][a]) \subseteq Gen
      <4>1. listed[o][a] \in Seq(Entry)
        OBVIOUS
      <4>2. \A i \in DOMAIN listed[o][a] : listed[o][a][i] \in Entry
        BY <4>1
      <4> QED
        BY <4>2 DEF IdsOf, Entry
    <3> QED
      BY <3>1 DEF Redundant
  <2>2. NoEntries \in [Agent -> Seq(Entry)]
    BY DEF NoEntries
  <2>3. /\ plan' = [plan EXCEPT ![o] = Redundant(o, blind)]
        /\ listed' = [listed EXCEPT ![o] = NoEntries]
        /\ \E to \in {"s_done", "s_prompt"} : opc' = [opc EXCEPT ![o] = to]
        /\ calm' = [calm EXCEPT ![o] = @ /\ blind = {}]
        /\ UNCHANGED <<created, kept>>
    BY <1>6 DEF SyncInspects, GoTo, platformVars
  <2>4. calm' \in [Operator -> BOOLEAN] /\ \A p \in Operator \ {o} : calm'[p] = calm[p]
    BY <2>3
  <2> QED
    BY <2>1, <2>2, <2>3, <2>4 DEF OPC
<1>7. ASSUME NEW o \in Operator, Confirm(o) \/ Finished(o) PROVE RunsOK'
  BY <1>7 DEF Confirm, Finished, GoTo, platformVars, OPC
<1>8. ASSUME NEW o \in Operator, Exit(o) PROVE RunsOK'
  <2>1. NoEntries \in [Agent -> Seq(Entry)] /\ NoEngines \in [Agent -> Nat]
        /\ \A a \in Agent : NoEngines[a] <= created[a]
    BY DEF NoEntries, NoEngines, PlatformOK
  <2> QED
    BY <1>8, <2>1 DEF Exit, Forget, GoTo, platformVars, OPC
<1>9. ASSUME NEW o \in Operator, NEW x \in plan[o],
             \/ CleanupDeletes(o, x[1], x[2]) \/ SyncDeletes(o, x[1], x[2])
             \/ SyncDeleteFails(o, x[1], x[2])
      PROVE  RunsOK'
  <2>1. /\ \E y : plan' = [plan EXCEPT ![o] = @ \ {y}]
        /\ UNCHANGED <<created, opc, kept, listed>>
        /\ \/ calm' = calm
           \/ calm' = [calm EXCEPT ![o] = FALSE]
           \/ calm' = [p \in Operator |-> calm[p] /\ p = o]
    BY <1>9 DEF CleanupDeletes, SyncDeletes, SyncDeleteFails, platformVars
  <2>2. calm' \in [Operator -> BOOLEAN] /\ \A p \in Operator : calm'[p] => calm[p]
    BY <2>1
  <2> QED
    BY <2>1, <2>2
<1>10. CASE UNCHANGED vars
  BY <1>10 DEF vars, platformVars, runVars
<1> QED
  BY <1>1, <1>2, <1>3, <1>4, <1>5, <1>6, <1>7, <1>8, <1>9, <1>10 DEF Next, Step

\* Every variable keeps its type, only engines there ever were are referred to, an
\* agent has one entry per id, and a run that is over holds nothing.
THEOREM TypeCorrect == Spec => []TypeOK
<1>1. PlatformOK /\ RunsOK /\ CleanupInv /\ [Next]_vars => (PlatformOK /\ RunsOK)'
  BY PlatformStep, RunsStep
<1> QED
  BY <1>1, TypeInit, PartsOfType, CleanupInvariant, PTL DEF Spec

-----------------------------------------------------------------------------
(* Runs that nobody disturbs.                                              *)

\* Of the entries s of agent a, a run that is to delete "doomed" spares the k-th alone:
\* the last one that refers to the engine it keeps, or the last of all if none does.
Spares(s, a, doomed, keep, k) ==
  /\ \A i \in DOMAIN s : <<a, s[i].id>> \in doomed <=> i # k
  /\ \A i \in DOMAIN s : i > k => keep \notin Ids(s[i])
  /\ keep \notin Ids(s[k]) => k = Len(s) /\ \A i \in DOMAIN s : keep \notin Ids(s[i])

\* What a run knows of the world as long as nobody disturbs it.
Knows(o) ==
  /\ \A a \in Agent : kept[o][a] \in {0, created[a]}
  /\ opc[o] \in {"c_prompt", "c_delete"} =>
       \A a \in Agent : \A g \in engines[a] :
         kept[o][a] # 0 => g = kept[o][a] \/ <<a, g>> \in plan[o]
  /\ opc[o] = "c_done" =>
       \A a \in Agent : kept[o][a] # 0 => engines[a] \subseteq {kept[o][a]}
  /\ opc[o] = "s_inspect" => listed[o] = entries
  /\ opc[o] \in {"s_prompt", "s_delete"} =>
       \A a \in Agent : entries[a] # <<>> =>
         \E k \in DOMAIN entries[a] : Spares(entries[a], a, plan[o], kept[o][a], k)
  /\ opc[o] = "s_done" => \A a \in Agent : Len(entries[a]) <= 1

CalmInv == \A o \in Operator : calm[o] => Knows(o)

\* A plan made from the entries as they are spares one entry of each agent that has any.
LEMMA PlanSparesOne ==
  ASSUME PlatformOK, RunsOK, NEW o \in Operator, listed[o] = entries,
         NEW a \in Agent, entries[a] # <<>>
  PROVE  \E k \in DOMAIN entries[a] :
           Spares(entries[a], a, Redundant(o, {}), kept[o][a], k)
<1> DEFINE s == entries[a]
           keep == kept[o][a]
           atLive == {i \in DOMAIN s : keep \in DetailIds(a, s[i], {})}
<1>1. /\ s \in Seq(Entry) /\ OneEntryPerId(s) /\ DOMAIN s = 1 .. Len(s)
      /\ Len(s) \in Nat /\ Len(s) \in 1 .. Len(s)
  <2>1. s \in Seq(Entry) /\ OneEntryPerId(s)
    BY DEF PlatformOK
  <2>2. Len(s) \in Nat /\ Len(s) # 0
    BY <2>1, EmptySeq
  <2> QED
    BY <2>1, <2>2
<1>2. ASSUME NEW i \in DOMAIN s PROVE DetailIds(a, s[i], {}) = Ids(s[i])
  <2>1. s[i].id \in IdsOf(s)
    BY DEF IdsOf
  <2>2. (CHOOSE d \in {s[j] : j \in DOMAIN s} : d.id = s[i].id) = s[i]
    BY <1>1 DEF OneEntryPerId
  <2> QED
    BY <2>1, <2>2 DEF DetailIds
<1>3. atLive = {i \in DOMAIN s : keep \in Ids(s[i])}
  BY <1>2
<1>4. KeptEntry(o, a, {}) = IF atLive # {} THEN s[Newest(atLive)].id ELSE s[Len(s)].id
  BY DEF KeptEntry, Last
<1> DEFINE k == IF atLive # {} THEN Newest(atLive) ELSE Len(s)
<1>5. /\ k \in 1 .. Len(s)
      /\ atLive # {} => k \in atLive /\ \A i \in atLive : i <= k
      /\ KeptEntry(o, a, {}) = s[k].id
  <2>1. CASE atLive = {}
    BY <1>1, <1>4, <2>1
  <2>2. CASE atLive # {}
    <3>1. atLive \in SUBSET (1 .. Len(s))
      BY <1>1
    <3> HIDE DEF atLive
    <3>2. Newest(atLive) \in atLive /\ \A i \in atLive : i <= Newest(atLive)
      BY <1>1, <2>2, <3>1, NewestExists
    <3> QED
      BY <1>4, <2>2, <3>1, <3>2
  <2> QED
    BY <2>1, <2>2
<1>6. ASSUME NEW i \in DOMAIN s
      PROVE  <<a, s[i].id>> \in Redundant(o, {}) <=> i # k
  <2>1. <<a, s[i].id>> \in Redundant(o, {}) <=> s[i].id # KeptEntry(o, a, {})
    <3>1. s[i].id \in IdsOf(listed[o][a]) /\ listed[o][a] # <<>>
      BY DEF IdsOf
    <3> QED
      BY <3>1 DEF Redundant
  <2>2. s[i].id = s[k].id <=> i = k
    BY <1>1, <1>5 DEF OneEntryPerId
  <2> QED
    BY <1>5, <2>1, <2>2
<1>7. ASSUME NEW i \in DOMAIN s, i > k PROVE keep \notin Ids(s[i])
  <2> SUFFICES ASSUME i \in atLive PROVE FALSE
    BY <1>3
  <2>1. i <= k /\ i \in Nat /\ k \in Nat
    BY <1>1, <1>5
  <2> QED
    BY <1>7, <2>1
<1>8. keep \notin Ids(s[k]) => k = Len(s) /\ \A i \in DOMAIN s : keep \notin Ids(s[i])
  BY <1>3, <1>5
<1> HIDE DEF k, s, keep
<1>9. k \in DOMAIN s /\ Spares(s, a, Redundant(o, {}), keep, k)
  BY <1>1, <1>5, <1>6, <1>7, <1>8 DEF Spares
<1> QED
  BY <1>9 DEF s, keep

\* Deleting a doomed entry leaves the spared one where it stands among the others.
LEMMA SparedStays ==
  ASSUME NEW s \in Seq(Entry), OneEntryPerId(s), NEW a, NEW doomed, NEW keep,
         NEW k \in DOMAIN s, Spares(s, a, doomed, keep, k),
         NEW id, <<a, id>> \in doomed
  PROVE  \E l \in DOMAIN Without(s, id) :
           /\ Without(s, id)[l] = s[k]
           /\ k = Len(s) => l = Len(Without(s, id))
           /\ Spares(Without(s, id), a, doomed \ {<<a, id>>}, keep, l)
<1>1. CASE id \notin IdsOf(s)
  <2>1. Without(s, id) = s
    BY <1>1 DEF Without
  <2>2. \A i \in DOMAIN s : s[i].id # id
    BY <1>1 DEF IdsOf
  <2>3. Spares(s, a, doomed \ {<<a, id>>}, keep, k)
    BY <2>2 DEF Spares
  <2> QED
    BY <2>1, <2>3
<1>2. CASE id \in IdsOf(s)
  <2>0. DOMAIN s = 1 .. Len(s) /\ Len(s) \in Nat
    OBVIOUS
  <2>1. PICK i \in DOMAIN s : s[i].id = id
    BY <1>2 DEF IdsOf
  <2> DEFINE w == Without(s, id)
             Old(j) == IF j < i THEN j ELSE j + 1
             l == IF k < i THEN k ELSE k - 1
  <2>2. /\ w \in Seq(Entry) /\ Len(w) = Len(s) - 1
        /\ \A j \in 1 .. Len(s) - 1 : w[j] = s[Old(j)]
    <3>1. /\ Without(s, s[i].id) \in Seq(Entry)
          /\ Len(Without(s, s[i].id)) = Len(s) - 1
          /\ \A j \in 1 .. Len(s) - 1 :
               Without(s, s[i].id)[j] = IF j < i THEN s[j] ELSE s[j + 1]
      BY WithoutKeepsOrder
    <3> QED
      BY <2>1, <3>1
  <2> HIDE DEF w
  <2>3. i # k
    BY <2>1 DEF Spares
  <2>4. DOMAIN w = 1 .. Len(s) - 1
    BY <2>2
  <2>5. l \in DOMAIN w /\ Old(l) = k /\ (k = Len(s) => l = Len(w))
    BY <2>0, <2>2, <2>3, <2>4
  <2>6. ASSUME NEW j \in DOMAIN w
        PROVE  /\ Old(j) \in DOMAIN s /\ Old(j) # i
               /\ Old(j) = k <=> j = l
               /\ j > l => Old(j) > k
    BY <2>0, <2>3, <2>4
  <2> HIDE DEF Old, l
  <2>7. \A j \in DOMAIN w : w[j] = s[Old(j)] /\ w[j].id # id
    BY <2>1, <2>2, <2>4, <2>6 DEF OneEntryPerId
  <2>8. ASSUME NEW j \in DOMAIN w
        PROVE  <<a, w[j].id>> \in doomed \ {<<a, id>>} <=> j # l
    BY <2>6, <2>7 DEF Spares
  <2>9. \A j \in DOMAIN w : j > l => keep \notin Ids(w[j])
    BY <2>6, <2>7 DEF Spares
  <2>10. keep \notin Ids(w[l]) => l = Len(w) /\ \A j \in DOMAIN w : keep \notin Ids(w[j])
    BY <2>5, <2>6, <2>7 DEF Spares
  <2>11. Spares(w, a, doomed \ {<<a, id>>}, keep, l)
    BY <2>8, <2>9, <2>10 DEF Spares
  <2> QED
    BY <2>5, <2>7, <2>11 DEF w
<1> QED
  BY <1>1, <1>2

\* Where an entry is spared and none is doomed, there is no other.
LEMMA NothingDoomed ==
  ASSUME NEW s \in Seq(Entry), NEW a, NEW keep,
         s # <<>> => \E k \in DOMAIN s : Spares(s, a, {}, keep, k)
  PROVE  Len(s) <= 1
<1>1. CASE s = <<>>
  BY <1>1
<1>2. CASE s # <<>>
  <2>1. PICK k \in DOMAIN s : Spares(s, a, {}, keep, k)
    BY <1>2
  <2>2. ASSUME NEW i \in DOMAIN s PROVE i = k
    <3>1. <<a, s[i].id>> \in {} <=> i # k
      BY <2>1 DEF Spares
    <3> QED
      BY <3>1
  <2>3. DOMAIN s = 1 .. Len(s) /\ Len(s) \in Nat
    OBVIOUS
  <2>4. ASSUME Len(s) > 1 PROVE FALSE
    <3>1. 1 \in DOMAIN s /\ 2 \in DOMAIN s
      BY <2>3, <2>4
    <3>2. 1 = k /\ 2 = k
      BY <2>2, <3>1
    <3> QED
      BY <3>2
  <2> QED
    BY <2>3, <2>4
<1> QED
  BY <1>1, <1>2

\* The steps that leave the run and the registry alone; engines may go meanwhile.
LEMMA KnowsKept ==
  ASSUME NEW o \in Operator, Knows(o), UNCHANGED <<created, entries>>,
         kept'[o] = kept[o], opc'[o] = opc[o], plan'[o] = plan[o], listed'[o] = listed[o],
         \A a \in Agent : engines'[a] \subseteq engines[a]
  PROVE  Knows(o)'
BY DEF Knows

\* A step of one run leaves what the others plan alone.
LEMMA StepIsOwn ==
  ASSUME RunsOK, NEW o \in Operator, NEW p \in Operator, p # o, Step(p)
  PROVE  plan'[o] = plan[o]
<1> \E S : plan' = [plan EXCEPT ![p] = S]
  <2>1. ASSUME UNCHANGED plan PROVE plan' = [plan EXCEPT ![p] = plan[p]]
    BY <2>1 DEF RunsOK
  <2> QED
    BY <2>1 DEF Step, CleanupLists, SyncListsEngines, Starts, SyncListsEntries, SyncInspects,
      Confirm, Finished, Exit, Forget, CleanupDeletes, SyncDeletes, SyncDeleteFails
<1> QED
  BY DEF RunsOK

\* A run that starts keeps the newest engine of each agent it is called for, and means
\* to delete the others.
LEMMA StartKnows ==
  ASSUME PlatformOK, RunsOK, CleanupInv, NEW o \in Operator, NEW selected \in SUBSET Agent,
         CleanupLists(o, selected) \/ SyncListsEngines(o, selected)
  PROVE  Knows(o)'
<1>1. /\ kept'[o] = [a \in Agent |-> IF a \in selected THEN Newest(engines[a]) ELSE 0]
      /\ UNCHANGED <<created, engines, entries>>
      /\ \/ opc'[o] = "c_prompt" /\ plan'[o] = Stale(selected)
         \/ opc'[o] = "s_list"
  BY DEF CleanupLists, SyncListsEngines, Starts, GoTo, RunsOK, platformVars
<1>2. \A a \in Agent : kept'[o][a] = IF a \in selected THEN created[a] ELSE 0
  BY <1>1, NewestIsCreated
<1>3. ASSUME NEW a \in selected, NEW g \in engines[a], g # created[a]
      PROVE  <<a, g>> \in Stale(selected)
  BY <1>3, NewestIsCreated DEF Stale
<1>4. ASSUME opc'[o] = "c_prompt", NEW a \in Agent, NEW g \in engines[a], kept'[o][a] # 0
      PROVE  g = kept'[o][a] \/ <<a, g>> \in plan'[o]
  BY <1>1, <1>2, <1>3, <1>4
<1> QED
  BY <1>1, <1>2, <1>4 DEF Knows

\* A run that is through has done what it planned.
LEMMA FinishKnows ==
  ASSUME PlatformOK, RunsOK, NEW o \in Operator, Knows(o), Finished(o)
  PROVE  Knows(o)'
<1>1. /\ plan[o] = {} /\ UNCHANGED <<created, engines, entries, kept, listed, plan>>
      /\ \/ opc[o] = "c_delete" /\ opc'[o] = "c_done"
         \/ opc[o] = "s_delete" /\ opc'[o] = "s_done"
  BY DEF Finished, GoTo, platformVars, RunsOK
<1>2. CASE opc[o] = "c_delete" /\ opc'[o] = "c_done"
  BY <1>1, <1>2 DEF Knows
<1>3. CASE opc[o] = "s_delete" /\ opc'[o] = "s_done"
  <2>1. ASSUME NEW a \in Agent PROVE Len(entries[a]) <= 1
    <3>0. entries[a] \in Seq(Entry)
      BY DEF PlatformOK
    <3>1. entries[a] # <<>> => \E k \in DOMAIN entries[a] :
                                  Spares(entries[a], a, {}, kept[o][a], k)
      BY <1>1, <1>3 DEF Knows
    <3> QED
      BY <3>0, <3>1, NothingDoomed
  <2> QED
    BY <1>1, <1>3, <2>1 DEF Knows
<1> QED
  BY <1>1, <1>2, <1>3

\* A deletion by the run itself is one the plan was made for.
LEMMA DeleteKnows ==
  ASSUME PlatformOK, RunsOK, NEW o \in Operator, Knows(o), NEW x \in plan[o],
         CleanupDeletes(o, x[1], x[2]) \/ SyncDeletes(o, x[1], x[2])
  PROVE  Knows(o)'
<1>0. x = <<x[1], x[2]>> /\ x[1] \in Agent
  BY DEF RunsOK
<1>1. CASE CleanupDeletes(o, x[1], x[2])
  <2>1. /\ engines' = [engines EXCEPT ![x[1]] = @ \ {x[2]}]
        /\ plan'[o] = plan[o] \ {<<x[1], x[2]>>}
        /\ opc[o] = "c_delete"
        /\ UNCHANGED <<created, entries, opc, kept, listed>>
    BY <1>1 DEF CleanupDeletes, RunsOK
  <2>2. ASSUME NEW a \in Agent, NEW g \in engines'[a]
        PROVE  g \in engines[a] /\ <<a, g>> # <<x[1], x[2]>>
    BY <1>0, <2>1 DEF PlatformOK
  <2> QED
    BY <2>1, <2>2 DEF Knows
<1>2. CASE SyncDeletes(o, x[1], x[2])
  <2>1. /\ entries' = [entries EXCEPT ![x[1]] = Without(@, x[2])]
        /\ plan'[o] = plan[o] \ {<<x[1], x[2]>>}
        /\ opc[o] = "s_delete"
        /\ UNCHANGED <<created, engines, opc, kept, listed>>
    BY <1>2 DEF SyncDeletes, RunsOK
  <2>2. ASSUME NEW a \in Agent, entries'[a] # <<>>
        PROVE  \E l \in DOMAIN entries'[a] :
                 Spares(entries'[a], a, plan'[o], kept[o][a], l)
    <3>1. CASE a = x[1]
      <4>1. entries'[a] = Without(entries[a], x[2]) /\ entries[a] \in Seq(Entry)
            /\ OneEntryPerId(entries[a])
        BY <2>1, <3>1 DEF PlatformOK
      <4>2. entries[a] # <<>>
        BY <2>2, <4>1 DEF Without, IdsOf
      <4>3. PICK k \in DOMAIN entries[a] : Spares(entries[a], a, plan[o], kept[o][a], k)
        BY <2>1, <4>2 DEF Knows
      <4>4. <<a, x[2]>> \in plan[o]
        BY <1>0, <3>1
      <4>5. \E l \in DOMAIN Without(entries[a], x[2]) :
              Spares(Without(entries[a], x[2]), a, plan[o] \ {<<a, x[2]>>}, kept[o][a], l)
        BY <4>1, <4>3, <4>4, SparedStays
      <4> QED
        BY <2>1, <3>1, <4>1, <4>5
    <3>2. CASE a # x[1]
      <4>1. entries'[a] = entries[a]
        BY <2>1, <3>2 DEF PlatformOK
      <4>2. PICK k \in DOMAIN entries[a] : Spares(entries[a], a, plan[o], kept[o][a], k)
        BY <2>1, <2>2, <4>1 DEF Knows
      <4>3. \A id : <<a, id>> \in plan'[o] <=> <<a, id>> \in plan[o]
        BY <2>1, <3>2
      <4>4. Spares(entries[a], a, plan'[o], kept[o][a], k)
        BY <4>2, <4>3 DEF Spares
      <4> QED
        BY <4>1, <4>4
    <3> QED
      BY <3>1, <3>2
  <2> QED
    BY <2>1, <2>2 DEF Knows
<1> QED
  BY <1>1, <1>2

\* Whoever does what, an undisturbed run goes on knowing: others' cleanups take none of
\* the engines it keeps, and whatever else could matter to it ends its calm.
LEMMA CalmStep ==
  ASSUME PlatformOK, RunsOK, CleanupInv, CalmInv, [Next]_vars
  PROVE  CalmInv'
<1> SUFFICES ASSUME NEW o \in Operator, calm'[o] PROVE Knows(o)'
  BY DEF CalmInv
<1>1. CASE UNCHANGED <<created, engines, entries, runVars>>
  BY <1>1, KnowsKept DEF CalmInv, runVars
<1>2. ASSUME NEW a \in Agent, Stage(a) \/ Create(a) \/ WorkerFails(a) PROVE Knows(o)'
  BY <1>1, <1>2 DEF Stage, Create, WorkerFails
<1>3. ASSUME NEW a \in Agent, NEW g \in Gen,
             Register(a, g) \/ \E i \in DOMAIN entries[a] : RegisterOver(a, g, i)
      PROVE  Knows(o)'
  BY <1>3 DEF Register, RegisterOver, Registered
<1>4. ASSUME NEW p \in Operator, p # o, Step(p) PROVE Knows(o)'
  <2>1. ASSUME NEW x \in plan[p], SyncDeletes(p, x[1], x[2]) PROVE FALSE
    BY <1>4, <2>1 DEF SyncDeletes
  <2> DEFINE Same == /\ UNCHANGED <<created, entries>>
                     /\ kept'[o] = kept[o] /\ opc'[o] = opc[o] /\ plan'[o] = plan[o]
                     /\ listed'[o] = listed[o] /\ calm'[o] = calm[o]
                     /\ \A a \in Agent : engines'[a] \subseteq engines[a]
  <2>2. Same
    <3> USE <1>4 DEF RunsOK, PlatformOK, GoTo, platformVars
    <3>1. ASSUME NEW selected \in SUBSET Agent,
                 CleanupLists(p, selected) \/ SyncListsEngines(p, selected)
          PROVE  Same
      BY <3>1 DEF CleanupLists, SyncListsEngines, Starts
    <3>2. ASSUME SyncListsEntries(p) \/ Confirm(p) \/ Finished(p) PROVE Same
      BY <3>2 DEF SyncListsEntries, Confirm, Finished
    <3>3. ASSUME NEW blind, SyncInspects(p, blind) PROVE Same
      BY <3>3 DEF SyncInspects
    <3>4. ASSUME Exit(p) PROVE Same
      BY <3>4 DEF Exit, Forget
    <3>5. ASSUME NEW x \in plan[p], SyncDeleteFails(p, x[1], x[2]) PROVE Same
      BY <3>5 DEF SyncDeleteFails
    <3>6. ASSUME NEW x \in plan[p], CleanupDeletes(p, x[1], x[2]) PROVE Same
      <4>1. /\ engines' = [engines EXCEPT ![x[1]] = @ \ {x[2]}]
            /\ plan' = [plan EXCEPT ![p] = @ \ {<<x[1], x[2]>>}]
            /\ UNCHANGED <<created, entries, opc, kept, listed, calm>>
        BY <3>6 DEF CleanupDeletes
      <4>2. \A a \in Agent : engines'[a] \subseteq engines[a]
        BY <4>1
      <4>3. plan'[o] = plan[o]
        BY <4>1
      <4> QED
        BY <4>1, <4>2, <4>3
    <3> HIDE DEF Same, RunsOK, PlatformOK, GoTo, platformVars
    <3> QED
      BY <1>4, <2>1, <3>1, <3>2, <3>3, <3>4, <3>5, <3>6 DEF Step
  <2> QED
    BY <2>2, KnowsKept DEF CalmInv
<1>5. ASSUME Step(o) PROVE Knows(o)'
  <2> USE DEF RunsOK, GoTo, platformVars
  <2>1. ASSUME NEW selected \in SUBSET Agent,
               CleanupLists(o, selected) \/ SyncListsEngines(o, selected)
        PROVE  Knows(o)'
    BY <2>1, StartKnows
  <2>2. CASE SyncListsEntries(o)
    <3>1. /\ calm[o] /\ opc[o] = "s_list" /\ opc'[o] = "s_inspect" /\ listed'[o] = entries
          /\ UNCHANGED <<created, engines, entries, kept, plan>>
      BY <2>2 DEF SyncListsEntries
    <3> QED
      BY <3>1 DEF CalmInv, Knows
  <2>3. ASSUME NEW blind, SyncInspects(o, blind) PROVE Knows(o)'
    <3>1. /\ calm[o] /\ blind = {} /\ opc[o] = "s_inspect"
          /\ plan'[o] = Redundant(o, {})
          /\ UNCHANGED <<created, engines, entries, kept>>
          /\ \/ opc'[o] = "s_prompt"
             \/ opc'[o] = "s_done" /\ Redundant(o, {}) = {}
      BY <2>3 DEF SyncInspects
    <3>2. Knows(o) /\ listed[o] = entries
      BY <3>1 DEF CalmInv, Knows
    <3>3. ASSUME NEW a \in Agent, entries[a] # <<>>
          PROVE  \E k \in DOMAIN entries[a] :
                   Spares(entries[a], a, Redundant(o, {}), kept[o][a], k)
      BY <3>2, <3>3, PlanSparesOne
    <3>4. ASSUME Redundant(o, {}) = {}, NEW a \in Agent PROVE Len(entries[a]) <= 1
      <4>0. entries[a] \in Seq(Entry)
        BY DEF PlatformOK
      <4>1. entries[a] # <<>> => \E k \in DOMAIN entries[a] :
                                    Spares(entries[a], a, {}, kept[o][a], k)
        BY <3>3, <3>4
      <4> QED
        BY <4>0, <4>1, NothingDoomed
    <3> QED
      BY <3>1, <3>2, <3>3, <3>4 DEF Knows
  <2>4. CASE Confirm(o)
    <3>1. /\ calm[o] /\ UNCHANGED <<created, engines, entries, kept, plan, listed>>
          /\ \/ opc[o] = "c_prompt" /\ opc'[o] = "c_delete"
             \/ opc[o] = "s_prompt" /\ opc'[o] = "s_delete"
      BY <2>4 DEF Confirm
    <3> QED
      BY <3>1 DEF CalmInv, Knows
  <2>5. CASE Finished(o)
    BY <2>5, FinishKnows DEF Finished, CalmInv
  <2>6. ASSUME Exit(o) PROVE FALSE
    BY <2>6 DEF Exit, Forget
  <2>7. ASSUME NEW x \in plan[o],
               CleanupDeletes(o, x[1], x[2]) \/ SyncDeletes(o, x[1], x[2])
        PROVE  Knows(o)'
    <3>1. calm[o]
      BY <2>7 DEF CleanupDeletes, SyncDeletes
    <3> QED
      BY <2>7, <3>1, DeleteKnows DEF CalmInv
  <2>8. ASSUME NEW x \in plan[o], SyncDeleteFails(o, x[1], x[2]) PROVE FALSE
    BY <2>8 DEF SyncDeleteFails
  <2> QED
    BY <1>5, <2>1, <2>2, <2>3, <2>4, <2>5, <2>6, <2>7, <2>8 DEF Step
<1>6. CASE UNCHANGED vars
  BY <1>1, <1>6 DEF vars, platformVars
<1> QED
  BY <1>2, <1>3, <1>4, <1>5, <1>6 DEF Next

\* The platform, the runs, and what the undisturbed ones know.
RolloutInv == PlatformOK /\ RunsOK /\ CleanupInv /\ CalmInv

\* The inductive invariant holds of every behaviour.
LEMMA RolloutInvariant == Spec => []RolloutInv
<1>1. Init => CalmInv
  BY DEF Init, CalmInv
<1>2. RolloutInv /\ CleanupInv' /\ [Next]_vars => RolloutInv'
  BY PlatformStep, RunsStep, CalmStep DEF RolloutInv
<1>3. Init => PlatformOK /\ RunsOK
  BY TypeInit
<1> QED
  BY <1>1, <1>2, <1>3, CleanupInvariant, PTL DEF Spec, RolloutInv

\* An undisturbed run that says "done" has done it: one engine of each agent it was
\* called for, one entry of every agent.
THEOREM DoneIsDone == Spec => []UndisturbedRunFinishes
<1>1. RolloutInv => UndisturbedRunFinishes
  <2> SUFFICES ASSUME RolloutInv, NEW o \in Operator, calm[o],
                      opc[o] = "c_done", NEW a \in Agent, kept[o][a] # 0
               PROVE  engines[a] = {kept[o][a]}
    BY DEF RolloutInv, CalmInv, Knows, UndisturbedRunFinishes
  <2>1. engines[a] \subseteq {kept[o][a]} /\ kept[o][a] = created[a]
    BY DEF RolloutInv, CalmInv, Knows
  <2>2. created[a] \in engines[a]
    BY <2>1 DEF RolloutInv, CleanupInv, NewestStays
  <2> QED
    BY <2>1, <2>2
<1> QED
  BY <1>1, RolloutInvariant, PTL

\* A prune nobody disturbs never takes the supervisor off the newest engine, nor deletes
\* the last entry that refers to the newest engine of an agent it was called for.
THEOREM PruneKeepsTheNewest == Spec => UndisturbedPruneKeepsTheNewest
<1> DEFINE Safe(o) == \A a \in Agent :
                        /\ RoutedToNewest(a) => RoutedToNewest(a)'
                        /\ kept[o][a] # 0 /\ Reachable(a) => Reachable(a)'
<1>1. ASSUME RolloutInv, [Next]_vars, NEW o \in Operator, calm[o], opc[o] = "s_delete",
             plan'[o] # plan[o]
      PROVE  Safe(o)
  <2>1. CASE UNCHANGED <<engines, entries>>
    BY <2>1 DEF RoutedToNewest, Route, Reachable
  <2>2. ASSUME NEW x \in plan[o], SyncDeletes(o, x[1], x[2]) PROVE Safe(o)
    <3>1. /\ entries' = [entries EXCEPT ![x[1]] = Without(@, x[2])]
          /\ UNCHANGED engines /\ x[1] \in Agent /\ x = <<x[1], x[2]>>
      BY <1>1, <2>2 DEF SyncDeletes, RolloutInv, RunsOK
    <3>2. ASSUME NEW a \in Agent, a # x[1]
          PROVE  /\ RoutedToNewest(a) => RoutedToNewest(a)'
                 /\ Reachable(a) => Reachable(a)'
      <4>1. entries'[a] = entries[a] /\ engines'[a] = engines[a]
        BY <1>1, <3>1, <3>2 DEF RolloutInv, PlatformOK
      <4> QED
        BY <4>1 DEF RoutedToNewest, Route, Reachable
    <3> DEFINE a == x[1]
               s == entries[a]
               keep == kept[o][a]
               newest == Newest(engines[a])
    <3>3. /\ s \in Seq(Entry) /\ OneEntryPerId(s) /\ entries'[a] = Without(s, x[2])
          /\ newest = created[a] /\ keep \in {0, newest} /\ DOMAIN s = 1 .. Len(s)
          /\ engines'[a] = engines[a]
      BY <1>1, <3>1, NewestIsCreated DEF RolloutInv, PlatformOK, CalmInv, Knows
    <3>4. ASSUME NEW i \in DOMAIN s PROVE Ids(s[i]) \subseteq Gen /\ 0 \notin Ids(s[i])
      <4>1. s[i] \in Entry
        BY <3>3
      <4> HIDE DEF s
      <4> QED
        BY <4>1, GenIsPositive DEF Entry, Ids
    <3>5. ASSUME s # <<>>
          PROVE  \E k \in DOMAIN s, l \in DOMAIN entries'[a] :
                   /\ Spares(s, a, plan[o], keep, k)
                   /\ entries'[a][l] = s[k]
                   /\ k = Len(s) => l = Len(entries'[a])
      <4>1. PICK k \in DOMAIN s : Spares(s, a, plan[o], keep, k)
        BY <1>1, <3>1, <3>5 DEF RolloutInv, CalmInv, Knows
      <4>2. <<a, x[2]>> \in plan[o]
        BY <3>1
      <4>3. PICK l \in DOMAIN Without(s, x[2]) :
              /\ Without(s, x[2])[l] = s[k]
              /\ k = Len(s) => l = Len(Without(s, x[2]))
              /\ Spares(Without(s, x[2]), a, plan[o] \ {<<a, x[2]>>}, keep, l)
        <5>1. s \in Seq(Entry) /\ OneEntryPerId(s)
          BY <3>3
        <5> HIDE DEF a, s, keep
        <5> QED
          BY <4>1, <4>2, <5>1, SparedStays, ZenonT(30)
      <4>4. /\ l \in DOMAIN entries'[a] /\ entries'[a][l] = s[k]
            /\ k = Len(s) => l = Len(entries'[a])
        BY <3>3, <4>3
      <4> QED
        BY <4>1, <4>4
    <3> HIDE DEF s, keep, newest
    <3>6. ASSUME RoutedToNewest(a) PROVE RoutedToNewest(a)'
      <4>1. s # <<>> /\ s[Len(s)].proto = newest
        BY <3>6 DEF RoutedToNewest, Route, Last, s, newest
      <4>2. PICK k \in DOMAIN s, l \in DOMAIN entries'[a] :
              /\ Spares(s, a, plan[o], keep, k)
              /\ entries'[a][l] = s[k]
              /\ k = Len(s) => l = Len(entries'[a])
        BY <3>5, <4>1
      <4>3. Len(s) \in DOMAIN s
        BY <3>3, <4>1
      <4>4. k = Len(s)
        <5>1. CASE keep = 0
          BY <3>4, <4>2, <5>1 DEF Spares
        <5>2. CASE keep = newest
          <6>1. keep \in Ids(s[Len(s)])
            BY <4>1, <5>2 DEF Ids
          <6>2. ~ (Len(s) > k)
            BY <4>2, <4>3, <6>1 DEF Spares
          <6> QED
            BY <3>3, <6>2
        <5> QED
          BY <3>3, <5>1, <5>2
      <4>5. entries'[a] # <<>> /\ Last(entries'[a]).proto = newest
        BY <4>1, <4>2, <4>4 DEF Last
      <4> QED
        BY <3>3, <4>5 DEF RoutedToNewest, Route, Last, newest
    <3>7. ASSUME keep # 0, Reachable(a) PROVE Reachable(a)'
      <4>1. PICK i \in DOMAIN s : keep \in Ids(s[i])
        BY <3>3, <3>7 DEF Reachable, s, newest
      <4>2. PICK k \in DOMAIN s, l \in DOMAIN entries'[a] :
              Spares(s, a, plan[o], keep, k) /\ entries'[a][l] = s[k]
        BY <3>3, <3>5, <4>1
      <4>3. keep \in Ids(entries'[a][l])
        BY <4>1, <4>2 DEF Spares
      <4> QED
        BY <3>3, <3>7, <4>3 DEF Reachable, newest
    <3> QED
      BY <3>2, <3>6, <3>7 DEF keep
  <2>3. \/ UNCHANGED <<engines, entries>>
        \/ \E x \in plan[o] : SyncDeletes(o, x[1], x[2])
    <3>1. ASSUME NEW p \in Operator, p # o, Step(p) PROVE plan'[o] = plan[o]
      BY <1>1, <3>1, StepIsOwn DEF RolloutInv
    <3>2. ASSUME Step(o)
          PROVE  \/ UNCHANGED <<engines, entries>>
                 \/ \E x \in plan[o] : SyncDeletes(o, x[1], x[2])
      BY <1>1, <3>2 DEF Step, CleanupLists, SyncListsEngines, Starts, SyncListsEntries,
        SyncInspects, Confirm, Finished, Exit, CleanupDeletes, SyncDeleteFails, platformVars
    <3>3. ASSUME NEW a \in Agent, Stage(a) \/ Create(a) \/ WorkerFails(a) PROVE FALSE
      BY <1>1, <3>3 DEF Stage, Create, WorkerFails, runVars
    <3>4. ASSUME NEW a \in Agent, NEW g \in Gen,
                 Register(a, g) \/ \E i \in DOMAIN entries[a] : RegisterOver(a, g, i)
          PROVE  FALSE
      BY <1>1, <3>4 DEF Register, RegisterOver, Registered
    <3>5. CASE UNCHANGED vars
      BY <1>1, <3>5 DEF vars, runVars
    <3> QED
      BY <1>1, <3>1, <3>2, <3>3, <3>4, <3>5 DEF Next
  <2> QED
    BY <2>1, <2>2, <2>3
<1>2. RolloutInv /\ [Next]_vars =>
        [\A o \in Operator : calm[o] /\ opc[o] = "s_delete" /\ plan'[o] # plan[o] => Safe(o)]_vars
  BY <1>1
<1> QED
  BY <1>2, RolloutInvariant, PTL DEF Spec, UndisturbedPruneKeepsTheNewest
=============================================================================
