------------------------ MODULE SubAgentRefreshProofs ------------------------
(***************************************************************************)
(* Theorems about SubAgentRefresh, for any number of turns, specialists,   *)
(* engine generations and event loops.                                     *)
(***************************************************************************)
EXTENDS SubAgentRefresh, SequenceTheorems, TLAPS

-----------------------------------------------------------------------------
(* The newest entry, and the queue of the lock.                            *)

\* Of the entries with one display name, the newest is the largest generation.
LEMMA NewestIsMaximum ==
  ASSUME NEW S \in SUBSET Nat, NEW m \in S, \A h \in S : h <= m
  PROVE  Newest(S) = m
<1>1. Newest(S) = CHOOSE g \in S : \A h \in S : h <= g
  BY DEF Newest
<1>2. PICK g \in S : g = Newest(S) /\ \A h \in S : h <= g
  BY <1>1
<1> QED
  BY <1>2

\* deque.remove takes a waiter out and keeps the others in their order: everybody
\* else stays in the queue, and the head changes only if it was the one to leave.
LEMMA WithoutKeepsOthers ==
  ASSUME NEW T, NEW q \in Seq(T), NEW t, \E i \in 1 .. Len(q) : q[i] = t
  PROVE  /\ Without(q, t) \in Seq(T)
         /\ \A j \in 1 .. Len(q) : q[j] # t =>
              \E k \in 1 .. Len(Without(q, t)) : Without(q, t)[k] = q[j]
         /\ Head(q) # t => Without(q, t) # <<>> /\ Head(Without(q, t)) = Head(q)
<1> DEFINE i == CHOOSE j \in DOMAIN q : q[j] = t
           a == SubSeq(q, 1, i - 1)
           b == SubSeq(q, i + 1, Len(q))
<1>1. i \in 1 .. Len(q) /\ q[i] = t
  OBVIOUS
<1>2. Without(q, t) = a \o b
  BY DEF Without
<1> HIDE DEF i
<1>3. a \in Seq(T) /\ Len(a) = i - 1 /\ \A k \in 1 .. i - 1 : a[k] = q[k]
  BY <1>1
<1>4. b \in Seq(T) /\ Len(b) = Len(q) - i /\ \A k \in 1 .. Len(q) - i : b[k] = q[k + i]
  BY <1>1
<1> HIDE DEF a, b
<1>5. /\ a \o b \in Seq(T)
      /\ Len(a \o b) = Len(q) - 1
      /\ \A k \in 1 .. Len(q) - 1 : (a \o b)[k] = IF k < i THEN q[k] ELSE q[k + 1]
  <2>1. /\ a \o b \in Seq(T)
        /\ Len(a \o b) = Len(a) + Len(b)
        /\ \A k \in 1 .. Len(a) + Len(b) :
             (a \o b)[k] = IF k <= Len(a) THEN a[k] ELSE b[k - Len(a)]
    BY <1>3, <1>4, ConcatProperties
  <2>2. Len(a) + Len(b) = Len(q) - 1
    BY <1>1, <1>3, <1>4
  <2>3. ASSUME NEW k \in 1 .. Len(q) - 1
        PROVE  (a \o b)[k] = IF k < i THEN q[k] ELSE q[k + 1]
    <3>1. CASE k < i
      <4>1. k \in 1 .. i - 1 /\ k <= Len(a)
        BY <1>1, <1>3, <3>1
      <4> QED
        BY <1>3, <2>1, <2>2, <3>1, <4>1
    <3>2. CASE ~ (k < i)
      <4>1. k - (i - 1) \in 1 .. Len(q) - i /\ ~ (k <= i - 1) /\ (k - (i - 1)) + i = k + 1
        BY <1>1, <3>2
      <4> QED
        BY <1>3, <1>4, <2>1, <2>2, <3>2, <4>1
    <3> QED
      BY <3>1, <3>2
  <2> QED
    BY <2>1, <2>2, <2>3
<1>6. ASSUME NEW j \in 1 .. Len(q), q[j] # t
      PROVE  \E k \in 1 .. Len(a \o b) : (a \o b)[k] = q[j]
  <2>1. CASE j < i
    <3>1. j \in 1 .. Len(q) - 1
      BY <1>1, <2>1
    <3> QED
      BY <1>5, <2>1, <3>1
  <2>2. CASE j > i
    <3>1. j - 1 \in 1 .. Len(q) - 1 /\ ~ (j - 1 < i) /\ (j - 1) + 1 = j
      BY <1>1, <2>2
    <3> QED
      BY <1>5, <3>1
  <2> QED
    BY <1>1, <1>6, <2>1, <2>2
<1>7. ASSUME Head(q) # t PROVE a \o b # <<>> /\ Head(a \o b) = Head(q)
  <2>1. Head(q) = q[1] /\ i > 1
    BY <1>1, <1>7
  <2> QED
    BY <1>1, <1>5, <2>1
<1> QED
  BY <1>2, <1>5, <1>6, <1>7

-----------------------------------------------------------------------------
(* The invariant.                                                          *)

\* Every display name has a newest entry: a prune never takes that one.
RegistryRanked ==
  \A d \in Display : \E m \in registry[d] : \A h \in registry[d] : h <= m

\* Only the head of the queue is ever woken, and only while nobody holds the lock;
\* a turn that waits is in the queue.
QueueInv ==
  /\ \A t \in woken : holder = None /\ waiters # <<>> /\ t = Head(waiters)
  /\ \A t \in Turn : tpc[t] = "waiting" => \E i \in 1 .. Len(waiters) : waiters[i] = t

LockInv == QueueInv /\ OneRefresherPerWindow

\* What is cached, discovered and promised is in order of age: nothing is newer than
\* the registry, and what is still to be built is no older than what is cached.
AgeInv ==
  /\ \A d \in Display : resolved[d] <= Newest(registry[d])
  /\ \A t \in Turn, d \in Display :
       /\ found[t][d] <= Newest(registry[d])
       /\ d \in toBuild[t] => resolved[d] <= found[t][d]
       /\ promised[t][d] <= resolved[d]

RefreshInv ==
  /\ TypeOK /\ RegistryRanked /\ LockInv
  /\ AgeInv /\ RootFollowsCache /\ BehindOnlyOffLoop

\* A specialist without a proxy counts as generation 0.
LEMMA NoProxyTyped == NoProxy \in Proxies
BY RefreshAssumption DEF NoProxy, Proxies, Gen

\* Re-pointing proxies at the cache gives proxies.
LEMMA RepointTyped ==
  ASSUME NEW p \in Proxies, NEW c \in Proxies
  PROVE  Repoint(p, c) \in Proxies
BY DEF Repoint, Proxies

\* The newest entry of a display name is one of its entries and older than none.
LEMMA NewestOfRegistry ==
  ASSUME TypeOK, RegistryRanked, NEW d \in Display
  PROVE  /\ Newest(registry[d]) \in registry[d]
         /\ Newest(registry[d]) \in 1 .. MaxGen
         /\ \A h \in registry[d] : h <= Newest(registry[d])
<1>1. registry[d] \in SUBSET (1 .. MaxGen) /\ registry[d] \in SUBSET Nat
  BY RefreshAssumption DEF TypeOK
<1>2. PICK m \in registry[d] : \A h \in registry[d] : h <= m
  BY DEF RegistryRanked
<1>3. Newest(registry[d]) = m
  BY <1>1, <1>2, NewestIsMaximum
<1> QED
  BY <1>1, <1>2, <1>3

\* Waking and dequeueing keep the types of the lock.
LEMMA LockTyped ==
  ASSUME TypeOK, NEW t \in Turn,
         \/ Release
         \/ /\ tpc[t] = "waiting"
            /\ waiters' = Without(waiters, t)
            /\ woken' \in {woken \ {t}, (woken \ {t}) \cup {Head(waiters')}}
            /\ woken' # woken \ {t} => waiters' # <<>>
            /\ holder' \in {holder, t, None}
            /\ UNCHANGED lockLoop,
         QueueInv
  PROVE  /\ holder' \in Turn \cup {None}
         /\ waiters' \in Seq(Turn)
         /\ woken' \in SUBSET Turn
         /\ lockLoop' \in Loop \cup {None}
<1>1. CASE Release
  BY <1>1, HeadTailProperties DEF Release, TypeOK
<1>2. CASE tpc[t] = "waiting" /\ waiters' = Without(waiters, t)
  <2>1. waiters' \in Seq(Turn)
    BY <1>2, WithoutKeepsOthers DEF QueueInv, TypeOK
  <2>2. waiters' # <<>> => Head(waiters') \in Turn
    BY <2>1, HeadTailProperties
  <2> QED
    BY <1>1, <2>1, <2>2 DEF TypeOK
<1> QED
  BY <1>1, <1>2

-----------------------------------------------------------------------------
(* Type correctness.                                                       *)

\* A worker starts with every variable of its type.
LEMMA TypeInit == Init => TypeOK
<1> SUFFICES ASSUME Init PROVE TypeOK
  OBVIOUS
<1>1. registry \in [Display -> SUBSET (1 .. MaxGen)] /\ root \in Proxies
  BY RefreshAssumption DEF Init, Proxies, Gen
<1>2. waiters \in Seq(Turn)
  BY DEF Init
<1>3. /\ resolved \in Proxies /\ found \in [Turn -> Proxies]
      /\ subAgents \in [Turn -> Proxies] /\ promised \in [Turn -> Proxies]
  BY NoProxyTyped DEF Init
<1>4. /\ fresh \in BOOLEAN /\ holder \in Turn \cup {None} /\ woken \in SUBSET Turn
      /\ lockLoop \in Loop \cup {None}
      /\ tpc \in [Turn -> {"idle", "check", "waiting", "list", "build", "ready"}]
      /\ toBuild \in [Turn -> SUBSET Display]
  BY DEF Init
<1>5. \A t \in Turn : toBuild[t] = {} /\ found[t] = NoProxy
                       /\ subAgents[t] = NoProxy /\ promised[t] = NoProxy
  BY DEF Init
<1> QED
  BY <1>1, <1>2, <1>3, <1>4, <1>5 DEF TypeOK

\* Every step keeps the types: a waiter is in the queue, and what is listed is
\* what the registry ranks first.
LEMMA TypeStep ==
  ASSUME TypeOK, RegistryRanked, QueueInv, [Next]_vars
  PROVE  TypeOK'
<1> USE NoProxyTyped DEF TypeOK, lockVars
<1>1. ASSUME NEW t \in Turn, Begin(t) PROVE TypeOK'
  BY <1>1 DEF Begin
<1>2. ASSUME NEW t \in Turn, Throttled(t) PROVE TypeOK'
  BY <1>2, RepointTyped DEF Throttled, Apply
<1>3. ASSUME NEW t \in Turn, TakeLock(t) PROVE TypeOK'
  BY <1>3 DEF TakeLock
<1>4. ASSUME NEW t \in Turn, WaitForLock(t) PROVE TypeOK'
  BY <1>4, RefreshAssumption, AppendProperties DEF WaitForLock
<1>5. ASSUME NEW t \in Turn, LockRaises(t) PROVE TypeOK'
  BY <1>5 DEF LockRaises
<1>6. ASSUME NEW t \in Turn, Resume(t) PROVE TypeOK'
  <2>1. /\ holder' \in Turn \cup {None} /\ waiters' \in Seq(Turn)
        /\ woken' \in SUBSET Turn /\ lockLoop' \in Loop \cup {None}
    BY <1>6, LockTyped DEF Resume
  <2>2. CASE fresh /\ Apply(t, resolved)
    BY <1>6, <2>1, <2>2, RepointTyped DEF Resume, Apply
  <2>3. CASE /\ tpc' = [tpc EXCEPT ![t] = "list"]
             /\ UNCHANGED <<found, toBuild, subAgents>>
    BY <1>6, <2>1, <2>3 DEF Resume
  <2> QED
    BY <1>6, <2>2, <2>3 DEF Resume
<1>7. ASSUME NEW t \in Turn, ListAgents(t) PROVE TypeOK'
  <2>1. [d \in Display |-> Newest(registry[d])] \in Proxies
    BY NewestOfRegistry, RefreshAssumption DEF Proxies, Gen
  <2> QED
    BY <1>7, <2>1 DEF ListAgents
<1>8. ASSUME NEW t \in Turn, ListFails(t) PROVE TypeOK'
  BY <1>8, LockTyped, RepointTyped DEF ListFails, Apply
<1>9. ASSUME NEW t \in Turn, NEW d \in Display, Build(t, d) PROVE TypeOK'
  BY <1>9 DEF Build, Proxies
<1>10. ASSUME NEW t \in Turn, NEW d \in Display, BuildFails(t, d) PROVE TypeOK'
  BY <1>10 DEF BuildFails
<1>11. ASSUME NEW t \in Turn, Refreshed(t) PROVE TypeOK'
  BY <1>11, LockTyped, RepointTyped DEF Refreshed, Apply
<1>12. ASSUME NEW t \in Turn, Cancelled(t) PROVE TypeOK'
  <2>1. /\ holder' \in Turn \cup {None} /\ waiters' \in Seq(Turn)
        /\ woken' \in SUBSET Turn /\ lockLoop' \in Loop \cup {None}
    BY <1>12, LockTyped DEF Cancelled
  <2> QED
    BY <1>12, <2>1 DEF Cancelled, Reset
<1>13. ASSUME NEW t \in Turn, End(t) PROVE TypeOK'
  BY <1>13 DEF End, Reset
<1>14. CASE TtlExpires
  BY <1>14 DEF TtlExpires
<1>15. ASSUME NEW d \in Display, Register(d) PROVE TypeOK'
  BY <1>15, NewestOfRegistry, RefreshAssumption DEF Register
<1>16. ASSUME NEW d \in Display, NEW g \in 1 .. MaxGen, Prune(d, g) PROVE TypeOK'
  BY <1>16 DEF Prune
<1>17. CASE UNCHANGED vars
  BY <1>17 DEF vars
<1> QED
  BY <1>1, <1>2, <1>3, <1>4, <1>5, <1>6, <1>7, <1>8, <1>9, <1>10, <1>11, <1>12, <1>13,
     <1>14, <1>15, <1>16, <1>17 DEF Next, Refreshing

-----------------------------------------------------------------------------
(* The lock.                                                               *)

\* Letting go of the lock wakes the head of the queue and nobody else.
LEMMA ReleaseKeepsQueue ==
  ASSUME TypeOK, LockInv, NEW t \in Turn, tpc[t] \in {"list", "build"}, Release,
         NEW to \in {"ready", "idle"}, tpc' = [tpc EXCEPT ![t] = to]
  PROVE  QueueInv' /\ \A s \in Turn : tpc'[s] \notin {"list", "build"}
BY DEF TypeOK, LockInv, QueueInv, OneRefresherPerWindow, Release

\* A waiter that goes hands its wake-up on to the next head, if it had one.
LEMMA DequeueKeepsQueue ==
  ASSUME TypeOK, LockInv, NEW t \in Turn, tpc[t] = "waiting",
         waiters' = Without(waiters, t),
         woken' \in {woken \ {t}, (woken \ {t}) \cup {Head(waiters')}},
         woken' # {} => waiters' # <<>> /\ (holder = None \/ t \in woken) /\ holder' = None,
         NEW to \in {"list", "ready", "idle"}, tpc' = [tpc EXCEPT ![t] = to]
  PROVE  QueueInv'
<1>1. PICK i \in 1 .. Len(waiters) : waiters[i] = t
  BY DEF LockInv, QueueInv
<1>2. /\ \A j \in 1 .. Len(waiters) : waiters[j] # t =>
           \E k \in 1 .. Len(waiters') : waiters'[k] = waiters[j]
      /\ Head(waiters) # t => waiters' # <<>> /\ Head(waiters') = Head(waiters)
  BY <1>1, WithoutKeepsOthers DEF TypeOK
<1>3. \A s \in Turn : tpc'[s] = "waiting" =>
        \E k \in 1 .. Len(waiters') : waiters'[k] = s
  BY <1>2 DEF TypeOK, LockInv, QueueInv
<1>4. ASSUME NEW s \in woken' PROVE s = Head(waiters')
  <2>1. CASE s \in woken
    BY <1>2, <1>4, <2>1 DEF LockInv, QueueInv
  <2> QED
    BY <1>4, <2>1
<1> QED
  BY <1>3, <1>4 DEF QueueInv

\* The steps that leave the lock alone and take no turn into or out of it.
LEMMA LockInvKept ==
  ASSUME LockInv, UNCHANGED lockVars, fresh' => fresh,
         \A t \in Turn : /\ tpc'[t] \in {"list", "build"} <=> tpc[t] \in {"list", "build"}
                         /\ tpc'[t] = "waiting" => tpc[t] = "waiting",
         holder # None => holder \in Turn
  PROVE  LockInv'
BY DEF LockInv, QueueInv, OneRefresherPerWindow, lockVars

\* The lock serialises the refreshes, whatever fails and whoever is cancelled.
LEMMA LockStep ==
  ASSUME TypeOK, LockInv, [Next]_vars
  PROVE  LockInv'
<1> USE DEF TypeOK
<1>1. ASSUME NEW t \in Turn, TakeLock(t) PROVE LockInv'
  BY <1>1, RefreshAssumption DEF TakeLock, LockFree, LockInv, QueueInv, OneRefresherPerWindow
<1>2. ASSUME NEW t \in Turn, WaitForLock(t) PROVE LockInv'
  <2>1. /\ waiters' = Append(waiters, t) /\ tpc' = [tpc EXCEPT ![t] = "waiting"]
        /\ tpc[t] = "check" /\ UNCHANGED <<holder, woken, fresh>>
    BY <1>2 DEF WaitForLock
  <2>2. /\ Len(waiters') = Len(waiters) + 1
        /\ \A i \in 1 .. Len(waiters) : waiters'[i] = waiters[i]
        /\ waiters'[Len(waiters) + 1] = t
    BY <2>1, AppendProperties
  <2>3. \A s \in Turn : tpc'[s] = "waiting" =>
          \E i \in 1 .. Len(waiters') : waiters'[i] = s
    BY <2>1, <2>2, LenProperties DEF LockInv, QueueInv
  <2>4. waiters # <<>> => waiters' # <<>> /\ Head(waiters') = Head(waiters)
    BY <2>1, HeadTailAppend, AppendProperties
  <2>5. QueueInv'
    BY <2>1, <2>3, <2>4 DEF LockInv, QueueInv
  <2> QED
    BY <2>1, <2>5 DEF LockInv, OneRefresherPerWindow
<1>3. ASSUME NEW t \in Turn, Resume(t) PROVE LockInv'
  <2>1. holder = None /\ woken = {t} /\ tpc[t] = "waiting" /\ waiters' = Without(waiters, t)
    BY <1>3 DEF Resume, LockInv, QueueInv
  <2>2. \A s \in Turn : tpc[s] \notin {"list", "build"}
    BY <2>1, RefreshAssumption DEF LockInv, OneRefresherPerWindow
  <2>3. CASE fresh /\ holder' = None /\ Apply(t, resolved)
    <3>0. /\ woken' = IF waiters' = <<>> THEN {} ELSE {Head(waiters')}
          /\ tpc' = [tpc EXCEPT ![t] = "ready"]
      BY <1>3, <2>1, <2>3 DEF Resume, Apply
    <3>1. QueueInv'
      BY <2>1, <2>3, <3>0, DequeueKeepsQueue
    <3> QED
      BY <2>2, <2>3, <3>1 DEF LockInv, OneRefresherPerWindow, Apply
  <2>4. CASE /\ ~ fresh /\ holder' = t /\ woken' = woken \ {t}
             /\ tpc' = [tpc EXCEPT ![t] = "list"]
    <3>1. QueueInv'
      BY <2>1, <2>4, DequeueKeepsQueue
    <3> QED
      BY <1>3, <2>2, <2>4, <3>1 DEF Resume, LockInv, OneRefresherPerWindow
  <2> QED
    BY <1>3, <2>3, <2>4 DEF Resume
<1>4. ASSUME NEW t \in Turn, ListFails(t) \/ Refreshed(t) PROVE LockInv'
  BY <1>4, ReleaseKeepsQueue
  DEF ListFails, Refreshed, Apply, Release, LockInv, OneRefresherPerWindow
<1>5. ASSUME NEW t \in Turn, Cancelled(t) PROVE LockInv'
  <2>1. tpc' = [tpc EXCEPT ![t] = "idle"] /\ UNCHANGED fresh
    BY <1>5 DEF Cancelled, Reset
  <2>2. CASE tpc[t] \in {"list", "build"} /\ Release
    BY <2>1, <2>2, ReleaseKeepsQueue DEF Release, LockInv, OneRefresherPerWindow
  <2>3. CASE /\ tpc[t] = "waiting"
             /\ waiters' = Without(waiters, t)
             /\ woken' = (woken \ {t}) \cup
                  (IF holder = None /\ waiters' # <<>> THEN {Head(waiters')} ELSE {})
             /\ UNCHANGED <<holder, lockLoop>>
    <3>1. woken' # {} => waiters' # <<>> /\ holder = None
      <4>1. PICK i \in 1 .. Len(waiters) : waiters[i] = t
        BY <2>3 DEF LockInv, QueueInv
      <4>2. Head(waiters) # t => waiters' # <<>>
        BY <2>3, <4>1, WithoutKeepsOthers
      <4> QED
        BY <2>3, <4>2 DEF LockInv, QueueInv
    <3>2. QueueInv'
      BY <2>1, <2>3, <3>1, DequeueKeepsQueue
    <3> QED
      BY <2>1, <2>3, <3>2 DEF LockInv, OneRefresherPerWindow
  <2> QED
    BY <1>5, <2>2, <2>3 DEF Cancelled
<1>6. ASSUME NEW t \in Turn, Begin(t) \/ Throttled(t) \/ LockRaises(t) \/ End(t)
      PROVE  LockInv'
  BY <1>6, LockInvKept DEF Begin, Throttled, LockRaises, End, Reset, Apply
<1>7. ASSUME NEW t \in Turn, ListAgents(t) PROVE LockInv'
  BY <1>7, LockInvKept DEF ListAgents
<1>8. ASSUME NEW t \in Turn, NEW d \in Display, Build(t, d) \/ BuildFails(t, d)
      PROVE  LockInv'
  BY <1>8, LockInvKept DEF Build, BuildFails
<1>9. CASE TtlExpires
  BY <1>9, LockInvKept DEF TtlExpires
<1>10. ASSUME NEW d \in Display, Register(d) \/ \E g \in 1 .. MaxGen : Prune(d, g)
       PROVE  LockInv'
  BY <1>10, LockInvKept DEF Register, Prune
<1>11. CASE UNCHANGED vars
  BY <1>11, LockInvKept DEF vars, lockVars
<1> QED
  BY <1>1, <1>2, <1>3, <1>4, <1>5, <1>6, <1>7, <1>8, <1>9, <1>10, <1>11
  DEF Next, Refreshing

-----------------------------------------------------------------------------
(* The age of what is cached.                                              *)

\* Only a deploy and a prune change the registry.
LEMMA RegistryUnchanged ==
  ASSUME [Next]_vars,
         ~ \E d \in Display : Register(d) \/ \E g \in 1 .. MaxGen : Prune(d, g)
  PROVE  UNCHANGED registry
BY DEF Next, Refreshing, Begin, Throttled, TakeLock, WaitForLock, LockRaises, Resume,
   ListAgents, ListFails, Build, BuildFails, Refreshed, Cancelled, End, TtlExpires, vars

\* Every display name keeps a newest entry, and it only gets newer.
LEMMA RegistryGetsNewer ==
  ASSUME TypeOK, RegistryRanked, [Next]_vars
  PROVE  RegistryRanked' /\ \A d \in Display : Newest(registry[d]) <= Newest(registry'[d])
<1>0. \A d \in Display : Newest(registry[d]) \in 1 .. MaxGen
  BY NewestOfRegistry
<1>1. ASSUME NEW d \in Display, Register(d)
      PROVE  RegistryRanked' /\ \A e \in Display : Newest(registry[e]) <= Newest(registry'[e])
  <2> DEFINE new == Newest(registry[d]) + 1
  <2>1. registry'[d] = registry[d] \cup {new} /\ registry'[d] \in SUBSET Nat
    BY <1>0, <1>1, RefreshAssumption DEF Register, TypeOK
  <2>2. new \in registry'[d] /\ \A h \in registry'[d] : h <= new
    BY <1>0, <2>1, NewestOfRegistry DEF TypeOK
  <2>3. Newest(registry'[d]) = new
    BY <2>1, <2>2, NewestIsMaximum
  <2>4. \A e \in Display \ {d} : registry'[e] = registry[e]
    BY <1>1 DEF Register, TypeOK
  <2>5. \A e \in Display : Newest(registry[e]) <= Newest(registry'[e])
    BY <1>0, <2>3, <2>4
  <2>6. RegistryRanked'
    BY <2>2, <2>4 DEF RegistryRanked
  <2> QED
    BY <2>5, <2>6
<1>2. ASSUME NEW d \in Display, NEW g \in 1 .. MaxGen, Prune(d, g)
      PROVE  RegistryRanked' /\ \A e \in Display : Newest(registry[e]) <= Newest(registry'[e])
  <2>1. registry'[d] = registry[d] \ {g} /\ registry'[d] \in SUBSET Nat
    BY <1>2, RefreshAssumption DEF Prune, TypeOK
  <2>2. /\ Newest(registry[d]) \in registry'[d]
        /\ \A h \in registry'[d] : h <= Newest(registry[d])
    BY <1>2, <2>1, NewestOfRegistry DEF Prune
  <2>3. Newest(registry'[d]) = Newest(registry[d])
    BY <2>1, <2>2, NewestIsMaximum
  <2>4. \A e \in Display \ {d} : registry'[e] = registry[e]
    BY <1>2 DEF Prune, TypeOK
  <2>5. \A e \in Display : Newest(registry[e]) <= Newest(registry'[e])
    BY <1>0, <2>3, <2>4
  <2>6. RegistryRanked'
    BY <2>2, <2>4 DEF RegistryRanked
  <2> QED
    BY <2>5, <2>6
<1>3. CASE UNCHANGED registry
  BY <1>0, <1>3 DEF RegistryRanked
<1> QED
  BY <1>1, <1>2, <1>3, RegistryUnchanged

\* Proxies are built by the lock's holder alone, from what it has discovered.
LEMMA OnlyBuildsChangeTheCache ==
  ASSUME [Next]_vars,
         ~ \E t \in Turn, d \in Display : Build(t, d)
  PROVE  UNCHANGED resolved
BY DEF Next, Refreshing, Begin, Throttled, TakeLock, WaitForLock, LockRaises, Resume,
   ListAgents, ListFails, BuildFails, Refreshed, Cancelled, End, TtlExpires,
   Register, Prune, vars

\* A build replaces a proxy by one that is no older, for the holder of the lock has
\* discovered what it builds since anybody else last built.
LEMMA CacheGetsNewer ==
  ASSUME TypeOK, AgeInv, [Next]_vars, NEW d \in Display
  PROVE  resolved[d] <= resolved'[d]
<1>1. resolved[d] \in Nat
  BY RefreshAssumption DEF TypeOK, Proxies, Gen
<1>2. ASSUME NEW t \in Turn, NEW e \in Display, Build(t, e)
      PROVE  resolved[d] <= resolved'[d]
  BY <1>1, <1>2 DEF Build, AgeInv, TypeOK, Proxies
<1> QED
  BY <1>1, <1>2, OnlyBuildsChangeTheCache

\* What a re-pointed turn has is no older than the cache, nor than what was promised.
LEMMA RepointIsNoOlder ==
  ASSUME NEW p \in Proxies, NEW c \in Proxies, NEW d \in Display
  PROVE  c[d] <= Repoint(p, c)[d]
BY RefreshAssumption DEF Repoint, Proxies, Gen

\* Numbers the comparisons below are about.
LEMMA Numbers ==
  ASSUME TypeOK, RegistryRanked
  PROVE  /\ \A d \in Display : /\ Newest(registry[d]) \in Nat
                               /\ resolved[d] \in Nat /\ root[d] \in Nat
         /\ \A t \in Turn, d \in Display :
              /\ found[t][d] \in Nat /\ promised[t][d] \in Nat /\ subAgents[t][d] \in Nat
         /\ \A d \in Display : NoProxy[d] = 0
<1>1. \A p \in Proxies, d \in Display : p[d] \in Nat
  BY RefreshAssumption DEF Proxies, Gen
<1>2. \A d \in Display : Newest(registry[d]) \in Nat
  BY NewestOfRegistry, RefreshAssumption
<1> QED
  BY <1>1, <1>2 DEF TypeOK, NoProxy

\* The same after a step.
LEMMA NumbersNext ==
  ASSUME TypeOK', RegistryRanked'
  PROVE  /\ \A d \in Display : /\ Newest(registry'[d]) \in Nat
                               /\ resolved'[d] \in Nat /\ root'[d] \in Nat
         /\ \A t \in Turn, d \in Display :
              /\ found'[t][d] \in Nat /\ promised'[t][d] \in Nat
              /\ subAgents'[t][d] \in Nat
<1>1. \A p \in Proxies, d \in Display : p[d] \in Nat
  BY RefreshAssumption DEF Proxies, Gen
<1>2. ASSUME NEW d \in Display PROVE Newest(registry'[d]) \in Nat
  <2>1. registry'[d] \in SUBSET Nat
    BY RefreshAssumption DEF TypeOK
  <2>2. PICK m \in registry'[d] : \A h \in registry'[d] : h <= m
    BY DEF RegistryRanked
  <2> QED
    BY <2>1, <2>2, NewestIsMaximum
<1> QED
  BY <1>1, <1>2 DEF TypeOK

\* The steps that build nothing: what a turn has still to build, has discovered or
\* was promised stays as it was, is taken from the registry, or is forgotten.
LEMMA AgeInvKept ==
  ASSUME TypeOK, TypeOK', RegistryRanked, RegistryRanked', AgeInv, UNCHANGED resolved,
         \A d \in Display : Newest(registry[d]) <= Newest(registry'[d]),
         \A t \in Turn :
           /\ \/ toBuild'[t] \subseteq toBuild[t] /\ found'[t] = found[t]
              \/ toBuild'[t] = {} /\ found'[t] = NoProxy
              \/ \A d \in Display : found'[t][d] = Newest(registry'[d])
           /\ promised'[t] \in {promised[t], resolved, NoProxy}
  PROVE  AgeInv'
<1>1. ASSUME NEW d \in Display PROVE resolved'[d] <= Newest(registry'[d])
  BY Numbers, NumbersNext DEF AgeInv
<1>2. ASSUME NEW t \in Turn, NEW d \in Display
      PROVE  /\ found'[t][d] <= Newest(registry'[d])
             /\ d \in toBuild'[t] => resolved'[d] <= found'[t][d]
  <2>1. CASE toBuild'[t] \subseteq toBuild[t] /\ found'[t] = found[t]
    BY <2>1, Numbers, NumbersNext DEF AgeInv
  <2>2. CASE toBuild'[t] = {} /\ found'[t] = NoProxy
    BY <2>2, Numbers, NumbersNext
  <2>3. CASE \A e \in Display : found'[t][e] = Newest(registry'[e])
    BY <1>1, <2>3, Numbers, NumbersNext
  <2> QED
    BY <2>1, <2>2, <2>3
<1>3. ASSUME NEW t \in Turn, NEW d \in Display PROVE promised'[t][d] <= resolved'[d]
  BY Numbers, NumbersNext DEF AgeInv
<1> QED
  BY <1>1, <1>2, <1>3 DEF AgeInv

\* Every step keeps the order of age: the one turn that builds holds the lock, so what
\* it discovered is still no older than the cache when it builds it.
LEMMA AgeStep ==
  ASSUME TypeOK, TypeOK', RegistryRanked, LockInv, AgeInv, [Next]_vars
  PROVE  AgeInv'
<1>0. RegistryRanked' /\ \A d \in Display : Newest(registry[d]) <= Newest(registry'[d])
  BY RegistryGetsNewer
<1> DEFINE Kept(t) ==
             /\ \/ toBuild'[t] \subseteq toBuild[t] /\ found'[t] = found[t]
                \/ toBuild'[t] = {} /\ found'[t] = NoProxy
                \/ \A d \in Display : found'[t][d] = Newest(registry'[d])
             /\ promised'[t] \in {promised[t], resolved, NoProxy}
<1>1. ASSUME NEW t \in Turn, NEW d \in Display, Build(t, d) PROVE AgeInv'
  <2>1. /\ d \in toBuild[t]
        /\ resolved' = [resolved EXCEPT ![d] = found[t][d]]
        /\ toBuild' = [toBuild EXCEPT ![t] = @ \ {d}]
        /\ UNCHANGED <<registry, found, promised>>
    BY <1>1 DEF Build
  <2>2. resolved'[d] = found[t][d] /\ \A e \in Display \ {d} : resolved'[e] = resolved[e]
    BY <2>1 DEF TypeOK, Proxies
  <2>3. \A s \in Turn \ {t} : toBuild[s] = {}
    BY <1>1 DEF Build, TypeOK, LockInv, OneRefresherPerWindow
  <2>4. \A s \in Turn : toBuild'[s] = IF s = t THEN toBuild[t] \ {d} ELSE {}
    BY <2>1, <2>3 DEF TypeOK
  <2>5. \A e \in Display : resolved'[e] <= Newest(registry'[e])
    BY <2>1, <2>2 DEF AgeInv
  <2>6. \A s \in Turn, e \in Display : e \in toBuild'[s] => resolved'[e] <= found'[s][e]
    BY <2>1, <2>2, <2>4 DEF AgeInv
  <2>7. \A s \in Turn, e \in Display : promised'[s][e] <= resolved'[e]
    <3>1. \A e \in Display : resolved[e] <= resolved'[e]
      BY CacheGetsNewer
    <3> QED
      BY <2>1, <3>1, Numbers, <1>0, NumbersNext DEF AgeInv
  <2> QED
    BY <2>1, <2>5, <2>6, <2>7 DEF AgeInv
<1>2. CASE ~ \E t \in Turn, d \in Display : Build(t, d)
  <2>1. UNCHANGED resolved
    BY <1>2, OnlyBuildsChangeTheCache
  <2>2. ASSUME NEW s \in Turn PROVE Kept(s)
    <3> USE DEF TypeOK
    <3>1. ASSUME NEW t \in Turn, Begin(t) PROVE Kept(s)
      BY <3>1 DEF Begin
    <3>2. ASSUME NEW t \in Turn, TakeLock(t) \/ WaitForLock(t) \/ LockRaises(t)
          PROVE  Kept(s)
      BY <3>2 DEF TakeLock, WaitForLock, LockRaises
    <3>3. ASSUME NEW t \in Turn, Throttled(t) \/ ListFails(t) \/ Refreshed(t)
          PROVE  Kept(s)
      BY <3>3 DEF Throttled, ListFails, Refreshed, Apply
    <3>4. ASSUME NEW t \in Turn, Resume(t) PROVE Kept(s)
      BY <3>4 DEF Resume, Apply
    <3>5. ASSUME NEW t \in Turn, ListAgents(t) PROVE Kept(s)
      BY <3>5 DEF ListAgents
    <3>6. ASSUME NEW t \in Turn, NEW d \in Display, BuildFails(t, d) PROVE Kept(s)
      BY <3>6 DEF BuildFails
    <3>7. ASSUME NEW t \in Turn, Cancelled(t) \/ End(t) PROVE Kept(s)
      BY <3>7 DEF Cancelled, End, Reset
    <3>8. ASSUME NEW d \in Display, Register(d) \/ \E g \in 1 .. MaxGen : Prune(d, g)
          PROVE  Kept(s)
      BY <3>8 DEF Register, Prune
    <3>9. CASE TtlExpires \/ UNCHANGED vars
      BY <3>9 DEF TtlExpires, vars
    <3> QED
      BY <1>2, <3>1, <3>2, <3>3, <3>4, <3>5, <3>6, <3>7, <3>8, <3>9 DEF Next, Refreshing
  <2> QED
    BY <1>0, <2>1, <2>2, AgeInvKept
<1> QED
  BY <1>1, <1>2

\* A window is opened by a refresh that has just mirrored the cache to the root, and
\* within one nobody builds.
LEMMA RootStep ==
  ASSUME TypeOK, TypeOK', LockInv, RootFollowsCache, [Next]_vars
  PROVE  RootFollowsCache'
<1>1. ASSUME NEW t \in Turn, NEW d \in Display, Build(t, d) PROVE RootFollowsCache'
  BY <1>1 DEF Build, LockInv, OneRefresherPerWindow, RootFollowsCache
<1>2. ASSUME NEW t \in Turn, Refreshed(t) PROVE RootFollowsCache'
  BY <1>2, RepointIsNoOlder DEF Refreshed, RootFollowsCache, TypeOK
<1>3. ASSUME ~ \E t \in Turn : Refreshed(t) \/ \E d \in Display : Build(t, d)
      PROVE  UNCHANGED <<resolved, root>> /\ (fresh' => fresh)
  BY <1>3 DEF Next, Refreshing, Begin, Throttled, TakeLock, WaitForLock, LockRaises, Resume,
     ListAgents, ListFails, BuildFails, Cancelled, End, TtlExpires, Register, Prune, vars
<1> QED
  BY <1>1, <1>2, <1>3 DEF RootFollowsCache

\* A turn is put behind only when the lock is bound to another loop than its own, and
\* a lock once bound stays bound; every other way to be served re-points the turn.
LEMMA BehindStep ==
  ASSUME TypeOK, TypeOK', RegistryRanked, RegistryRanked', AgeInv, BehindOnlyOffLoop,
         [Next]_vars
  PROVE  BehindOnlyOffLoop'
<1> DEFINE Kept(t) == /\ tpc'[t] = "ready" => tpc[t] = "ready"
                      /\ tpc[t] = "ready" /\ tpc'[t] = "ready" =>
                           UNCHANGED <<subAgents[t], promised[t]>>
           Served(t) == \A d \in Display : promised'[t][d] <= subAgents'[t][d]
           Bound == lockLoop' = lockLoop \/ lockLoop = None
<1>1. ASSUME NEW t \in Turn, Apply(t, resolved), UNCHANGED promised
      PROVE  Served(t)
  <2>1. \A d \in Display : subAgents'[t][d] = Repoint(subAgents[t], resolved)[d]
    BY <1>1 DEF Apply, TypeOK
  <2>2. \A d \in Display : resolved[d] <= subAgents'[t][d]
    BY <2>1, RepointIsNoOlder DEF TypeOK
  <2> QED
    BY <1>1, <2>2, Numbers, NumbersNext DEF AgeInv
<1>2. ASSUME Bound, NEW t \in Turn, Kept(t) \/ Served(t), tpc'[t] = "ready",
             lockLoop' \in {None, LoopOf[t]}
      PROVE  Served(t)
  BY <1>2 DEF BehindOnlyOffLoop
<1>3. ASSUME NEW t \in Turn, Apply(t, resolved), UNCHANGED promised
      PROVE  \A s \in Turn : Kept(s) \/ Served(s)
  BY <1>1, <1>3 DEF Apply, TypeOK
<1>4. ASSUME NEW t \in Turn, LockRaises(t) PROVE BehindOnlyOffLoop'
  BY <1>4 DEF LockRaises, BehindOnlyOffLoop, TypeOK, lockVars
<1>5. ASSUME ~ \E t \in Turn : LockRaises(t)
      PROVE  Bound /\ \A s \in Turn : Kept(s) \/ Served(s)
  <2> USE DEF TypeOK, lockVars
  <2>1. ASSUME NEW t \in Turn, Begin(t) \/ TakeLock(t) \/ WaitForLock(t)
        PROVE  Bound /\ \A s \in Turn : Kept(s)
    BY <2>1 DEF Begin, TakeLock, WaitForLock
  <2>2. ASSUME NEW t \in Turn, Throttled(t) \/ ListFails(t) \/ Refreshed(t)
        PROVE  Bound /\ \A s \in Turn : Kept(s) \/ Served(s)
    BY <2>2, <1>3 DEF Throttled, ListFails, Refreshed, Release
  <2>3. ASSUME NEW t \in Turn, Resume(t)
        PROVE  Bound /\ \A s \in Turn : Kept(s) \/ Served(s)
    BY <2>3, <1>3 DEF Resume
  <2>4. ASSUME NEW t \in Turn, NEW d \in Display, Build(t, d) \/ BuildFails(t, d)
        PROVE  Bound /\ \A s \in Turn : Kept(s)
    BY <2>4 DEF Build, BuildFails
  <2>5. ASSUME NEW t \in Turn, ListAgents(t) \/ Cancelled(t) \/ End(t)
        PROVE  Bound /\ \A s \in Turn : Kept(s)
    BY <2>5 DEF ListAgents, Cancelled, End, Reset, Release
  <2>6. ASSUME \/ TtlExpires \/ UNCHANGED vars
               \/ \E d \in Display : Register(d) \/ \E g \in 1 .. MaxGen : Prune(d, g)
        PROVE  Bound /\ \A s \in Turn : Kept(s)
    BY <2>6 DEF TtlExpires, Register, Prune, vars
  <2> HIDE DEF Kept, Served, Bound, TypeOK, lockVars
  <2> QED
    BY <1>5, <2>1, <2>2, <2>3, <2>4, <2>5, <2>6 DEF Next, Refreshing
<1> QED
  BY <1>2, <1>4, <1>5 DEF BehindOnlyOffLoop

-----------------------------------------------------------------------------
(* The invariant and what it gives.                                        *)

\* A worker that has just started satisfies the invariant.
LEMMA RefreshInvInit == Init => RefreshInv
<1> SUFFICES ASSUME Init PROVE RefreshInv
  OBVIOUS
<1>1. TypeOK
  BY TypeInit
<1>2. RegistryRanked
  BY DEF Init, RegistryRanked
<1>3. LockInv
  BY RefreshAssumption DEF Init, LockInv, QueueInv, OneRefresherPerWindow
<1>4. AgeInv
  BY <1>1, <1>2, Numbers DEF Init, AgeInv, NoProxy
<1>5. RootFollowsCache /\ BehindOnlyOffLoop
  BY DEF Init, RootFollowsCache, BehindOnlyOffLoop
<1> QED
  BY <1>1, <1>2, <1>3, <1>4, <1>5 DEF RefreshInv

\* Every step keeps the invariant.
LEMMA RefreshInvStep == RefreshInv /\ [Next]_vars => RefreshInv'
<1> SUFFICES ASSUME RefreshInv, [Next]_vars PROVE RefreshInv'
  OBVIOUS
<1>1. TypeOK'
  BY TypeStep DEF RefreshInv, LockInv
<1>2. LockInv'
  BY LockStep DEF RefreshInv
<1>3. RegistryRanked'
  BY RegistryGetsNewer DEF RefreshInv
<1>4. AgeInv'
  BY <1>1, AgeStep DEF RefreshInv
<1>5. RootFollowsCache'
  BY <1>1, RootStep DEF RefreshInv
<1>6. BehindOnlyOffLoop'
  BY <1>1, <1>3, BehindStep DEF RefreshInv
<1> QED
  BY <1>1, <1>2, <1>3, <1>4, <1>5, <1>6 DEF RefreshInv

\* The inductive invariant holds of every behaviour.
LEMMA RefreshInvariant == Spec => []RefreshInv
BY RefreshInvInit, RefreshInvStep, PTL DEF Spec

\* Every variable keeps its type, and a turn carries what it discovered only while it
\* builds it.
THEOREM TypeCorrect == Spec => []TypeOK
BY RefreshInvariant, PTL DEF RefreshInv

\* Whatever fails and whoever is cancelled, one turn at a time lists the registry and
\* builds, it holds the lock while it does, and no window is refreshed twice
\* (agent.py:226-245).
THEOREM OneRefresher == Spec => []OneRefresherPerWindow
<1>1. RefreshInv => OneRefresherPerWindow
  BY DEF RefreshInv, LockInv
<1> QED
  BY <1>1, RefreshInvariant, PTL

\* A turn whose loop is the lock's is never served by a proxy older than the cache was
\* when the turn began (agent.py:247-265).
THEOREM BehindOnlyOffTheLoop == Spec => []BehindOnlyOffLoop
BY RefreshInvariant, PTL DEF RefreshInv

\* Within a window the shared root is no older than the cache, so a request that copies
\* it starts fresh (agent.py:196-209).
THEOREM RootIsNoOlder == Spec => []RootFollowsCache
BY RefreshInvariant, PTL DEF RefreshInv

\* No step of any turn puts an older engine into the cache, whatever the registry
\* gains and loses between a turn's listing and its builds.
THEOREM CacheOnlyGetsNewer == Spec => CacheNeverGoesBack
<1>1. RefreshInv /\ [Next]_vars => \A d \in Display : resolved[d] <= resolved'[d]
  BY CacheGetsNewer DEF RefreshInv
<1>2. RefreshInv /\ [Next]_vars => [\A d \in Display : resolved[d] <= resolved'[d]]_vars
  BY <1>1
<1> QED
  BY <1>2, RefreshInvariant, PTL DEF Spec, CacheNeverGoesBack
=============================================================================
