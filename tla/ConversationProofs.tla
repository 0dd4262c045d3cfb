-------------------------- MODULE ConversationProofs --------------------------
(***************************************************************************)
(* Titles belong to their sessions, and every turn that ends well is shown *)
(* and logged as its session replays it: for any number of sessions, turns *)
(* and listings, and whatever the engine answers, at whatever length.      *)
(***************************************************************************)
EXTENDS Conversation, SequenceTheorems, FiniteSetTheorems, TLAPS

-----------------------------------------------------------------------------
(* The first message.                                                      *)

\* Every set of numbers has a least one.
LEMMA LeastNumber == \A S \in SUBSET Nat : S # {} => \E m \in S : \A k \in S : m <= k
<1> SUFFICES ASSUME NEW S \in SUBSET Nat, S # {}
             PROVE  \E m \in S : \A k \in S : m <= k
  OBVIOUS
<1>1. PICK m \in S : \A k \in S : <<k, m>> \notin OpToRel(<, Nat)
  BY NatLessThanWellFounded, WFMin
<1>2. ASSUME NEW k \in S PROVE m <= k
  <2>1. ~ (k < m)
    BY <1>1, <1>2 DEF OpToRel
  <2> QED
    BY <2>1
<1> QED
  BY <1>2

\* A set of positions has a least one.
LEMMA MinExists ==
  ASSUME NEW n \in Nat, NEW S \in SUBSET (1 .. n), S # {}
  PROVE  Min(S) \in S /\ \A h \in S : Min(S) <= h
<1>1. S \in SUBSET Nat
  OBVIOUS
<1>2. PICK m \in S : \A k \in S : m <= k
  BY <1>1, LeastNumber
<1> QED
  BY <1>2 DEF Min

\* Once a session has a first message, nothing that is stored later changes it.
LEMMA FirstTextStays ==
  ASSUME NEW T, NEW events \in Seq(T), NEW ev \in T, FirstUserText(events) # NoTitle
  PROVE  FirstUserText(Append(events, ev)) = FirstUserText(events)
<1> DEFINE Messages(e) == {i \in DOMAIN e : IsMessage(e[i])}
           old == Messages(events)
           new == Messages(Append(events, ev))
           n == Len(events)
<1>1. old # {} /\ FirstUserText(events) = events[Min(old)].words
  BY DEF FirstUserText, NoTitle
<1>2. /\ n \in Nat /\ DOMAIN events = 1 .. n /\ DOMAIN Append(events, ev) = 1 .. n + 1
      /\ \A i \in 1 .. n : Append(events, ev)[i] = events[i]
  OBVIOUS
<1>3. old \in SUBSET (1 .. n) /\ old \subseteq new /\ new \subseteq old \cup {n + 1}
  BY <1>2
<1> HIDE DEF old, new, n
<1>4. Min(old) \in old /\ \A h \in old : Min(old) <= h
  BY <1>1, <1>2, <1>3, MinExists
<1>5. Min(new) \in new /\ \A h \in new : Min(new) <= h
  <2>0. n + 1 \in Nat /\ n + 1 \in 1 .. n + 1 /\ 1 .. n \subseteq 1 .. n + 1
    BY <1>2
  <2>1. new \in SUBSET (1 .. n + 1) /\ new # {}
    BY <1>1, <1>3, <2>0
  <2> QED
    BY <2>0, <2>1, MinExists
<1>6. Min(new) = Min(old)
  <2>1. Min(old) \in 1 .. n /\ Min(old) \in new
    BY <1>3, <1>4
  <2>2. Min(new) \in old \/ Min(new) = n + 1
    BY <1>3, <1>5
  <2>3. Min(new) <= Min(old)
    BY <1>5, <2>1
  <2>4. Min(new) \in old /\ Min(new) \in 1 .. n
    <3>1. ~ (n + 1 <= Min(old))
      BY <1>2, <2>1
    <3> QED
      BY <1>3, <2>2, <2>3, <3>1
  <2>5. Min(old) <= Min(new)
    BY <1>4, <2>4
  <2> QED
    BY <1>2, <2>1, <2>3, <2>4, <2>5
<1>7. FirstUserText(Append(events, ev)) = Append(events, ev)[Min(new)].words
  BY <1>1, <1>3 DEF FirstUserText, new
<1>8. Append(events, ev)[Min(new)] = events[Min(old)]
  BY <1>2, <1>3, <1>4, <1>6
<1> QED
  BY <1>1, <1>7, <1>8

-----------------------------------------------------------------------------
(* What a step does to a session.                                          *)

\* A title that a session may have as long as it lives.
Fits(session, title) ==
  /\ session.state \in {"live", "deleted"}
  /\ session.state = "live" => title \in {NoTitle, session.opener, FirstUserText(session.events)}

\* A session is opened, stores one thing more, or is deleted.
GoesOn(old, new) ==
  \/ new = old
  \/ old.state = "none"
  \/ new.state = "deleted"
  \/ /\ new.state = old.state /\ new.opener = old.opener
     /\ \E T : old.events \in Seq(T) /\ \E ev \in T : new.events = Append(old.events, ev)

\* A title that fits its session still fits what the session becomes.
LEMMA FitsStays ==
  ASSUME NEW old, NEW new, NEW title, GoesOn(old, new), Fits(old, title)
  PROVE  Fits(new, title)
<1>1. ASSUME NEW T, old.events \in Seq(T), NEW ev \in T, new.events = Append(old.events, ev),
             title = FirstUserText(old.events), title # NoTitle
      PROVE  title = FirstUserText(new.events)
  BY <1>1, FirstTextStays
<1> QED
  BY <1>1 DEF GoesOn, Fits

\* The engine's side, and as much of a turn as matters to it.
StoreOK ==
  /\ DOMAIN sessions = Session
  /\ \A s \in Session :
       /\ DOMAIN sessions[s] = {"state", "opener", "events"}
       /\ sessions[s].state \in {"none", "live", "deleted"}
       /\ \E T : sessions[s].events \in Seq(T)

\* The turn in flight is a record of these fields.
TurnOK == DOMAIN turn = {"n", "pc", "session", "buffered", "script", "seen", "cut"}

\* Another element does not make a sequence less of one.
LEMMA SeqGrows ==
  ASSUME NEW T, NEW events \in Seq(T), NEW ev
  PROVE  \E U : events \in Seq(U) /\ ev \in U /\ Append(events, ev) \in Seq(U)
<1>1. events \in Seq(T \cup {ev})
  BY SeqDef
<1>2. Append(events, ev) \in Seq(T \cup {ev})
  BY <1>1
<1> QED
  BY <1>1, <1>2

\* A session that stores an event goes on.
LEMMA StoringGoesOn ==
  ASSUME StoreOK, NEW s, NEW ev, sessions' = [sessions EXCEPT ![s].events = Append(@, ev)]
  PROVE  /\ StoreOK'
         /\ \A x \in Session : /\ GoesOn(sessions[x], sessions'[x])
                               /\ sessions'[x].state = sessions[x].state
<1> SUFFICES ASSUME NEW x \in Session
             PROVE  /\ DOMAIN sessions' = Session
                    /\ DOMAIN sessions'[x] = {"state", "opener", "events"}
                    /\ sessions'[x].state = sessions[x].state
                    /\ \E T : sessions'[x].events \in Seq(T)
                    /\ GoesOn(sessions[x], sessions'[x])
  BY DEF StoreOK
<1>1. DOMAIN sessions' = Session
  BY DEF StoreOK
<1>2. CASE x # s
  <2>1. sessions'[x] = sessions[x]
    BY <1>2 DEF StoreOK
  <2> QED
    BY <1>1, <2>1 DEF StoreOK, GoesOn
<1>3. CASE x = s
  <2>1. sessions'[x] = [sessions[x] EXCEPT !.events = Append(sessions[x].events, ev)]
    BY <1>3 DEF StoreOK
  <2>2. /\ DOMAIN sessions'[x] = {"state", "opener", "events"}
        /\ sessions'[x].state = sessions[x].state
        /\ sessions'[x].opener = sessions[x].opener
        /\ sessions'[x].events = Append(sessions[x].events, ev)
    BY <2>1 DEF StoreOK
  <2>3. PICK T : sessions[x].events \in Seq(T)
    BY DEF StoreOK
  <2>4. PICK U : /\ sessions[x].events \in Seq(U) /\ ev \in U
                 /\ Append(sessions[x].events, ev) \in Seq(U)
    BY <2>3, SeqGrows
  <2> QED
    BY <1>1, <2>2, <2>4 DEF GoesOn
<1> QED
  BY <1>2, <1>3

\* No step but the answer to a deletion deletes; none but a creation makes a session.
StoreGoesOn ==
  \A s \in Session : /\ GoesOn(sessions[s], sessions'[s])
                     /\ sessions'[s].state = "deleted" =>
                          sessions[s].state = "deleted" \/ (DeleteServed /\ s = delete.session)

\* Every step moves every session on, if at all, and keeps the store typed.
LEMMA StoreStep ==
  ASSUME StoreOK, TurnOK, [Next]_vars
  PROVE  StoreOK' /\ TurnOK' /\ StoreGoesOn
<1> DEFINE Good == StoreOK' /\ TurnOK' /\ StoreGoesOn
<1>1. ASSUME UNCHANGED sessions PROVE StoreOK' /\ StoreGoesOn
  BY <1>1 DEF StoreOK, StoreGoesOn, GoesOn
<1>2. CASE UNCHANGED <<sessions, turn>>
  BY <1>1, <1>2 DEF TurnOK
<1>3. CASE StartTurn
  <2>1. TurnOK'
    BY <1>3 DEF StartTurn, NoTurn, TurnOK
  <2>2. UNCHANGED sessions
    BY <1>3 DEF StartTurn
  <2> QED
    BY <1>1, <2>1, <2>2
<1>4. CASE CreateServed
  <2>1. TurnOK'
    BY <1>4 DEF CreateServed, TurnOK
  <2>2. PICK s \in Session :
          /\ sessions[s].state = "none"
          /\ sessions' = [sessions EXCEPT ![s].state = "live", ![s].opener = <<<<turn.n>>>>]
    BY <1>4 DEF CreateServed
  <2>3. ASSUME NEW x \in Session, x # s PROVE sessions'[x] = sessions[x]
    BY <2>2, <2>3 DEF StoreOK
  <2>4. /\ DOMAIN sessions'[s] = {"state", "opener", "events"}
        /\ sessions'[s].state = "live" /\ sessions'[s].events = sessions[s].events
    BY <2>2 DEF StoreOK
  <2>5. DOMAIN sessions' = Session
    BY <2>2 DEF StoreOK
  <2>6. StoreOK'
    BY <2>3, <2>4, <2>5 DEF StoreOK
  <2>7. StoreGoesOn
    BY <2>2, <2>3, <2>4 DEF StoreGoesOn, GoesOn
  <2> QED
    BY <2>1, <2>6, <2>7
<1>5. CASE Asked \/ Produce
  <2>1. TurnOK'
    BY <1>5 DEF Asked, Produce, TurnOK
  <2>2. \/ UNCHANGED sessions
        \/ \E s, ev : sessions' = [sessions EXCEPT ![s].events = Append(@, ev)]
    BY <1>5 DEF Asked, Produce
  <2>3. ASSUME NEW s, NEW ev, sessions' = [sessions EXCEPT ![s].events = Append(@, ev)]
        PROVE  StoreOK' /\ StoreGoesOn
    BY <2>3, StoringGoesOn DEF StoreGoesOn
  <2> QED
    BY <1>1, <2>1, <2>2, <2>3
<1>6. CASE CreateAnswered \/ Receive \/ BodyEnds \/ BodyCutShort \/ CallFails
  <2>1. UNCHANGED sessions
    BY <1>6 DEF CreateAnswered, Receive, BodyEnds, BodyCutShort, CallFails
  <2>2. TurnOK'
    BY <1>6 DEF CreateAnswered, Receive, BodyEnds, BodyCutShort, CallFails, Ended, TurnOK
  <2> QED
    BY <1>1, <2>1, <2>2
<1>7. CASE Log \/ Leave \/ Restart
  <2>1. UNCHANGED sessions
    BY <1>7 DEF Log, Leave, Restart
  <2>2. TurnOK'
    BY <1>7 DEF Log, Leave, Restart, NoTurn, TurnOK
  <2> QED
    BY <1>1, <2>1, <2>2
<1>8. CASE DeleteServed
  <2> DEFINE s == delete.session
  <2>1. /\ TurnOK'
        /\ sessions' = [sessions EXCEPT ![s].state = "deleted", ![s].events = <<>>]
    BY <1>8 DEF DeleteServed, turnVars, TurnOK
  <2> HIDE DEF s
  <2>2. ASSUME NEW x \in Session, x # s PROVE sessions'[x] = sessions[x]
    BY <2>1, <2>2 DEF StoreOK
  <2>3. s \in Session => /\ DOMAIN sessions'[s] = {"state", "opener", "events"}
                         /\ sessions'[s].state = "deleted" /\ sessions'[s].events = <<>>
    BY <2>1 DEF StoreOK
  <2>4. DOMAIN sessions' = Session
    BY <2>1 DEF StoreOK
  <2>5. StoreOK'
    <3>1. <<>> \in Seq({})
      OBVIOUS
    <3>2. ASSUME NEW x \in Session
          PROVE  /\ DOMAIN sessions'[x] = {"state", "opener", "events"}
                 /\ sessions'[x].state \in {"none", "live", "deleted"}
                 /\ \E T : sessions'[x].events \in Seq(T)
      <4>1. CASE x = s
        BY <2>3, <3>1, <4>1
      <4>2. CASE x # s
        BY <2>2, <4>2 DEF StoreOK
      <4> QED
        BY <4>1, <4>2
    <3> QED
      BY <2>4, <3>2 DEF StoreOK
  <2>6. StoreGoesOn
    BY <1>8, <2>2, <2>3 DEF StoreGoesOn, GoesOn, s
  <2> QED
    BY <2>1, <2>5, <2>6
<1>9. ASSUME UNCHANGED vars \/ List \/ DeleteAsked \/ DeleteAnswered \/ DeleteFails
             \/ \E s \in DOMAIN fills : FillServed(s) \/ FillAnswered(s) \/ FillFails(s)
      PROVE  UNCHANGED <<sessions, turn>>
  BY <1>9 DEF vars, List, DeleteAsked, DeleteAnswered, DeleteFails, FillServed, FillAnswered,
    FillFails, turnVars
<1> HIDE DEF Good
<1> QED
  BY <1>2, <1>3, <1>4, <1>5, <1>6, <1>7, <1>8, <1>9 DEF Next, TurnStep, SidebarStep, Good

-----------------------------------------------------------------------------
(* Titles.                                                                 *)

\* A title is on its way: read and not yet stored, or about to be stored because the
\* session was just made.
Underway(s, title) ==
  \/ s \in DOMAIN fills /\ title = fills[s].title
  \/ turn.pc = "created" /\ s = turn.session /\ title = <<<<turn.n>>>>

\* The deletion that is to drop the title has been served.
Dropping(s) == delete = [pc |-> "served", session |-> s]

\* Every title underway fits its session.
UnderwayOK ==
  \A s, title : Underway(s, title) =>
    /\ s \in Session /\ Fits(sessions[s], title)
    /\ sessions[s].state = "deleted" => s \in mixed

\* So does every title that is cached, until its session is deleted.
CacheOK ==
  \A s \in DOMAIN cache :
    /\ s \in Session /\ cache[s] # NoTitle /\ Fits(sessions[s], cache[s])
    /\ sessions[s].state = "deleted" => s \in mixed \/ Dropping(s)

\* The call that deletes.
DeleteOK ==
  /\ delete \in [pc : {"idle", "asked", "served"}, session : Session \cup {NoSession}]
  /\ delete.pc # "idle" => delete.session \in Session
  /\ delete.pc = "served" => sessions[delete.session].state = "deleted"

TitleInv == StoreOK /\ TurnOK /\ DeleteOK /\ UnderwayOK /\ CacheOK

\* A title that is on its way was so before, or is read from a session that lives.
UnderwayMoves ==
  \A s, title : Underway(s, title)' =>
    \/ Underway(s, title)
    \/ /\ s \in Session /\ sessions'[s].state = "live"
       /\ title \in {NoTitle, sessions'[s].opener, FirstUserText(sessions'[s].events)}

\* A title that is cached was so before, or was on its way.
CacheMoves ==
  \A s \in DOMAIN cache' :
    \/ s \in DOMAIN cache /\ cache'[s] = cache[s]
    \/ cache'[s] # NoTitle /\ Underway(s, cache'[s])

\* A deletion is not forgotten before its title is, nor a meeting that it had.
MixedMoves ==
  /\ mixed \subseteq mixed'
  /\ \A s \in DOMAIN cache' : Dropping(s) => Dropping(s)' \/ s \in mixed'
  /\ \A s \in Session : DeleteServed /\ s = delete.session =>
       Dropping(s)' /\ \A title : Underway(s, title)' => s \in mixed'

\* The session that goes is the one whose deletion is served.
LEMMA DeleteStep ==
  ASSUME DeleteOK, StoreOK, StoreGoesOn, [Next]_vars
  PROVE  DeleteOK'
<1>1. CASE UNCHANGED delete
  BY <1>1 DEF DeleteOK, StoreGoesOn, GoesOn
<1>2. CASE delete' = NoDelete
  BY <1>2 DEF NoDelete, DeleteOK
<1>3. CASE DeleteAsked
  BY <1>3 DEF DeleteAsked, DeleteOK
<1>4. CASE DeleteServed
  <2>1. delete.session \in Session /\ delete' = [pc |-> "served", session |-> delete.session]
    BY <1>4 DEF DeleteServed, DeleteOK
  <2>2. sessions'[delete.session].state = "deleted"
    BY <1>4, <2>1 DEF DeleteServed, StoreOK
  <2> QED
    BY <2>1, <2>2 DEF DeleteOK
<1> QED
  BY <1>1, <1>2, <1>3, <1>4 DEF Next, TurnStep, SidebarStep, vars, sidebarVars, StartTurn,
    CreateServed, CreateAnswered, Asked, Produce, Receive, BodyEnds, BodyCutShort, CallFails,
    Log, Leave, List, FillServed, FillAnswered, FillFails, DeleteAnswered, DeleteFails, Restart

\* What is underway was so before, or is read off its session now.
LEMMA UnderwayStep ==
  ASSUME StoreOK, TurnOK, UnderwayOK, [Next]_vars
  PROVE  UnderwayMoves
<1>1. CASE UNCHANGED fills /\ (turn'.pc # "created" \/ UNCHANGED turn)
  BY <1>1 DEF UnderwayMoves, Underway
<1>2. CASE CreateServed
  <2>1. /\ UNCHANGED fills
        /\ turn' = [turn EXCEPT !.pc = "created", !.session = turn'.session]
        /\ turn'.session \in Session /\ sessions'[turn'.session].state = "live"
        /\ sessions'[turn'.session].opener = <<<<turn.n>>>>
    <3>1. PICK s \in Session :
            /\ sessions' = [sessions EXCEPT ![s].state = "live", ![s].opener = <<<<turn.n>>>>]
            /\ turn' = [turn EXCEPT !.pc = "created", !.session = s]
      BY <1>2 DEF CreateServed
    <3>2. turn'.session = s
      BY <3>1 DEF TurnOK
    <3> QED
      BY <1>2, <3>1, <3>2 DEF CreateServed, sidebarVars, StoreOK
  <2>2. turn'.n = turn.n
    BY <2>1 DEF TurnOK
  <2> QED
    BY <2>1, <2>2 DEF UnderwayMoves, Underway
<1>3. CASE List
  <2>1. UNCHANGED <<sessions, turn>>
    BY <1>3 DEF List, turnVars
  <2>2. ASSUME NEW s \in DOMAIN fills'
        PROVE  s \in Session /\ sessions[s].state = "live" /\ fills'[s].title = NoTitle
    BY <1>3 DEF List, Live
  <2> QED
    BY <2>1, <2>2 DEF UnderwayMoves, Underway
<1>4. ASSUME NEW x \in DOMAIN fills, FillServed(x) PROVE UnderwayMoves
  <2>0. x \in Session
    BY DEF UnderwayOK, Underway
  <2>1. /\ UNCHANGED <<sessions, turn>>
        /\ sessions[x].state = "live"
        /\ DOMAIN fills' = DOMAIN fills
        /\ \A s \in DOMAIN fills : s # x => fills'[s] = fills[s]
        /\ fills'[x].title = FirstUserText(sessions[x].events)
    BY <1>4 DEF FillServed, turnVars, Live
  <2> QED
    BY <2>0, <2>1 DEF UnderwayMoves, Underway
<1>5. ASSUME NEW x \in DOMAIN fills, FillAnswered(x) \/ FillFails(x) PROVE UnderwayMoves
  <2>1. UNCHANGED turn /\ fills' = Without(fills, x)
    BY <1>5 DEF FillAnswered, FillFails, turnVars
  <2>2. \A s \in DOMAIN fills' : s \in DOMAIN fills /\ fills'[s] = fills[s]
    BY <2>1 DEF Without, Restrict
  <2> QED
    BY <2>1, <2>2 DEF UnderwayMoves, Underway
<1>6. CASE Restart
  <2>1. turn'.pc = "idle" /\ DOMAIN fills' = {}
    BY <1>6 DEF Restart, NoTurn
  <2> QED
    BY <2>1 DEF UnderwayMoves, Underway
<1>7. CASE StartTurn \/ Log \/ Leave
  <2>1. UNCHANGED fills /\ turn'.pc # "created"
    BY <1>7 DEF StartTurn, Log, Leave, NoTurn, sidebarVars
  <2> QED
    BY <1>1, <2>1
<1>8. CASE \/ CreateAnswered \/ Asked \/ Receive \/ BodyEnds \/ BodyCutShort \/ CallFails
  <2>1. UNCHANGED fills /\ (turn'.pc # "created" \/ UNCHANGED turn)
    BY <1>8 DEF CreateAnswered, Asked, Receive, BodyEnds, BodyCutShort, CallFails, Ended,
      TurnOK, sidebarVars
  <2> QED
    BY <1>1, <2>1
<1>9. CASE Produce \/ DeleteAsked \/ DeleteServed \/ DeleteAnswered \/ DeleteFails
           \/ UNCHANGED vars
  <2>1. UNCHANGED <<fills, turn>>
    BY <1>9 DEF Produce, DeleteAsked, DeleteServed, DeleteAnswered, DeleteFails, vars,
      sidebarVars, turnVars
  <2> QED
    BY <1>1, <2>1
<1> QED
  BY <1>2, <1>3, <1>4, <1>5, <1>6, <1>7, <1>8, <1>9 DEF Next, TurnStep, SidebarStep

\* What is cached was cached, or was underway; nothing else of it moves.
LEMMA CacheStep ==
  ASSUME [Next]_vars
  PROVE  CacheMoves
<1>1. CASE UNCHANGED cache
  BY <1>1 DEF CacheMoves
<1>2. ASSUME NEW x, NEW title, Underway(x, title), cache' = Titled(x, title)
      PROVE  CacheMoves
  BY <1>2 DEF CacheMoves, Titled, With
<1>3. CASE CreateAnswered
  <2>1. Underway(turn.session, <<<<turn.n>>>>)
    BY <1>3 DEF CreateAnswered, Underway
  <2> QED
    BY <1>2, <1>3, <2>1 DEF CreateAnswered
<1>4. ASSUME NEW x \in DOMAIN fills, FillAnswered(x) PROVE CacheMoves
  BY <1>2, <1>4 DEF FillAnswered, Underway
<1>5. CASE DeleteAnswered
  BY <1>5 DEF DeleteAnswered, Without, Restrict, CacheMoves
<1>6. CASE Restart
  <2>1. DOMAIN cache' = {}
    BY <1>6 DEF Restart
  <2> QED
    BY <2>1 DEF CacheMoves
<1> QED
  BY <1>1, <1>3, <1>4, <1>5, <1>6 DEF Next, TurnStep, SidebarStep, vars, sidebarVars, StartTurn,
    CreateServed, Asked, Produce, Receive, BodyEnds, BodyCutShort, CallFails,
    Log, Leave, List, FillServed, FillFails, DeleteAsked, DeleteServed, DeleteFails

\* A session whose deletion met another call is remembered.
LEMMA MixedStep ==
  ASSUME DeleteOK, [Next]_vars
  PROVE  MixedMoves
<1>1. mixed \subseteq mixed'
  BY DEF Next, History, vars
<1>2. ASSUME NEW s \in DOMAIN cache', Dropping(s) PROVE Dropping(s)' \/ s \in mixed'
  <2>0. delete.pc = "served" /\ delete.session = s
    BY <1>2 DEF Dropping
  <2>1. CASE UNCHANGED delete
    BY <1>2, <2>1 DEF Dropping
  <2>2. CASE DeleteAnswered
    BY <1>2, <2>0, <2>2 DEF DeleteAnswered, Without, Restrict
  <2>3. CASE /\ DeleteFails
             /\ mixed' = IF delete.pc = "served" THEN mixed \cup {delete.session} ELSE mixed
    BY <2>0, <2>3
  <2>4. CASE Restart
    <3>1. DOMAIN cache' = {}
      BY <2>4 DEF Restart
    <3> QED
      BY <1>2, <3>1
  <2>5. CASE DeleteAsked \/ DeleteServed
    BY <2>0, <2>5 DEF DeleteAsked, DeleteServed
  <2> QED
    BY <2>1, <2>2, <2>3, <2>4, <2>5 DEF Next, TurnStep, SidebarStep, vars, sidebarVars,
      StartTurn, CreateServed, CreateAnswered, Asked, Produce, Receive, BodyEnds, BodyCutShort,
      CallFails, Log, Leave, List, FillServed, FillAnswered, FillFails
<1>3. ASSUME NEW s \in Session, DeleteServed, s = delete.session
      PROVE  Dropping(s)' /\ \A title : Underway(s, title)' => s \in mixed'
  <2>1. delete' = [pc |-> "served", session |-> s]
    BY <1>3 DEF DeleteServed, DeleteOK
  <2>2. History
    BY <1>3, <2>1 DEF Next, DeleteFails, NoDelete, DeleteServed, vars
  <2>3. ASSUME NEW title, Underway(s, title)' PROVE Meets(s)'
    BY <2>1, <2>3 DEF Underway, Meets
  <2> QED
    BY <2>1, <2>2, <2>3 DEF History, Dropping
<1> QED
  BY <1>1, <1>2, <1>3 DEF MixedMoves

\* The inductive step.
LEMMA TitleStep ==
  ASSUME TitleInv, [Next]_vars
  PROVE  TitleInv'
<1> USE DEF TitleInv
<1>1. StoreOK' /\ TurnOK' /\ StoreGoesOn
  BY StoreStep
<1>2. DeleteOK'
  BY <1>1, DeleteStep
<1>3. UnderwayMoves /\ CacheMoves /\ MixedMoves
  BY UnderwayStep, CacheStep, MixedStep
<1>4. ASSUME NEW s \in Session, NEW title, Fits(sessions[s], title)
      PROVE  Fits(sessions'[s], title)
  BY <1>1, <1>4, FitsStays DEF StoreGoesOn
<1>5. UnderwayOK'
  <2> SUFFICES ASSUME NEW s, NEW title, Underway(s, title)'
               PROVE  /\ s \in Session /\ Fits(sessions'[s], title)
                      /\ sessions'[s].state = "deleted" => s \in mixed'
    BY DEF UnderwayOK
  <2>1. CASE Underway(s, title)
    <3>1. /\ s \in Session /\ Fits(sessions[s], title)
          /\ sessions[s].state = "deleted" => s \in mixed
      BY <2>1 DEF UnderwayOK
    <3>2. ASSUME sessions'[s].state = "deleted" PROVE s \in mixed'
      <4>1. CASE sessions[s].state = "deleted"
        BY <1>3, <3>1, <4>1 DEF MixedMoves
      <4>2. CASE DeleteServed /\ s = delete.session
        BY <1>3, <3>1, <4>2 DEF MixedMoves
      <4> QED
        BY <1>1, <3>1, <3>2, <4>1, <4>2 DEF StoreGoesOn
    <3> QED
      BY <1>4, <3>1, <3>2
  <2>2. CASE /\ s \in Session /\ sessions'[s].state = "live"
             /\ title \in {NoTitle, sessions'[s].opener, FirstUserText(sessions'[s].events)}
    BY <2>2 DEF Fits
  <2> QED
    BY <1>3, <2>1, <2>2 DEF UnderwayMoves
<1>6. CacheOK'
  <2> SUFFICES ASSUME NEW s \in DOMAIN cache'
               PROVE  /\ s \in Session /\ cache'[s] # NoTitle /\ Fits(sessions'[s], cache'[s])
                      /\ sessions'[s].state = "deleted" => s \in mixed' \/ Dropping(s)'
    BY DEF CacheOK
  <2>1. /\ s \in Session /\ cache'[s] # NoTitle /\ Fits(sessions[s], cache'[s])
        /\ sessions[s].state = "deleted" => s \in mixed \/ Dropping(s)
    <3>1. CASE s \in DOMAIN cache /\ cache'[s] = cache[s]
      BY <3>1 DEF CacheOK
    <3>2. CASE cache'[s] # NoTitle /\ Underway(s, cache'[s])
      BY <3>2 DEF UnderwayOK
    <3> QED
      BY <1>3, <3>1, <3>2 DEF CacheMoves
  <2>2. ASSUME sessions'[s].state = "deleted" PROVE s \in mixed' \/ Dropping(s)'
    <3>1. CASE sessions[s].state = "deleted"
      BY <1>3, <2>1, <3>1 DEF MixedMoves
    <3>2. CASE DeleteServed /\ s = delete.session
      BY <1>3, <2>1, <3>2 DEF MixedMoves
    <3> QED
      BY <1>1, <2>1, <2>2, <3>1, <3>2 DEF StoreGoesOn
  <2> QED
    BY <1>4, <2>1, <2>2
<1> QED
  BY <1>1, <1>2, <1>5, <1>6

\* No title is cached or underway at the beginning.
LEMMA TitlesBegin ==
  ASSUME Init
  PROVE  TitleInv
<1>1. <<>> \in Seq({})
  OBVIOUS
<1>2. StoreOK
  BY <1>1 DEF Init, StoreOK
<1>3. TurnOK /\ DeleteOK
  BY DEF Init, TurnOK, DeleteOK, NoTurn, NoDelete
<1>4. DOMAIN cache = {} /\ DOMAIN fills = {} /\ turn.pc = "idle"
  BY DEF Init, NoTurn
<1> QED
  BY <1>2, <1>3, <1>4 DEF TitleInv, CacheOK, UnderwayOK, Underway

\* A title is the message that opened its session, or the first one stored, and it
\* outlives its session only if the deletion was not answered or met a fetch or a
\* creation in flight.
THEOREM TitlesAreOfTheirSession == Spec => []TitlesBelong
<1>1. Init => TitleInv
  BY TitlesBegin
<1>2. TitleInv /\ [Next]_vars => TitleInv'
  BY TitleStep
<1>3. TitleInv => TitlesBelong
  BY DEF TitleInv, CacheOK, StoreOK, Fits, Dropping, TitlesBelong
<1> QED
  BY <1>1, <1>2, <1>3, PTL DEF Spec

-----------------------------------------------------------------------------
(* A sequence of sequences, one after the other.                           *)

\* The function that flattening is an application of.
Flattens(f, ss, n) == f = [i \in 1 .. n |-> IF i = 1 THEN ss[i] ELSE f[i - 1] \o ss[i]]

\* FlattenSeq, with a name for what it chooses.
LEMMA FlattenIs ==
  ASSUME NEW ss, Len(ss) # 0
  PROVE  FlattenSeq(ss) = (CHOOSE f : Flattens(f, ss, Len(ss)))[Len(ss)]
BY DEF FlattenSeq, Flattens

\* There is such a function.
LEMMA FlattensExists ==
  ASSUME NEW ss
  PROVE  \A n \in Nat : \E f : Flattens(f, ss, n)
<1> DEFINE S == {n \in Nat : ~ \E f : Flattens(f, ss, n)}
<1> SUFFICES ASSUME S # {} PROVE FALSE
  OBVIOUS
<1>1. PICK m \in S : \A k \in S : m <= k
  BY LeastNumber
<1>2. m # 0
  <2>1. Flattens([i \in 1 .. 0 |-> <<>>], ss, 0)
    BY DEF Flattens
  <2> QED
    BY <2>1
<1>3. PICK k \in Nat : m = k + 1
  BY <1>2
<1>4. PICK old : Flattens(old, ss, k)
  <2>1. ~ (m <= k)
    BY <1>3
  <2> QED
    BY <1>1, <2>1
<1> DEFINE new == [i \in 1 .. k + 1 |->
                     IF i <= k THEN old[i]
                     ELSE IF i = 1 THEN ss[i] ELSE old[i - 1] \o ss[i]]
<1>5. ASSUME NEW i \in 1 .. k + 1
      PROVE  new[i] = IF i = 1 THEN ss[i] ELSE new[i - 1] \o ss[i]
  <2>1. i # 1 => i - 1 \in 1 .. k
    OBVIOUS
  <2>2. \A j \in 1 .. k : new[j] = old[j]
    OBVIOUS
  <2>3. i \in 1 .. k => old[i] = IF i = 1 THEN ss[i] ELSE old[i - 1] \o ss[i]
    BY <1>4 DEF Flattens
  <2>4. i \notin 1 .. k => new[i] = IF i = 1 THEN ss[i] ELSE old[i - 1] \o ss[i]
    OBVIOUS
  <2> HIDE DEF new
  <2> QED
    BY <2>1, <2>2, <2>3, <2>4
<1>6. Flattens(new, ss, k + 1)
  <2>1. new = [i \in 1 .. k + 1 |-> new[i]]
    OBVIOUS
  <2> HIDE DEF new
  <2> QED
    BY <1>5, <2>1 DEF Flattens
<1> QED
  BY <1>3, <1>6

\* No sequence.
LEMMA FlattenEmpty == FlattenSeq(<<>>) = <<>>
BY DEF FlattenSeq

\* What is flattened at each point.
LEMMA FlattensStep ==
  ASSUME NEW ss, NEW n \in Nat, NEW f, Flattens(f, ss, n)
  PROVE  \A i \in 1 .. n : f[i] = IF i = 1 THEN ss[i] ELSE f[i - 1] \o ss[i]
BY DEF Flattens

\* One sequence more.
LEMMA FlattenAppend ==
  ASSUME NEW T, NEW ss \in Seq(Seq(T)), NEW s \in Seq(T)
  PROVE  FlattenSeq(Append(ss, s)) = FlattenSeq(ss) \o s
<1> DEFINE n == Len(ss)
           more == Append(ss, s)
           one == CHOOSE f : Flattens(f, ss, n)
           two == CHOOSE f : Flattens(f, more, n + 1)
<1>1. /\ n \in Nat /\ n + 1 \in Nat /\ Len(more) = n + 1 /\ more[n + 1] = s
      /\ \A i \in 1 .. n : more[i] = ss[i]
  OBVIOUS
<1>2. FlattenSeq(more) = two[n + 1]
  <2>1. Len(more) # 0 /\ Len(more) = n + 1
    BY <1>1
  <2> HIDE DEF more, n
  <2> QED
    BY <2>1, FlattenIs
<1>3. n # 0 => FlattenSeq(ss) = one[n]
  BY FlattenIs
<1> HIDE DEF more, n
<1>4. Flattens(one, ss, n) /\ Flattens(two, more, n + 1)
  <2>1. \E f : Flattens(f, ss, n)
    BY <1>1, FlattensExists
  <2>2. \E f : Flattens(f, more, n + 1)
    BY <1>1, FlattensExists
  <2> QED
    BY <2>1, <2>2
<1> HIDE DEF one, two
<1>5. \A i \in 1 .. n : one[i] = IF i = 1 THEN ss[i] ELSE one[i - 1] \o ss[i]
  BY <1>1, <1>4, FlattensStep
<1>6. \A i \in 1 .. n + 1 : two[i] = IF i = 1 THEN more[i] ELSE two[i - 1] \o more[i]
  BY <1>1, <1>4, FlattensStep
<1>7. CASE n = 0
  <2>1. ss = <<>>
    BY <1>7 DEF n
  <2>2. two[1] = s
    BY <1>1, <1>6, <1>7
  <2>3. <<>> \o s = s
    OBVIOUS
  <2> QED
    BY <1>2, <1>7, <2>1, <2>2, <2>3, FlattenEmpty DEF more
<1>8. CASE n # 0
  <2>1. one[n] = two[n]
    <3> DEFINE S == {k \in 1 .. n : one[k] # two[k]}
    <3>0. n \in 1 .. n
      BY <1>1, <1>8
    <3> SUFFICES ASSUME S # {} PROVE FALSE
      BY <3>0
    <3>1. PICK m \in S : \A k \in S : m <= k
      <4>1. S \in SUBSET Nat
        OBVIOUS
      <4> HIDE DEF S
      <4> QED
        BY <4>1, LeastNumber
    <3>2. m \in 1 .. n /\ m \in 1 .. n + 1 /\ one[m] # two[m] /\ more[m] = ss[m]
      BY <1>1
    <3>3. m # 1 => one[m - 1] = two[m - 1]
      <4>1. m # 1 => m - 1 \in 1 .. n /\ ~ (m <= m - 1)
        BY <1>1, <3>2
      <4> QED
        BY <3>1, <4>1
    <3> QED
      BY <1>5, <1>6, <3>2, <3>3
  <2>2. two[n + 1] = two[n] \o s
    <3>1. n + 1 \in 1 .. n + 1 /\ n + 1 # 1 /\ (n + 1) - 1 = n
      BY <1>1, <1>8
    <3>2. two[n + 1] = two[(n + 1) - 1] \o more[n + 1]
      BY <1>6, <3>1
    <3> QED
      BY <1>1, <3>1, <3>2
  <2> QED
    BY <1>2, <1>3, <1>8, <2>1, <2>2 DEF more
<1> QED
  BY <1>7, <1>8

\* What comes of sequences over a set is one.
LEMMA FlattenTyped ==
  ASSUME NEW T
  PROVE  \A ss \in Seq(Seq(T)) : FlattenSeq(ss) \in Seq(T)
<1> DEFINE Bad == {ss \in Seq(Seq(T)) : FlattenSeq(ss) \notin Seq(T)}
           S == {Len(ss) : ss \in Bad}
<1> SUFFICES ASSUME S # {} PROVE FALSE
  OBVIOUS
<1>1. PICK m \in S : \A k \in S : m <= k
  <2>1. S \in SUBSET Nat
    OBVIOUS
  <2> HIDE DEF S
  <2> QED
    BY <2>1, LeastNumber
<1>2. PICK ss \in Bad : m = Len(ss)
  OBVIOUS
<1>3. ss \in Seq(Seq(T)) /\ FlattenSeq(ss) \notin Seq(T)
  BY <1>2
<1>4. ss # <<>>
  <2>1. <<>> \in Seq(T)
    OBVIOUS
  <2> QED
    BY <1>3, <2>1, FlattenEmpty
<1> DEFINE front == SubSeq(ss, 1, Len(ss) - 1)
           last == ss[Len(ss)]
<1>5. /\ front \in Seq(Seq(T)) /\ last \in Seq(T) /\ ss = Append(front, last)
      /\ Len(front) = m - 1
  BY <1>2, <1>3, <1>4
<1>6. FlattenSeq(front) \in Seq(T)
  <2>1. m \in Nat /\ ~ (m <= m - 1)
    BY <1>2, <1>3
  <2>2. m - 1 \notin S
    BY <1>1, <2>1
  <2> QED
    BY <1>5, <2>2
<1> HIDE DEF front, last, Bad, S
<1>7. FlattenSeq(ss) = FlattenSeq(front) \o last
  BY <1>5, FlattenAppend
<1> QED
  BY <1>3, <1>5, <1>6, <1>7

-----------------------------------------------------------------------------
(* The events of an answer, and what one of them is told as.               *)

\* A piece of text, and what the engine sends and stores: a message of the user is the
\* whole of its event.
Piece == Seq(Nat)
IsEvent(ev) ==
  /\ ev.turn \in Nat /\ ev.partial \in BOOLEAN /\ ev.error \in BOOLEAN
  /\ ev.thoughts \in Seq(Piece) /\ ev.words \in Seq(Piece)
  /\ ev.to \in Agents /\ ev.usage \in {0, 1}
  /\ IsMessage(ev) => ev.thoughts = <<>> /\ ev.words = <<<<ev.turn>>>> /\ ev.to = NoAgent
     /\ ev.usage = 0
Event ==
  {ev \in [turn : Nat, role : {"model", "user"}, partial : BOOLEAN, thoughts : Seq(Piece),
           words : Seq(Piece), rest : [thoughts : Nat, words : Nat], toolResult : BOOLEAN,
           to : Agents, usage : {0, 1}, error : BOOLEAN] : IsEvent(ev)}

\* What the engine stores of what it sends.
Stored(kept, ev) ==
  IF ev.partial \/ ev.error THEN kept
  ELSE [pending |-> Turn("model", kept.pending.thoughts \o ev.thoughts,
                         kept.pending.words \o ev.words, kept.pending.chips \o Chip(ev)),
        calls |-> kept.calls + ev.usage]
\* Before the engine has stored anything of a turn.
Nothing == [pending |-> Silent, calls |-> 0]

\* What the browser has been told of an answer.
Fields == {"thoughts", "words", "chips", "usage", "in", "out", "sawText", "sawThought", "end"}
Shows(seen, thoughts, words, chips, usage, sawThought, sawText) ==
  /\ DOMAIN seen = Fields
  /\ seen.thoughts = thoughts /\ seen.words = words /\ seen.chips = chips
  /\ seen.usage = usage /\ seen.sawThought = sawThought /\ seen.sawText = sawText
  /\ seen.end = "none"

\* A partial event is shown as it is, and remembered as shown.
LEMMA RelayPartial ==
  ASSUME NEW seen, NEW ev, DOMAIN seen = Fields, seen.end = "none", ev.partial = TRUE,
         ev.error = FALSE,
         NEW st, NEW sx, seen.sawThought = st, seen.sawText = sx
  PROVE  Shows(Relay(seen, ev),
               IF ev.thoughts = <<>> THEN seen.thoughts ELSE seen.thoughts \o ev.thoughts,
               IF ev.words = <<>> THEN seen.words ELSE seen.words \o ev.words,
               seen.chips, seen.usage,
               IF ev.thoughts = <<>> THEN st ELSE TRUE,
               IF ev.words = <<>> THEN sx ELSE TRUE)
BY DEF Relay, Show, Shows, Fields

\* Showing more thoughts, or more words, leaves the rest of what was told alone.
WithThoughts(seen, more) == [seen EXCEPT !.thoughts = @ \o more, !.sawThought = FALSE]
WithWords(seen, more) == [seen EXCEPT !.words = @ \o more, !.sawText = FALSE]
OnlyThoughts(told, seen, more) ==
  /\ DOMAIN told = Fields
  /\ told.thoughts = seen.thoughts \o more /\ told.sawThought = FALSE
  /\ told.words = seen.words /\ told.sawText = seen.sawText
  /\ told.chips = seen.chips /\ told.usage = seen.usage /\ told.end = seen.end
OnlyWords(told, seen, more) ==
  /\ DOMAIN told = Fields
  /\ told.words = seen.words \o more /\ told.sawText = FALSE
  /\ told.thoughts = seen.thoughts /\ told.sawThought = seen.sawThought
  /\ told.chips = seen.chips /\ told.usage = seen.usage /\ told.end = seen.end

LEMMA MoreThoughts ==
  ASSUME NEW seen, NEW more, DOMAIN seen = Fields
  PROVE  OnlyThoughts(WithThoughts(seen, more), seen, more)
BY DEF Fields, WithThoughts, OnlyThoughts

LEMMA MoreWords ==
  ASSUME NEW seen, NEW more, DOMAIN seen = Fields
  PROVE  OnlyWords(WithWords(seen, more), seen, more)
BY DEF Fields, WithWords, OnlyWords

\* A consolidated event is shown but for what partial ones have shown of it.
LEMMA RelayConsolidated ==
  ASSUME NEW seen, NEW ev, DOMAIN seen = Fields, seen.end = "none", ev.partial = FALSE,
         ev.error = FALSE,
         seen.sawThought \in BOOLEAN, seen.sawText \in BOOLEAN,
         seen.thoughts \in Seq(Piece), seen.words \in Seq(Piece),
         ev.thoughts \in Seq(Piece), ev.words \in Seq(Piece),
         seen.sawThought => ev.rest.thoughts = 0, seen.sawText => ev.rest.words = 0
  PROVE  Shows(Relay(seen, ev),
               IF ev.thoughts = <<>> \/ seen.sawThought THEN seen.thoughts
                 ELSE seen.thoughts \o ev.thoughts,
               IF ev.words = <<>> \/ seen.sawText THEN seen.words ELSE seen.words \o ev.words,
               seen.chips \o Chip(ev), seen.usage + ev.usage,
               IF ev.thoughts = <<>> THEN seen.sawThought ELSE FALSE,
               IF ev.words = <<>> THEN seen.sawText ELSE FALSE)
<1>1. /\ SubSeq(ev.thoughts, Len(ev.thoughts) + 1, Len(ev.thoughts)) = <<>>
      /\ SubSeq(ev.words, Len(ev.words) + 1, Len(ev.words)) = <<>>
      /\ seen.thoughts \o <<>> = seen.thoughts /\ seen.words \o <<>> = seen.words
      /\ Len(ev.thoughts) \in Nat /\ Len(ev.words) \in Nat
  OBVIOUS
<1> DEFINE thought == Show(seen, "thoughts", "sawThought", ev.thoughts, ev.rest.thoughts, FALSE)
           told == Show(thought, "words", "sawText", ev.words, ev.rest.words, FALSE)
           whole == [told EXCEPT !.chips = @ \o Chip(ev), !.usage = @ + ev.usage]
<1>2. /\ DOMAIN thought = Fields
      /\ thought.thoughts = IF ev.thoughts = <<>> \/ seen.sawThought THEN seen.thoughts
                            ELSE seen.thoughts \o ev.thoughts
      /\ thought.sawThought = IF ev.thoughts = <<>> THEN seen.sawThought ELSE FALSE
      /\ thought.words = seen.words /\ thought.chips = seen.chips /\ thought.usage = seen.usage
      /\ thought.sawText = seen.sawText /\ thought.end = "none"
  <2>1. CASE ev.thoughts = <<>>
    BY <2>1 DEF Show
  <2>2. CASE ev.thoughts # <<>> /\ seen.sawThought
    <3>1. Len(ev.thoughts) - ev.rest.thoughts + 1 = Len(ev.thoughts) + 1
      BY <1>1, <2>2
    <3>2. thought = WithThoughts(seen, <<>>)
      BY <1>1, <2>2, <3>1 DEF Show, WithThoughts
    <3> HIDE DEF thought
    <3>3. OnlyThoughts(thought, seen, <<>>)
      BY <3>2, MoreThoughts
    <3> QED
      BY <1>1, <2>2, <3>3 DEF OnlyThoughts
  <2>3. CASE ev.thoughts # <<>> /\ ~ seen.sawThought
    <3>1. thought = WithThoughts(seen, ev.thoughts)
      BY <2>3 DEF Show, WithThoughts
    <3> HIDE DEF thought
    <3>2. OnlyThoughts(thought, seen, ev.thoughts)
      BY <3>1, MoreThoughts
    <3> QED
      BY <2>3, <3>2 DEF OnlyThoughts
  <2> QED
    BY <2>1, <2>2, <2>3
<1> HIDE DEF thought
<1>3. /\ DOMAIN told = Fields
      /\ told.words = IF ev.words = <<>> \/ seen.sawText THEN seen.words
                      ELSE seen.words \o ev.words
      /\ told.sawText = IF ev.words = <<>> THEN seen.sawText ELSE FALSE
      /\ told.thoughts = thought.thoughts /\ told.chips = seen.chips /\ told.usage = seen.usage
      /\ told.sawThought = thought.sawThought /\ told.end = "none"
  <2>1. CASE ev.words = <<>>
    BY <1>2, <2>1 DEF Show
  <2>2. CASE ev.words # <<>> /\ seen.sawText
    <3>1. Len(ev.words) - ev.rest.words + 1 = Len(ev.words) + 1
      BY <1>1, <2>2
    <3>2. told = WithWords(thought, <<>>)
      BY <1>1, <1>2, <2>2, <3>1 DEF Show, WithWords
    <3> HIDE DEF told
    <3>3. OnlyWords(told, thought, <<>>)
      BY <1>2, <3>2, MoreWords
    <3> QED
      BY <1>1, <1>2, <2>2, <3>3 DEF OnlyWords
  <2>3. CASE ev.words # <<>> /\ ~ seen.sawText
    <3>1. told = WithWords(thought, ev.words)
      BY <1>2, <2>3 DEF Show, WithWords
    <3> HIDE DEF told
    <3>2. OnlyWords(told, thought, ev.words)
      BY <1>2, <3>1, MoreWords
    <3> QED
      BY <1>2, <2>3, <3>2 DEF OnlyWords
  <2> QED
    BY <2>1, <2>2, <2>3
<1> HIDE DEF told
<1>4. Relay(seen, ev) = whole
  BY DEF Relay, thought, told
<1>5. /\ DOMAIN whole = Fields
      /\ whole.thoughts = told.thoughts /\ whole.sawThought = told.sawThought
      /\ whole.words = told.words /\ whole.sawText = told.sawText
      /\ whole.chips = told.chips \o Chip(ev) /\ whole.usage = told.usage + ev.usage
      /\ whole.end = told.end
  BY <1>3 DEF Fields
<1> HIDE DEF whole
<1> QED
  BY <1>2, <1>3, <1>4, <1>5 DEF Shows

\* Once an answer has ended nothing more is shown, and an error ends it.
LEMMA RelayOver ==
  ASSUME NEW seen, NEW ev
  PROVE  /\ seen.end # "none" => Relay(seen, ev) = seen
         /\ seen.end = "none" /\ ev.error = TRUE => Relay(seen, ev)
            = [seen EXCEPT !.end = "error"]
<1> DEFINE thought == Show(seen, "thoughts", "sawThought", ev.thoughts, ev.rest.thoughts, ev.partial)
           told == Show(thought, "words", "sawText", ev.words, ev.rest.words, ev.partial)
           whole == [told EXCEPT !.chips = @ \o Chip(ev), !.usage = @ + ev.usage]
<1>1. Relay(seen, ev) =
        IF seen.end # "none" THEN seen
        ELSE IF ev.error THEN [seen EXCEPT !.end = "error"]
        ELSE IF ev.partial THEN told
        ELSE whole
  BY DEF Relay
<1> HIDE DEF thought, told, whole
<1> QED
  BY <1>1

\* An error leaves nothing but itself.
LEMMA RelayError ==
  ASSUME NEW seen, NEW ev, DOMAIN seen = Fields, seen.end = "none", ev.error = TRUE
  PROVE  DOMAIN Relay(seen, ev) = Fields /\ Relay(seen, ev).end = "error"
<1>1. Relay(seen, ev) = [seen EXCEPT !.end = "error"]
  BY RelayOver
<1> QED
  BY <1>1 DEF Fields

\* The events that stream a step, one piece each, and the last partial one.
Thought(msg, i, k) == [Blank(msg) EXCEPT !.partial = TRUE, !.thoughts = <<<<msg, i, k>>>>]
Word(msg, i, k) == [Blank(msg) EXCEPT !.partial = TRUE, !.words = <<<<msg, i, k>>>>]
LastPartial(msg, step) == [Blank(msg) EXCEPT !.partial = TRUE, !.to = step.to, !.usage = 1]

\* The pieces of a text, and one more of them.
LEMMA PiecesTyped ==
  ASSUME NEW msg \in Nat, NEW i \in Nat, NEW n \in Nat
  PROVE  Pieces(msg, i, n) \in Seq(Piece) /\ Len(Pieces(msg, i, n)) = n
BY DEF Pieces, Piece

LEMMA PiecesAppend ==
  ASSUME NEW msg, NEW i, NEW n \in Nat
  PROVE  Pieces(msg, i, n + 1) = Pieces(msg, i, n) \o <<<<msg, i, n + 1>>>>
BY DEF Pieces

\* Whatever is sent is an event.
LEMMA EventFields ==
  ASSUME NEW msg \in Nat, NEW i \in Nat, NEW k \in Nat, NEW step \in AgentStep
  PROVE  /\ Thought(msg, i, k) \in Event /\ Word(msg, i, k) \in Event
         /\ LastPartial(msg, step) \in Event /\ ToolEvent(msg) \in Event
         /\ ErrorEvent(msg) \in Event /\ UserEvent(msg) \in Event
<1>0. NoAgent \in Agents /\ step.to \in Agents /\ 0 \in Nat
  BY DEF Agents, AgentStep
<1>1. <<msg, i, k>> \in Piece /\ <<msg>> \in Piece
  BY DEF Piece
<1>2. <<<<msg, i, k>>>> \in Seq(Piece) /\ <<<<msg>>>> \in Seq(Piece) /\ <<>> \in Seq(Piece)
  BY <1>1
<1> DEFINE piece == <<<<msg, i, k>>>>
<1> HIDE DEF piece
<1>3. Thought(msg, i, k) \in Event
  BY <1>0, <1>2 DEF Thought, Event, IsEvent, Blank, IsMessage, piece
<1>4. Word(msg, i, k) \in Event
  BY <1>0, <1>2 DEF Word, Event, IsEvent, Blank, IsMessage, piece
<1>5. LastPartial(msg, step) \in Event
  BY <1>0, <1>2 DEF LastPartial, Event, IsEvent, Blank, IsMessage
<1>6. ToolEvent(msg) \in Event
  BY <1>0, <1>2 DEF ToolEvent, Event, IsEvent, Blank, IsMessage
<1>7. ErrorEvent(msg) \in Event
  BY <1>0, <1>2 DEF ErrorEvent, Event, IsEvent, Blank, IsMessage
<1>8. UserEvent(msg) \in Event
  BY <1>0, <1>2 DEF UserEvent, Event, IsEvent, Blank, IsMessage
<1> QED
  BY <1>3, <1>4, <1>5, <1>6, <1>7, <1>8

-----------------------------------------------------------------------------
(* Partial events, by induction over their pieces.                         *)

\* The partial events of the first n pieces of a step.
ThoughtsOf(msg, i, n) == [k \in 1..n |-> Thought(msg, i, k)]
WordsOf(msg, i, n) == [k \in 1..n |-> Word(msg, i, k)]

\* What the browser has been told after a list of events.
RelayAfter(seen, objs) == FoldLeft(Relay, seen, objs)

\* c is what was seen before and the step.
ThoughtsTold(c, n) ==
  Shows(RelayAfter(c.seen, ThoughtsOf(c.turn, c.i, n)),
        c.seen.thoughts \o Pieces(c.turn, c.i, n), c.seen.words, c.seen.chips, c.seen.usage,
        n > 0, FALSE)
\* The same of the words of a step.
WordsTold(c, n) ==
  Shows(RelayAfter(c.seen, WordsOf(c.turn, c.i, n)),
        c.seen.thoughts, c.seen.words \o Pieces(c.turn, c.i, n), c.seen.chips, c.seen.usage,
        c.seen.sawThought, n > 0)
\* An answer that has ended stays as it is.
OverStays(c, objs) == RelayAfter(c, objs) = c

\* Each of these is proved by induction over the pieces, or over the events.
ThoughtsRelay == INSTANCE SequenceInduction WITH Step <- Relay, Holds <- ThoughtsTold
WordsRelay == INSTANCE SequenceInduction WITH Step <- Relay, Holds <- WordsTold
OverRelay == INSTANCE SequenceInduction WITH Step <- Relay, Holds <- OverStays

\* RelayAfter is the fold of the induction: what is told of no event, of one more, and of
\* two lists of events.
LEMMA RelayIsFold ==
  ASSUME NEW seen, NEW objs
  PROVE  RelayAfter(seen, objs) = OverRelay!Fold(seen, objs)
BY DEF RelayAfter, OverRelay!Fold, OverRelay!Folds, OverRelay!Greatest,
  FoldLeft, MapThenFoldSet, Max

LEMMA RelayEmpty ==
  ASSUME NEW seen
  PROVE  RelayAfter(seen, <<>>) = seen
BY LeastNumber, RelayIsFold, OverRelay!FoldEmpty DEF OverRelay!WellOrdered

LEMMA RelayAppend ==
  ASSUME NEW seen, NEW T, NEW objs \in Seq(T), NEW ev \in T
  PROVE  RelayAfter(seen, Append(objs, ev)) = Relay(RelayAfter(seen, objs), ev)
BY LeastNumber, RelayIsFold, OverRelay!FoldAppend DEF OverRelay!WellOrdered

LEMMA RelayConcat ==
  ASSUME NEW seen, NEW T, NEW objs \in Seq(T), NEW more \in Seq(T)
  PROVE  RelayAfter(seen, objs \o more) = RelayAfter(RelayAfter(seen, objs), more)
BY LeastNumber, RelayIsFold, OverRelay!FoldConcat DEF OverRelay!WellOrdered

\* After an error nothing more is told.
LEMMA RelayIsOver ==
  ASSUME NEW seen, seen.end # "none", NEW T, NEW objs \in Seq(T)
  PROVE  RelayAfter(seen, objs) = seen
<1>1. OverStays(seen, <<>>)
  BY RelayEmpty DEF OverStays
<1>2. ASSUME NEW s \in Seq(T), NEW e \in T, OverStays(seen, s)
      PROVE  OverStays(seen, Append(s, e))
  <2>1. RelayAfter(seen, Append(s, e)) = Relay(RelayAfter(seen, s), e)
    BY RelayAppend
  <2>2. RelayAfter(seen, s) = seen
    BY <1>2 DEF OverStays
  <2>3. Relay(seen, e) = seen
    BY RelayOver
  <2> QED
    BY <2>1, <2>2, <2>3 DEF OverStays
<1>3. \A s \in Seq(T) : OverStays(seen, s)
  BY LeastNumber, <1>1, <1>2, OverRelay!BySequence DEF OverRelay!WellOrdered
<1> QED
  BY <1>3 DEF OverStays

\* What was seen between two steps of an answer.
Quiet(seen) ==
  /\ DOMAIN seen = Fields /\ seen.end = "none"
  /\ seen.thoughts \in Seq(Piece) /\ seen.words \in Seq(Piece) /\ seen.chips \in Seq(Agents)
  /\ seen.usage \in Nat /\ seen.sawThought = FALSE /\ seen.sawText = FALSE

\* One thought more.
LEMMA ThoughtsStep ==
  ASSUME NEW c, DOMAIN c.seen = Fields, c.seen.thoughts \in Seq(Piece), c.turn \in Nat,
         c.i \in Nat,
         NEW n \in Nat, ThoughtsTold(c, n)
  PROVE  ThoughtsTold(c, n + 1)
<1> DEFINE N == n + 1
           ev == Thought(c.turn, c.i, N)
           seen == RelayAfter(c.seen, ThoughtsOf(c.turn, c.i, n))
           P == Pieces(c.turn, c.i, n)
           piece == <<<<c.turn, c.i, N>>>>
<1>0. N \in Nat /\ N > 0 /\ N = n + 1
  OBVIOUS
<1>1. ThoughtsOf(c.turn, c.i, N) = Append(ThoughtsOf(c.turn, c.i, n), ev)
  BY DEF ThoughtsOf
<1> DEFINE T == {Thought(c.turn, c.i, k) : k \in Nat}
<1>2. ThoughtsOf(c.turn, c.i, n) \in Seq(T) /\ ev \in T
  BY DEF ThoughtsOf
<1>3. RelayAfter(c.seen, ThoughtsOf(c.turn, c.i, N)) = Relay(seen, ev)
  <2> HIDE DEF ev, T, N
  <2> QED
    BY <1>1, <1>2, RelayAppend
<1>4. ev.partial = TRUE /\ ev.error = FALSE /\ ev.thoughts = piece /\ ev.words = <<>>
  BY DEF Thought, Blank
<1>5. Shows(seen, c.seen.thoughts \o P, c.seen.words, c.seen.chips, c.seen.usage, n > 0, FALSE)
  BY DEF ThoughtsTold
<1>6. c.seen.thoughts \o Pieces(c.turn, c.i, N) = (c.seen.thoughts \o P) \o piece
  <2>1. Pieces(c.turn, c.i, N) = P \o piece
    BY PiecesAppend
  <2>2. P \in Seq(Piece) /\ piece \in Seq(Piece)
    <3>1. <<c.turn, c.i, N>> \in Piece
      BY <1>0 DEF Piece
    <3>2. P \in Seq(Piece)
      BY PiecesTyped
    <3> QED
      BY <3>1, <3>2
  <2> DEFINE t == c.seen.thoughts
  <2>3. t \in Seq(Piece)
    OBVIOUS
  <2> HIDE DEF P, piece, t
  <2>4. t \o (P \o piece) = (t \o P) \o piece
    BY <2>2, <2>3
  <2> QED
    BY <2>1, <2>4 DEF t
<1>7. piece # <<>>
  OBVIOUS
<1> HIDE DEF ev, seen, P, piece, N
<1>8. Shows(Relay(seen, ev), seen.thoughts \o piece, seen.words, seen.chips, seen.usage, TRUE,
      FALSE)
  <2>1. DOMAIN seen = Fields /\ seen.end = "none" /\ seen.sawThought = (n > 0)
        /\ seen.sawText = FALSE
    BY <1>5 DEF Shows
  <2> QED
    BY <1>4, <1>7, <2>1, RelayPartial
<1>9. Shows(Relay(seen, ev), (c.seen.thoughts \o P) \o piece, c.seen.words, c.seen.chips,
      c.seen.usage, TRUE, FALSE)
  BY <1>5, <1>8 DEF Shows
<1>10. (N > 0) = TRUE
  BY <1>0
<1>11. ThoughtsTold(c, N)
  BY <1>3, <1>6, <1>9, <1>10 DEF ThoughtsTold
<1> QED
  BY <1>11 DEF N
\* One word more.
LEMMA WordsStep ==
  ASSUME NEW c, DOMAIN c.seen = Fields, c.seen.words \in Seq(Piece),
         c.seen.sawThought \in BOOLEAN, c.turn \in Nat, c.i \in Nat,
         NEW n \in Nat, WordsTold(c, n)
  PROVE  WordsTold(c, n + 1)
<1> DEFINE N == n + 1
           ev == Word(c.turn, c.i, N)
           seen == RelayAfter(c.seen, WordsOf(c.turn, c.i, n))
           P == Pieces(c.turn, c.i, n)
           piece == <<<<c.turn, c.i, N>>>>
<1>0. N \in Nat /\ N > 0 /\ N = n + 1
  OBVIOUS
<1>1. WordsOf(c.turn, c.i, N) = Append(WordsOf(c.turn, c.i, n), ev)
  BY DEF WordsOf
<1> DEFINE T == {Word(c.turn, c.i, k) : k \in Nat}
<1>2. WordsOf(c.turn, c.i, n) \in Seq(T) /\ ev \in T
  BY DEF WordsOf
<1>3. RelayAfter(c.seen, WordsOf(c.turn, c.i, N)) = Relay(seen, ev)
  <2> HIDE DEF ev, T, N
  <2> QED
    BY <1>1, <1>2, RelayAppend
<1>4. ev.partial = TRUE /\ ev.error = FALSE /\ ev.words = piece /\ ev.thoughts = <<>>
  BY DEF Word, Blank
<1>5. Shows(seen, c.seen.thoughts, c.seen.words \o P, c.seen.chips, c.seen.usage,
      c.seen.sawThought, n > 0)
  BY DEF WordsTold
<1>6. c.seen.words \o Pieces(c.turn, c.i, N) = (c.seen.words \o P) \o piece
  <2>1. Pieces(c.turn, c.i, N) = P \o piece
    BY PiecesAppend
  <2>2. P \in Seq(Piece) /\ piece \in Seq(Piece)
    <3>1. <<c.turn, c.i, N>> \in Piece
      BY <1>0 DEF Piece
    <3>2. P \in Seq(Piece)
      BY PiecesTyped
    <3> QED
      BY <3>1, <3>2
  <2> DEFINE t == c.seen.words
  <2>3. t \in Seq(Piece)
    OBVIOUS
  <2> HIDE DEF P, piece, t
  <2>4. t \o (P \o piece) = (t \o P) \o piece
    BY <2>2, <2>3
  <2> QED
    BY <2>1, <2>4 DEF t
<1>7. piece # <<>>
  OBVIOUS
<1> HIDE DEF ev, seen, P, piece, N
<1>8. Shows(Relay(seen, ev), seen.thoughts, seen.words \o piece, seen.chips, seen.usage,
      seen.sawThought, TRUE)
  <2>1. DOMAIN seen = Fields /\ seen.end = "none" /\ seen.sawThought = c.seen.sawThought
        /\ seen.sawText = (n > 0)
    BY <1>5 DEF Shows
  <2> QED
    BY <1>4, <1>7, <2>1, RelayPartial
<1>9. Shows(Relay(seen, ev), c.seen.thoughts, (c.seen.words \o P) \o piece, c.seen.chips,
      c.seen.usage, c.seen.sawThought, TRUE)
  BY <1>5, <1>8 DEF Shows
<1>10. (N > 0) = TRUE
  BY <1>0
<1>11. WordsTold(c, N)
  BY <1>3, <1>6, <1>9, <1>10 DEF WordsTold
<1> QED
  BY <1>11 DEF N

\* The partial thoughts of a step are told one after the other ...
LEMMA TellsThoughts ==
  ASSUME NEW seen, Quiet(seen), NEW msg \in Nat, NEW i \in Nat, NEW n \in Nat
  PROVE  Shows(RelayAfter(seen, ThoughtsOf(msg, i, n)), seen.thoughts \o Pieces(msg, i, n),
               seen.words, seen.chips, seen.usage, n > 0, FALSE)
<1> DEFINE c == [seen |-> seen, turn |-> msg, i |-> i]
<1>1. /\ c.seen = seen /\ c.turn = msg /\ c.i = i
      /\ DOMAIN seen = Fields /\ seen.thoughts \in Seq(Piece)
  BY DEF Quiet
<1> HIDE DEF c
<1>2. ThoughtsTold(c, 0)
  <2>1. ThoughtsOf(msg, i, 0) = <<>> /\ Pieces(msg, i, 0) = <<>>
    BY DEF ThoughtsOf, Pieces
  <2>2. seen.thoughts \o <<>> = seen.thoughts /\ (0 > 0) = FALSE
    BY <1>1
  <2>3. Shows(seen, seen.thoughts, seen.words, seen.chips, seen.usage, FALSE, FALSE)
    BY DEF Quiet, Shows
  <2> QED
    BY <1>1, <2>1, <2>2, <2>3, RelayEmpty DEF ThoughtsTold
<1>3. \A m \in Nat : ThoughtsTold(c, m) => ThoughtsTold(c, m + 1)
  BY <1>1, ThoughtsStep
<1>4. \A m \in Nat : ThoughtsTold(c, m)
  BY LeastNumber, <1>2, <1>3, ThoughtsRelay!ByNumber DEF ThoughtsRelay!WellOrdered
<1> QED
  BY <1>1, <1>4 DEF ThoughtsTold

\* ... and so are its words.
LEMMA TellsWords ==
  ASSUME NEW seen, DOMAIN seen = Fields, seen.end = "none", seen.words \in Seq(Piece),
         seen.sawThought \in BOOLEAN, seen.sawText = FALSE,
         NEW msg \in Nat, NEW i \in Nat, NEW n \in Nat
  PROVE  Shows(RelayAfter(seen, WordsOf(msg, i, n)), seen.thoughts,
               seen.words \o Pieces(msg, i, n), seen.chips, seen.usage, seen.sawThought, n > 0)
<1> DEFINE c == [seen |-> seen, turn |-> msg, i |-> i]
<1>1. c.seen = seen /\ c.turn = msg /\ c.i = i
  OBVIOUS
<1> HIDE DEF c
<1>2. WordsTold(c, 0)
  <2>1. WordsOf(msg, i, 0) = <<>> /\ Pieces(msg, i, 0) = <<>>
    BY DEF WordsOf, Pieces
  <2>2. seen.words \o <<>> = seen.words /\ (0 > 0) = FALSE
    OBVIOUS
  <2>3. Shows(seen, seen.thoughts, seen.words, seen.chips, seen.usage, seen.sawThought, FALSE)
    BY DEF Shows
  <2> QED
    BY <1>1, <2>1, <2>2, <2>3, RelayEmpty DEF WordsTold
<1>3. \A m \in Nat : WordsTold(c, m) => WordsTold(c, m + 1)
  BY <1>1, WordsStep
<1>4. \A m \in Nat : WordsTold(c, m)
  BY LeastNumber, <1>2, <1>3, WordsRelay!ByNumber DEF WordsRelay!WellOrdered
<1> QED
  BY <1>1, <1>4 DEF WordsTold

-----------------------------------------------------------------------------
(* The events of a step.                                                   *)

\* The event that stands for a step once it is complete.
Consolidated(msg, i, step) ==
  IF step.kind = "say" THEN Whole(msg, i, step)
  ELSE IF step.kind = "tool" THEN ToolEvent(msg) ELSE ErrorEvent(msg)

\* What an agent may send in a turn: no message of the user, and no partial event unless it
\* is to stream.
Sendable(msg, streaming) ==
  {ev \in Event : ev.turn = msg /\ ~ IsMessage(ev) /\ (ev.partial => streaming)}

\* The consolidated event of a step says all of it.
LEMMA WholeIs ==
  ASSUME NEW msg \in Nat, NEW i \in Nat, NEW step \in AgentStep
  PROVE  LET ev == Whole(msg, i, step)
         IN /\ ev \in Sendable(msg, FALSE)
            /\ ev.partial = FALSE /\ ev.error = FALSE /\ ev.usage = 1
            /\ ev.thoughts = Pieces(msg, i, step.thoughts)
            /\ ev.words = Pieces(msg, i, step.words)
            /\ ev.to = step.to /\ ev.rest = step.rest
<1>1. /\ step.to \in Agents /\ step.thoughts \in Nat /\ step.words \in Nat
      /\ step.rest \in [thoughts : Nat, words : Nat]
  BY DEF AgentStep
<1> DEFINE t == Pieces(msg, i, step.thoughts)
           w == Pieces(msg, i, step.words)
<1>2. t \in Seq(Piece) /\ w \in Seq(Piece)
  BY <1>1, PiecesTyped
<1>3. Whole(msg, i, step)
      = [Blank(msg) EXCEPT !.thoughts = t, !.words = w, !.rest = step.rest, !.to = step.to,
                           !.usage = 1]
  BY DEF Whole
<1> HIDE DEF t, w
<1>4. Whole(msg, i, step) \in Event /\ ~ IsMessage(Whole(msg, i, step))
      /\ Whole(msg, i, step).turn = msg
  BY ZenonT(40), <1>1, <1>2, <1>3 DEF Event, IsEvent, Blank, IsMessage
<1>5. LET ev == Whole(msg, i, step)
      IN ev.partial = FALSE /\ ev.error = FALSE /\ ev.usage = 1 /\ ev.thoughts = t
         /\ ev.words = w /\ ev.to = step.to /\ ev.rest = step.rest
  BY <1>3 DEF Blank
<1> QED
  BY <1>4, <1>5 DEF Sendable, t, w

\* The partial events of a step say a part of it each.
LEMMA PartIs ==
  ASSUME NEW msg \in Nat, NEW i \in Nat, NEW k \in Nat, NEW step \in AgentStep
  PROVE  /\ Thought(msg, i, k) \in Sendable(msg, TRUE) /\ Thought(msg, i, k).partial
         /\ Word(msg, i, k) \in Sendable(msg, TRUE) /\ Word(msg, i, k).partial
         /\ LastPartial(msg, step) \in Sendable(msg, TRUE)
            /\ LastPartial(msg, step).partial = TRUE
         /\ LastPartial(msg, step).error = FALSE
         /\ LastPartial(msg, step).thoughts = <<>> /\ LastPartial(msg, step).words = <<>>
<1>1. /\ Thought(msg, i, k).partial = TRUE /\ Thought(msg, i, k).turn = msg
         /\ Thought(msg, i, k).role = "model"
      /\ Word(msg, i, k).partial = TRUE /\ Word(msg, i, k).turn = msg
         /\ Word(msg, i, k).role = "model"
  BY DEF Thought, Word, Blank
<1>2. LET ev == LastPartial(msg, step)
      IN ev.turn = msg /\ ev.role = "model" /\ ev.partial = TRUE /\ ev.error = FALSE
         /\ ev.thoughts = <<>> /\ ev.words = <<>>
  BY DEF LastPartial, Blank
<1> QED
  BY <1>1, <1>2, EventFields DEF Sendable, IsMessage

\* A tool's result says nothing, an error only that it is one.
LEMMA OtherIs ==
  ASSUME NEW msg \in Nat, NEW streaming \in BOOLEAN
  PROVE  /\ ToolEvent(msg) \in Sendable(msg, streaming)
         /\ ErrorEvent(msg) \in Sendable(msg, streaming)
         /\ ErrorEvent(msg).error = TRUE
         /\ LET ev == ToolEvent(msg)
            IN /\ ev.error = FALSE /\ ev.partial = FALSE /\ ev.thoughts = <<>> /\ ev.words = <<>>
               /\ ev.to = NoAgent /\ ev.usage = 0
<1>1. LET ev == ToolEvent(msg)
      IN /\ ev.error = FALSE /\ ev.partial = FALSE /\ ev.thoughts = <<>> /\ ev.words = <<>>
         /\ ev.to = NoAgent /\ ev.usage = 0 /\ ev.turn = msg /\ ev.toolResult = TRUE
  BY DEF ToolEvent, Blank
<1>2. LET ev == ErrorEvent(msg)
      IN ev.turn = msg /\ ev.role = "model" /\ ev.error = TRUE /\ ev.partial = FALSE
  BY DEF ErrorEvent, Blank
<1>3. ToolEvent(msg) \in Event /\ ErrorEvent(msg) \in Event
  <2>1. NoAgent \in Agents /\ <<>> \in Seq(Piece)
    BY DEF Agents
  <2>2. ToolEvent(msg) \in Event
    BY <2>1 DEF ToolEvent, Event, IsEvent, Blank, IsMessage
  <2>3. ErrorEvent(msg) \in Event
    BY <2>1 DEF ErrorEvent, Event, IsEvent, Blank, IsMessage
  <2> QED
    BY <2>2, <2>3
<1> QED
  BY <1>1, <1>2, <1>3 DEF Sendable, IsMessage

\* The last event of a step is sendable, and an error exactly if the step fails.
LEMMA ConsolidatedIs ==
  ASSUME NEW msg \in Nat, NEW i \in Nat, NEW step \in AgentStep, NEW streaming \in BOOLEAN
  PROVE  LET ev == Consolidated(msg, i, step)
         IN /\ ev \in Sendable(msg, streaming) /\ ev.partial = FALSE
            /\ step.kind = "fail" <=> ev.error
            /\ step.kind # "fail" => ev.error = FALSE
<1>1. Whole(msg, i, step) \in Sendable(msg, streaming)
  BY WholeIs DEF Sendable
<1>2. step.kind \in {"say", "tool", "fail"}
  BY DEF AgentStep
<1>3. ErrorEvent(msg).partial = FALSE
  BY DEF ErrorEvent, Blank
<1> QED
  BY ZenonT(40), <1>1, <1>2, <1>3, WholeIs, OtherIs DEF Consolidated

\* The partial events of a step.
PartialsOf(msg, i, step) ==
  (ThoughtsOf(msg, i, step.thoughts) \o WordsOf(msg, i, step.words)) \o <<LastPartial(msg, step)>>

\* A step is sent as partial events, if it is streamed, and one that is not.
LEMMA EventsAre ==
  ASSUME NEW msg \in Nat, NEW i \in Nat, NEW step \in AgentStep, NEW streaming \in BOOLEAN
  PROVE  EventsOf(msg, i, step, streaming) =
           IF step.kind = "say" /\ step.streamed /\ streaming
           THEN PartialsOf(msg, i, step) \o <<Consolidated(msg, i, step)>>
           ELSE <<Consolidated(msg, i, step)>>
<1>1. step.kind \in {"say", "tool", "fail"} /\ step.thoughts \in Nat /\ step.words \in Nat
  BY DEF AgentStep
<1> DEFINE whole == Whole(msg, i, step)
<1>0. /\ whole.thoughts = Pieces(msg, i, step.thoughts)
      /\ whole.words = Pieces(msg, i, step.words)
  BY WholeIs
<1> HIDE DEF whole
<1>2. [k \in 1..step.thoughts |-> [[Blank(msg) EXCEPT !.partial = TRUE] EXCEPT !.thoughts
      = <<whole.thoughts[k]>>]]
        = ThoughtsOf(msg, i, step.thoughts)
  <2>1. ASSUME NEW k \in 1..step.thoughts PROVE whole.thoughts[k] = <<msg, i, k>>
    BY <1>0 DEF Pieces
  <2>2. ASSUME NEW k \in 1..step.thoughts
        PROVE  [[Blank(msg) EXCEPT !.partial = TRUE] EXCEPT !.thoughts = <<<<msg, i, k>>>>]
               = Thought(msg, i, k)
    BY DEF Thought, Blank
  <2> DEFINE part(x) == [[Blank(msg) EXCEPT !.partial = TRUE] EXCEPT !.thoughts = <<x>>]
  <2>3. \A k \in 1..step.thoughts : part(whole.thoughts[k]) = Thought(msg, i, k)
    BY <2>1, <2>2
  <2> HIDE DEF part
  <2>4. [k \in 1..step.thoughts |-> part(whole.thoughts[k])]
        = [k \in 1..step.thoughts |-> Thought(msg, i, k)]
    BY <2>3
  <2> QED
    BY Zenon, <2>4 DEF part, ThoughtsOf
<1>3. [k \in 1..step.words |-> [[Blank(msg) EXCEPT !.partial = TRUE] EXCEPT !.words
      = <<whole.words[k]>>]]
        = WordsOf(msg, i, step.words)
  <2>1. ASSUME NEW k \in 1..step.words PROVE whole.words[k] = <<msg, i, k>>
    BY <1>0 DEF Pieces
  <2>2. ASSUME NEW k \in 1..step.words
        PROVE  [[Blank(msg) EXCEPT !.partial = TRUE] EXCEPT !.words = <<<<msg, i, k>>>>]
               = Word(msg, i, k)
    BY DEF Word, Blank
  <2> DEFINE part(x) == [[Blank(msg) EXCEPT !.partial = TRUE] EXCEPT !.words = <<x>>]
  <2>3. \A k \in 1..step.words : part(whole.words[k]) = Word(msg, i, k)
    BY <2>1, <2>2
  <2> HIDE DEF part
  <2>4. [k \in 1..step.words |-> part(whole.words[k])] = [k \in 1..step.words |-> Word(msg, i, k)]
    BY <2>3
  <2> QED
    BY Zenon, <2>4 DEF part, WordsOf
<1>4. [[Blank(msg) EXCEPT !.partial = TRUE] EXCEPT !.to = step.to, !.usage = 1]
      = LastPartial(msg, step)
  BY SMTT(30) DEF LastPartial, Blank
<1>5. Partials(msg, i, step) = PartialsOf(msg, i, step)
  BY <1>2, <1>3, <1>4 DEF Partials, PartialsOf, whole
<1>6. <<>> \o <<whole>> = <<whole>>
  OBVIOUS
<1> QED
  BY <1>1, <1>5, <1>6 DEF EventsOf, Consolidated, whole

-----------------------------------------------------------------------------
(* A step is told once, whether or not it was streamed.                    *)

\* A list of one event.
LEMMA RelayOne ==
  ASSUME NEW seen, NEW ev
  PROVE  RelayAfter(seen, <<ev>>) = Relay(seen, ev)
<1>1. <<>> \in Seq({ev}) /\ ev \in {ev} /\ Append(<<>>, ev) = <<ev>>
  OBVIOUS
<1>2. RelayAfter(seen, Append(<<>>, ev)) = Relay(RelayAfter(seen, <<>>), ev)
  BY <1>1, RelayAppend
<1> QED
  BY <1>1, <1>2, RelayEmpty

\* Once complete, a step is told as if it had not been streamed.
LEMMA StepTold ==
  ASSUME NEW seen, Quiet(seen), NEW msg \in Nat, NEW i \in Nat, NEW step \in AgentStep,
         NEW streaming \in BOOLEAN, Repeats(step)
  PROVE  LET after == RelayAfter(seen, EventsOf(msg, i, step, streaming))
             ev == Consolidated(msg, i, step)
         IN IF step.kind = "fail" THEN after.end = "error"
            ELSE Shows(after, seen.thoughts \o ev.thoughts, seen.words \o ev.words,
                       seen.chips \o Chip(ev), seen.usage + ev.usage, FALSE, FALSE)
<1> DEFINE ev == Consolidated(msg, i, step)
           after == RelayAfter(seen, EventsOf(msg, i, step, streaming))
           parts == PartialsOf(msg, i, step)
<1>1. /\ ev \in Sendable(msg, streaming) /\ ev.partial = FALSE
      /\ step.kind = "fail" => ev.error = TRUE
      /\ step.kind # "fail" => ev.error = FALSE
      /\ ev.thoughts \in Seq(Piece) /\ ev.words \in Seq(Piece)
  <2>1. /\ ev \in Sendable(msg, streaming) /\ ev.partial = FALSE
        /\ step.kind = "fail" => ev.error = TRUE
        /\ step.kind # "fail" => ev.error = FALSE
    BY ConsolidatedIs
  <2> HIDE DEF ev
  <2>2. ev \in Event
    BY <2>1 DEF Sendable
  <2>3. ev.thoughts \in Seq(Piece) /\ ev.words \in Seq(Piece)
    BY <2>2 DEF Event
  <2> QED
    BY <2>1, <2>3
<1>2. /\ DOMAIN seen = Fields /\ seen.end = "none" /\ seen.sawThought = FALSE
         /\ seen.sawText = FALSE
      /\ seen.thoughts \o <<>> = seen.thoughts /\ seen.words \o <<>> = seen.words
      /\ seen.thoughts \in Seq(Piece) /\ seen.words \in Seq(Piece)
  BY DEF Quiet
<1>3. CASE ~ (step.kind = "say" /\ step.streamed /\ streaming)
  <2>1. after = Relay(seen, ev)
    BY <1>3, EventsAre, RelayOne
  <2> HIDE DEF ev, after
  <2>2. CASE step.kind = "fail"
    BY <1>1, <1>2, <2>1, <2>2, RelayError DEF ev, after
  <2>3. CASE step.kind # "fail"
    <3>1. Shows(after,
               IF ev.thoughts = <<>> \/ seen.sawThought THEN seen.thoughts
                 ELSE seen.thoughts \o ev.thoughts,
               IF ev.words = <<>> \/ seen.sawText THEN seen.words ELSE seen.words \o ev.words,
               seen.chips \o Chip(ev), seen.usage + ev.usage,
               IF ev.thoughts = <<>> THEN seen.sawThought ELSE FALSE,
               IF ev.words = <<>> THEN seen.sawText ELSE FALSE)
      BY <1>1, <1>2, <2>1, <2>3, RelayConsolidated
    <3>2. Shows(after, seen.thoughts \o ev.thoughts, seen.words \o ev.words,
                       seen.chips \o Chip(ev), seen.usage + ev.usage, FALSE, FALSE)
      BY <1>2, <3>1 DEF Shows
    <3> QED
      BY <2>3, <3>2 DEF ev, after
  <2> QED
    BY <2>2, <2>3
<1>4. CASE step.kind = "say" /\ step.streamed /\ streaming
  <2> DEFINE a == step.thoughts
             b == step.words
             P == Pieces(msg, i, a)
             Q == Pieces(msg, i, b)
             thoughts == ThoughtsOf(msg, i, a)
             words == WordsOf(msg, i, b)
             last == LastPartial(msg, step)
             s1 == RelayAfter(seen, thoughts)
             s2 == RelayAfter(s1, words)
             s3 == Relay(s2, last)
  <2>1. a \in Nat /\ b \in Nat
    BY DEF AgentStep
  <2> DEFINE T == Sendable(msg, TRUE)
  <2>2. thoughts \in Seq(T) /\ words \in Seq(T) /\ last \in T /\ ev \in T
    <3>1. /\ \A k \in 1 .. a : Thought(msg, i, k) \in T
          /\ \A k \in 1 .. b : Word(msg, i, k) \in T
          /\ last \in T
      <4>1. \A k \in 1 .. a : k \in Nat
        BY <2>1
      <4>2. \A k \in 1 .. b : k \in Nat
        BY <2>1
      <4> HIDE DEF a, b
      <4> QED
        BY <4>1, <4>2, PartIs
    <3>2. ev \in T
      BY <1>1, <1>4
    <3> HIDE DEF T, last, ev, a, b
    <3>3. thoughts \in Seq(T)
      BY <2>1, <3>1 DEF ThoughtsOf
    <3>4. words \in Seq(T)
      BY <2>1, <3>1 DEF WordsOf
    <3> QED
      BY <3>1, <3>2, <3>3, <3>4
  <2>3. after = Relay(s3, ev)
    <3>1. EventsOf(msg, i, step, streaming) = ((thoughts \o words) \o <<last>>) \o <<ev>>
      BY <1>4, EventsAre DEF PartialsOf
    <3> HIDE DEF thoughts, words, last, ev, T
    <3>2. RelayAfter(seen, thoughts \o words) = s2
      BY <2>2, RelayConcat
    <3> HIDE DEF s2
    <3> DEFINE front == thoughts \o words
    <3>3. front \in Seq(T)
      BY <2>2
    <3> HIDE DEF front
    <3>4. front \o <<last>> = Append(front, last) /\ Append(front, last) \in Seq(T)
      BY <2>2, <3>3
    <3>5. RelayAfter(seen, Append(front, last)) = s3
      BY <2>2, <3>2, <3>3, RelayAppend DEF front
    <3> DEFINE most == Append(front, last)
    <3> HIDE DEF most, s3
    <3>6. most \o <<ev>> = Append(most, ev)
      BY <2>2, <3>4 DEF most
    <3>7. RelayAfter(seen, Append(most, ev)) = Relay(RelayAfter(seen, most), ev)
      <4>1. most \in Seq(T) /\ ev \in T
        BY <2>2, <3>4 DEF most
      <4> QED
        BY <4>1, RelayAppend
    <3> QED
      BY <3>1, <3>4, <3>5, <3>6, <3>7 DEF most, front
  <2> HIDE DEF ev, after, a, b, P, Q, thoughts, words, last, s1, s2, s3
  <2>4. Shows(s1, seen.thoughts \o P, seen.words, seen.chips, seen.usage, a > 0, FALSE)
    BY <2>1, TellsThoughts DEF s1, thoughts, P
  <2>5. Shows(s2, seen.thoughts \o P, seen.words \o Q, seen.chips, seen.usage, a > 0, b > 0)
    <3>1. DOMAIN s1 = Fields /\ s1.end = "none" /\ s1.words \in Seq(Piece)
          /\ s1.sawThought \in BOOLEAN /\ s1.sawText = FALSE
      BY <2>4 DEF Shows, Quiet
    <3>2. Shows(s2, s1.thoughts, s1.words \o Q, s1.chips, s1.usage, s1.sawThought, b > 0)
      BY <2>1, <3>1, TellsWords DEF s2, words, Q
    <3> QED
      BY <2>4, <3>2 DEF Shows
  <2>6. Shows(s3, seen.thoughts \o P, seen.words \o Q, seen.chips, seen.usage, a > 0, b > 0)
    <3>1. last.partial = TRUE /\ last.error = FALSE /\ last.thoughts = <<>> /\ last.words = <<>>
      BY PartIs DEF last
    <3>2. DOMAIN s2 = Fields /\ s2.end = "none" /\ s2.sawThought = (a > 0) /\ s2.sawText = (b > 0)
      BY <2>5 DEF Shows
    <3>3. Shows(s3, s2.thoughts, s2.words, s2.chips, s2.usage, a > 0, b > 0)
      BY <3>1, <3>2, RelayPartial DEF s3
    <3> QED
      BY <2>5, <3>3 DEF Shows
  <2>7. /\ ev.thoughts = P /\ ev.words = Q
        /\ P = <<>> <=> a = 0
        /\ Q = <<>> <=> b = 0
    <3>1. ev.thoughts = P /\ ev.words = Q
      BY <1>4, WholeIs DEF ev, Consolidated, P, Q, a, b
    <3>2. Len(P) = a /\ Len(Q) = b /\ P \in Seq(Piece) /\ Q \in Seq(Piece)
      BY <2>1, PiecesTyped DEF P, Q
    <3> QED
      BY <3>1, <3>2
  <2>71. ev.rest.thoughts = 0 /\ ev.rest.words = 0
    <3>1. ev.rest = step.rest /\ step.rest = [thoughts |-> 0, words |-> 0]
      BY <1>4, WholeIs DEF ev, Consolidated, Repeats
    <3> QED
      BY <3>1
  <2>72. P \in Seq(Piece) /\ Q \in Seq(Piece)
    BY <2>1, PiecesTyped DEF P, Q
  <2>8. Shows(after, seen.thoughts \o P, seen.words \o Q, seen.chips \o Chip(ev),
        seen.usage + ev.usage, FALSE, FALSE)
    <3>1. DOMAIN s3 = Fields /\ s3.end = "none" /\ s3.sawThought = (a > 0) /\ s3.sawText = (b > 0)
      BY <2>6 DEF Shows
    <3>2. Shows(after,
               IF ev.thoughts = <<>> \/ s3.sawThought THEN s3.thoughts
                 ELSE s3.thoughts \o ev.thoughts,
               IF ev.words = <<>> \/ s3.sawText THEN s3.words ELSE s3.words \o ev.words,
               s3.chips \o Chip(ev), s3.usage + ev.usage,
               IF ev.thoughts = <<>> THEN s3.sawThought ELSE FALSE,
               IF ev.words = <<>> THEN s3.sawText ELSE FALSE)
      <4>1. ev.partial = FALSE /\ ev.error = FALSE
        BY <1>1, <1>4 DEF ev
      <4>2. s3.sawThought \in BOOLEAN /\ s3.sawText \in BOOLEAN
        BY <3>1
      <4>3. /\ s3.thoughts \in Seq(Piece) /\ s3.words \in Seq(Piece)
            /\ ev.thoughts \in Seq(Piece) /\ ev.words \in Seq(Piece)
        <5>1. s3.thoughts = seen.thoughts \o P /\ s3.words = seen.words \o Q
          BY <2>6 DEF Shows
        <5> QED
          BY <1>2, <2>7, <2>72, <5>1
      <4> QED
        BY <2>3, <2>71, <3>1, <4>1, <4>2, <4>3, RelayConsolidated
    <3>3. /\ (IF ev.thoughts = <<>> \/ s3.sawThought THEN s3.thoughts
             ELSE s3.thoughts \o ev.thoughts) = seen.thoughts \o P
          /\ (IF ev.thoughts = <<>> THEN s3.sawThought ELSE FALSE) = FALSE
      <4>1. s3.thoughts = seen.thoughts \o P
        BY <2>6 DEF Shows
      <4>2. ASSUME ev.thoughts = <<>> PROVE s3.sawThought = FALSE
        <5> DEFINE some == a > 0
        <5>1. some = FALSE
          BY <2>1, <2>7, <4>2
        <5>2. s3.sawThought = some
          BY <3>1
        <5> HIDE DEF some
        <5> QED
          BY <5>1, <5>2
      <4>3. ev.thoughts # <<>> => s3.sawThought = TRUE
        <5>1. ev.thoughts # <<>> => a > 0
          BY <2>1, <2>7
        <5> QED
          BY <3>1, <5>1
      <4> QED
        BY <4>1, <4>2, <4>3
    <3>4. /\ (IF ev.words = <<>> \/ s3.sawText THEN s3.words ELSE s3.words \o ev.words)
             = seen.words \o Q
          /\ (IF ev.words = <<>> THEN s3.sawText ELSE FALSE) = FALSE
      <4>1. s3.words = seen.words \o Q
        BY <2>6 DEF Shows
      <4>2. ASSUME ev.words = <<>> PROVE s3.sawText = FALSE
        <5> DEFINE some == b > 0
        <5>1. some = FALSE
          BY <2>1, <2>7, <4>2
        <5>2. s3.sawText = some
          BY <3>1
        <5> HIDE DEF some
        <5> QED
          BY <5>1, <5>2
      <4>3. ev.words # <<>> => s3.sawText = TRUE
        <5>1. ev.words # <<>> => b > 0
          BY <2>1, <2>7
        <5> QED
          BY <3>1, <5>1
      <4> QED
        BY <4>1, <4>2, <4>3
    <3>5. s3.chips = seen.chips /\ s3.usage = seen.usage
      BY <2>6 DEF Shows
    <3> QED
      BY <3>2, <3>3, <3>4, <3>5
  <2> QED
    BY <1>4, <2>7, <2>8 DEF ev, after
<1> QED
  BY <1>3, <1>4

-----------------------------------------------------------------------------
(* What is told of an answer is what the engine stores of it.              *)

\* What the engine has stored of a turn after a list of events.
KeptAfter(kept, objs) == FoldLeft(Stored, kept, objs)
Reply ==
  [role : {"model"}, thoughts : Seq(Piece), words : Seq(Piece), chips : Seq(Agents)]
KeptOK(kept) == DOMAIN kept = {"pending", "calls"} /\ kept.pending \in Reply /\ kept.calls \in Nat
Agree(seen, kept) ==
  Shows(seen, kept.pending.thoughts, kept.pending.words, kept.pending.chips, kept.calls, FALSE,
    FALSE)

\* The events of an answer, step by step.
StepsOf(msg, script, streaming) == [i \in DOMAIN script |-> EventsOf(msg, i, script[i],
  streaming)]
SentOf(msg, script, streaming) == FlattenSeq(StepsOf(msg, script, streaming))

\* Partial events leave nothing behind.
PartialsUnstored(c, objs) == KeptAfter(c, objs) = c
\* What was told of the answer so far is what was stored of it, if it has not failed and
\* what was streamed was repeated in one part.
AnswerAgrees(c, script) ==
  LET objs == SentOf(c.turn, script, c.streaming)
      seen == RelayAfter(Unseen, objs)
      kept == KeptAfter(Nothing, objs)
  IN /\ objs \in Seq(Sendable(c.turn, c.streaming)) /\ KeptOK(kept)
     /\ (\A i \in DOMAIN script : Repeats(script[i])) =>
          seen.end # "none" \/ Agree(seen, kept)

\* Both are proved by induction.
Keeping == INSTANCE SequenceInduction WITH Step <- Stored, Holds <- PartialsUnstored
Answering == INSTANCE SequenceInduction WITH Step <- Stored, Holds <- AnswerAgrees

\* KeptAfter is the fold of the induction: what is stored of no event, of one more, and of
\* two lists of events.
LEMMA KeptIsFold ==
  ASSUME NEW kept, NEW objs
  PROVE  KeptAfter(kept, objs) = Keeping!Fold(kept, objs)
BY DEF KeptAfter, Keeping!Fold, Keeping!Folds, Keeping!Greatest,
  FoldLeft, MapThenFoldSet, Max

LEMMA KeptEmpty ==
  ASSUME NEW kept
  PROVE  KeptAfter(kept, <<>>) = kept
BY LeastNumber, KeptIsFold, Keeping!FoldEmpty DEF Keeping!WellOrdered

LEMMA KeptAppend ==
  ASSUME NEW kept, NEW T, NEW objs \in Seq(T), NEW ev \in T
  PROVE  KeptAfter(kept, Append(objs, ev)) = Stored(KeptAfter(kept, objs), ev)
BY LeastNumber, KeptIsFold, Keeping!FoldAppend DEF Keeping!WellOrdered

LEMMA KeptConcat ==
  ASSUME NEW kept, NEW T, NEW objs \in Seq(T), NEW more \in Seq(T)
  PROVE  KeptAfter(kept, objs \o more) = KeptAfter(KeptAfter(kept, objs), more)
BY LeastNumber, KeptIsFold, Keeping!FoldConcat DEF Keeping!WellOrdered

\* A list of one event.
LEMMA KeptOne ==
  ASSUME NEW kept, NEW ev
  PROVE  KeptAfter(kept, <<ev>>) = Stored(kept, ev)
<1>1. <<>> \in Seq({ev}) /\ ev \in {ev} /\ Append(<<>>, ev) = <<ev>>
  OBVIOUS
<1>2. KeptAfter(kept, Append(<<>>, ev)) = Stored(KeptAfter(kept, <<>>), ev)
  BY <1>1, KeptAppend
<1> QED
  BY <1>1, <1>2, KeptEmpty

\* A list of lists with one list more.
LEMMA FlattensAppend ==
  ASSUME NEW T, NEW ss \in Seq(Seq(T)), NEW s \in Seq(T)
  PROVE  /\ FlattenSeq(<<>>) = <<>> /\ FlattenSeq(ss) \in Seq(T)
         /\ FlattenSeq(Append(ss, s)) = FlattenSeq(ss) \o s
BY FlattenEmpty, FlattenAppend, FlattenTyped

\* Partial events are not stored.
LEMMA OnlyPartials ==
  ASSUME NEW kept, NEW T, \A ev \in T : ev.partial, NEW objs \in Seq(T)
  PROVE  KeptAfter(kept, objs) = kept
<1>1. PartialsUnstored(kept, <<>>)
  BY KeptEmpty DEF PartialsUnstored
<1>2. ASSUME NEW s \in Seq(T), NEW e \in T, PartialsUnstored(kept, s)
      PROVE  PartialsUnstored(kept, Append(s, e))
  <2>1. KeptAfter(kept, Append(s, e)) = Stored(KeptAfter(kept, s), e)
    BY KeptAppend
  <2>2. KeptAfter(kept, s) = kept
    BY <1>2 DEF PartialsUnstored
  <2>3. Stored(kept, e) = kept
    BY DEF Stored
  <2> QED
    BY <2>1, <2>2, <2>3 DEF PartialsUnstored
<1>3. \A s \in Seq(T) : PartialsUnstored(kept, s)
  BY LeastNumber, <1>1, <1>2, Keeping!BySequence DEF Keeping!WellOrdered
<1> QED
  BY <1>3 DEF PartialsUnstored

\* A step's partial events can be sent, and so can the whole step.
LEMMA PartialsAre ==
  ASSUME NEW msg \in Nat, NEW i \in Nat, NEW step \in AgentStep
  PROVE  PartialsOf(msg, i, step) \in Seq({ev \in Sendable(msg, TRUE) : ev.partial})
<1> DEFINE T == {ev \in Sendable(msg, TRUE) : ev.partial}
           a == step.thoughts
           b == step.words
           last == LastPartial(msg, step)
<1>1. a \in Nat /\ b \in Nat
  BY DEF AgentStep
<1>2. (\A k \in Nat : Thought(msg, i, k) \in T /\ Word(msg, i, k) \in T) /\ last \in T
  BY PartIs
<1> HIDE DEF T, a, b, last
<1>3. ThoughtsOf(msg, i, a) \in Seq(T)
  BY <1>1, <1>2 DEF ThoughtsOf
<1>4. WordsOf(msg, i, b) \in Seq(T)
  BY <1>1, <1>2 DEF WordsOf
<1>5. PartialsOf(msg, i, step) = (ThoughtsOf(msg, i, a) \o WordsOf(msg, i, b)) \o <<last>>
  BY DEF PartialsOf, a, b, last
<1>6. PartialsOf(msg, i, step) \in Seq(T)
  <2> DEFINE x == ThoughtsOf(msg, i, a)
             y == WordsOf(msg, i, b)
  <2>1. x \in Seq(T) /\ y \in Seq(T)
    BY <1>3, <1>4
  <2> HIDE DEF x, y
  <2>2. (x \o y) \o <<last>> \in Seq(T)
    BY <1>2, <2>1
  <2> QED
    BY <1>5, <2>2 DEF x, y
<1> QED
  BY <1>6 DEF T

\* The events of a step may be sent.
LEMMA EventsSendable ==
  ASSUME NEW msg \in Nat, NEW i \in Nat, NEW step \in AgentStep, NEW streaming \in BOOLEAN
  PROVE  EventsOf(msg, i, step, streaming) \in Seq(Sendable(msg, streaming))
<1> DEFINE T == Sendable(msg, streaming)
           ev == Consolidated(msg, i, step)
           parts == PartialsOf(msg, i, step)
<1>1. ev \in T
  BY ConsolidatedIs
<1>2. streaming => parts \in Seq(T)
  <2> DEFINE U == {e \in Sendable(msg, TRUE) : e.partial}
  <2>1. parts \in Seq(U)
    BY PartialsAre
  <2>2. streaming => \A e \in U : e \in T
    BY DEF Sendable
  <2> HIDE DEF U, T, parts
  <2> QED
    BY <2>1, <2>2
<1>3. \/ EventsOf(msg, i, step, streaming) = parts \o <<ev>> /\ streaming
      \/ EventsOf(msg, i, step, streaming) = <<ev>>
  BY EventsAre
<1> HIDE DEF T, ev, parts
<1>4. EventsOf(msg, i, step, streaming) \in Seq(T)
  <2>1. <<ev>> \in Seq(T)
    BY <1>1
  <2>2. parts \in Seq(T) => parts \o <<ev>> \in Seq(T)
    BY <1>1
  <2> QED
    BY <1>2, <1>3, <2>1, <2>2
<1> QED
  BY <1>4 DEF T

\* Of a step, what is stored is the event that is not partial.
LEMMA StepKept ==
  ASSUME NEW kept, NEW msg \in Nat, NEW i \in Nat, NEW step \in AgentStep,
         NEW streaming \in BOOLEAN
  PROVE  KeptAfter(kept, EventsOf(msg, i, step, streaming))
         = Stored(kept, Consolidated(msg, i, step))
<1> DEFINE ev == Consolidated(msg, i, step)
           parts == PartialsOf(msg, i, step)
           T == {e \in Sendable(msg, TRUE) : e.partial}
<1>1. EventsOf(msg, i, step, streaming) = <<ev>>
      \/ EventsOf(msg, i, step, streaming) = parts \o <<ev>>
  BY EventsAre
<1>2. parts \in Seq(T) /\ \A e \in T : e.partial
  BY PartialsAre
<1> HIDE DEF ev, parts, T
<1>3. KeptAfter(kept, parts) = kept
  BY <1>2, OnlyPartials
<1>4. KeptAfter(kept, parts \o <<ev>>) = Stored(kept, ev)
  <2>1. parts \in Seq(T \cup {ev}) /\ ev \in T \cup {ev} /\ parts \o <<ev>> = Append(parts, ev)
    BY <1>2
  <2>2. KeptAfter(kept, Append(parts, ev)) = Stored(KeptAfter(kept, parts), ev)
    BY <2>1, KeptAppend
  <2> QED
    BY <1>3, <2>1, <2>2
<1> QED
  BY <1>1, <1>4, KeptOne DEF ev

\* What is stored keeps its type.
LEMMA StoredOK ==
  ASSUME NEW kept, KeptOK(kept), NEW ev \in Event
  PROVE  KeptOK(Stored(kept, ev))
<1>1. ev.thoughts \in Seq(Piece) /\ ev.words \in Seq(Piece) /\ ev.usage \in Nat
      /\ ev.to \in Agents
  BY DEF Event
<1>2. Chip(ev) \in Seq(Agents)
  BY <1>1 DEF Chip
<1> DEFINE p == kept.pending
           t == p.thoughts \o ev.thoughts
           w == p.words \o ev.words
           c == p.chips \o Chip(ev)
           u == kept.calls + ev.usage
<1>3. t \in Seq(Piece) /\ w \in Seq(Piece) /\ c \in Seq(Agents) /\ u \in Nat
  <2>1. p.thoughts \in Seq(Piece) /\ p.words \in Seq(Piece) /\ p.chips \in Seq(Agents)
        /\ kept.calls \in Nat
    BY DEF KeptOK, Reply
  <2>2. t \in Seq(Piece)
    BY <1>1, <2>1
  <2>3. w \in Seq(Piece)
    BY <1>1, <2>1
  <2>4. c \in Seq(Agents)
    BY <1>2, <2>1
  <2> QED
    BY <1>1, <2>1, <2>2, <2>3, <2>4
<1>4. Stored(kept, ev) = IF ev.partial \/ ev.error THEN kept
      ELSE [pending |-> Turn("model", t, w, c), calls |-> u]
  BY DEF Stored
<1> HIDE DEF t, w, c, u, p
<1>5. KeptOK([pending |-> Turn("model", t, w, c), calls |-> u])
  BY <1>3 DEF KeptOK, Reply, Turn
<1> QED
  BY <1>4, <1>5

\* One more step.
LEMMA AnswerStep ==
  ASSUME NEW c, c.turn \in Nat, c.streaming \in BOOLEAN, NEW script \in Seq(AgentStep),
         NEW step \in AgentStep,
         AnswerAgrees(c, script)
  PROVE  AnswerAgrees(c, Append(script, step))
<1> DEFINE msg == c.turn
           streaming == c.streaming
           T == Sendable(msg, streaming)
           i == Len(script) + 1
           ev == Consolidated(msg, i, step)
           more == EventsOf(msg, i, step, streaming)
           objs == SentOf(msg, script, streaming)
           seen == RelayAfter(Unseen, objs)
           kept == KeptAfter(Nothing, objs)
           after == RelayAfter(seen, more)
           stored == Stored(kept, ev)
<1>1. msg \in Nat /\ streaming \in BOOLEAN /\ i \in Nat
  OBVIOUS
<1>2. objs \in Seq(T) /\ KeptOK(kept)
  BY DEF AnswerAgrees
<1>21. ASSUME \A k \in DOMAIN Append(script, step) : Repeats(Append(script, step)[k])
       PROVE  (seen.end # "none" \/ Agree(seen, kept)) /\ Repeats(step)
  <2>1. /\ \A k \in DOMAIN script : k \in DOMAIN Append(script, step)
                                   /\ Append(script, step)[k] = script[k]
        /\ i \in DOMAIN Append(script, step) /\ Append(script, step)[i] = step
    OBVIOUS
  <2>2. Repeats(step)
    BY <1>21, <2>1, Zenon
  <2>3. \A k \in DOMAIN script : Repeats(script[k])
    <3> SUFFICES ASSUME NEW k \in DOMAIN script PROVE Repeats(script[k])
      OBVIOUS
    <3>1. Repeats(Append(script, step)[k])
      BY <1>21, <2>1
    <3> QED
      BY <2>1, <3>1
  <2> QED
    BY <2>2, <2>3 DEF AnswerAgrees
<1>3. more \in Seq(T)
  BY <1>1, EventsSendable
<1>4. ev \in Event /\ ev.partial = FALSE /\ (step.kind # "fail" => ev.error = FALSE)
  <2>1. ev \in T /\ ev.partial = FALSE /\ (step.kind # "fail" => ev.error = FALSE)
    BY <1>1, ConsolidatedIs
  <2> HIDE DEF ev
  <2> QED
    BY <2>1 DEF Sendable
<1>5. SentOf(msg, Append(script, step), streaming) = objs \o more
  <2> DEFINE ss == StepsOf(msg, script, streaming)
  <2>1. StepsOf(msg, Append(script, step), streaming) = Append(ss, more)
    BY DEF StepsOf
  <2>2. ss \in Seq(Seq(T))
    <3>1. \A k \in DOMAIN script : EventsOf(msg, k, script[k], streaming) \in Seq(T)
      <4>1. \A k \in DOMAIN script : k \in Nat /\ script[k] \in AgentStep
        OBVIOUS
      <4> HIDE DEF msg, streaming
      <4> QED
        BY <1>1, <4>1, EventsSendable
    <3> HIDE DEF T, msg, streaming
    <3> QED
      BY <3>1 DEF StepsOf
  <2> HIDE DEF ss, T, more, msg, streaming
  <2> QED
    BY <1>3, <2>1, <2>2, FlattensAppend DEF SentOf, objs, ss
<1> DEFINE all == objs \o more
<1>6. RelayAfter(Unseen, all) = after /\ KeptAfter(Nothing, all) = stored
  <2>1. KeptAfter(kept, more) = stored
    BY <1>1, StepKept
  <2> HIDE DEF T, objs, more, stored
  <2>2. RelayAfter(Unseen, objs \o more) = RelayAfter(RelayAfter(Unseen, objs), more)
    BY <1>2, <1>3, RelayConcat
  <2>3. KeptAfter(Nothing, objs \o more) = KeptAfter(KeptAfter(Nothing, objs), more)
    BY <1>2, <1>3, KeptConcat
  <2> QED
    BY <2>1, <2>2, <2>3
<1>7. all \in Seq(T)
  <2> HIDE DEF T, objs, more
  <2> QED
    BY <1>2, <1>3
<1>8. KeptOK(stored)
  <2> HIDE DEF ev, kept
  <2> QED
    BY <1>2, <1>4, StoredOK
<1>9. ASSUME \A k \in DOMAIN Append(script, step) : Repeats(Append(script, step)[k])
      PROVE  after.end # "none" \/ Agree(after, stored)
  <2>0. (seen.end # "none" \/ Agree(seen, kept)) /\ Repeats(step)
    BY <1>9, <1>21
  <2>1. CASE seen.end # "none"
    <3>1. after = seen
      <4> HIDE DEF more, seen, T
      <4> QED
        BY <1>3, <2>1, RelayIsOver
    <3> QED
      BY <2>1, <3>1
  <2>2. CASE Agree(seen, kept)
    <3>1. Quiet(seen)
      <4> HIDE DEF seen, kept
      <4> QED
        BY <1>2, <2>2 DEF Agree, Shows, Quiet, KeptOK, Reply
    <3> HIDE DEF seen
    <3>2. IF step.kind = "fail" THEN after.end = "error"
          ELSE Shows(after, seen.thoughts \o ev.thoughts, seen.words \o ev.words,
                     seen.chips \o Chip(ev), seen.usage + ev.usage, FALSE, FALSE)
      BY ZenonT(40), <1>1, <2>0, <3>1, StepTold
    <3> HIDE DEF after, ev, kept, msg, streaming, i
    <3>3. ASSUME step.kind # "fail" PROVE Agree(after, stored)
      <4>1. stored.pending = Turn("model", kept.pending.thoughts \o ev.thoughts,
                                  kept.pending.words \o ev.words, kept.pending.chips \o Chip(ev))
            /\ stored.calls = kept.calls + ev.usage
        BY <1>4, <3>3 DEF Stored
      <4>2. /\ seen.thoughts = kept.pending.thoughts /\ seen.words = kept.pending.words
            /\ seen.chips = kept.pending.chips /\ seen.usage = kept.calls
        BY <2>2 DEF Agree, Shows
      <4>3. Shows(after, seen.thoughts \o ev.thoughts, seen.words \o ev.words,
                  seen.chips \o Chip(ev), seen.usage + ev.usage, FALSE, FALSE)
        BY <3>2, <3>3
      <4>4. /\ stored.pending.thoughts = seen.thoughts \o ev.thoughts
            /\ stored.pending.words = seen.words \o ev.words
            /\ stored.pending.chips = seen.chips \o Chip(ev)
            /\ stored.calls = seen.usage + ev.usage
        <5> DEFINE t == kept.pending.thoughts \o ev.thoughts
                   w == kept.pending.words \o ev.words
                   x == kept.pending.chips \o Chip(ev)
        <5>1. stored.pending = Turn("model", t, w, x)
          BY <4>1
        <5>2. /\ t = seen.thoughts \o ev.thoughts /\ w = seen.words \o ev.words
              /\ x = seen.chips \o Chip(ev) /\ stored.calls = seen.usage + ev.usage
          BY <4>1, <4>2
        <5> HIDE DEF stored, t, w, x
        <5>3. stored.pending.thoughts = t /\ stored.pending.words = w /\ stored.pending.chips = x
          BY <5>1 DEF Turn
        <5> QED
          BY <5>2, <5>3
      <4> HIDE DEF stored
      <4> QED
        BY <4>3, <4>4 DEF Agree
    <3> QED
      BY <3>2, <3>3
  <2> QED
    BY <2>0, <2>1, <2>2
<1> HIDE DEF all, T, objs, more, stored, after, kept, seen
<1> QED
  BY <1>5, <1>6, <1>7, <1>8, <1>9 DEF AnswerAgrees, all, T

-----------------------------------------------------------------------------
(* A whole answer, streamed and buffered.                                  *)

\* Whatever the steps of an answer are, what is told of it is what is stored of it.
LEMMA AnswerAll ==
  ASSUME NEW msg \in Nat, NEW streaming \in BOOLEAN, NEW script \in Seq(AgentStep)
  PROVE  AnswerAgrees([turn |-> msg, streaming |-> streaming], script)
<1> DEFINE c == [turn |-> msg, streaming |-> streaming]
<1>1. c.turn = msg /\ c.streaming = streaming /\ c.turn \in Nat /\ c.streaming \in BOOLEAN
  OBVIOUS
<1> HIDE DEF c
<1>2. AnswerAgrees(c, <<>>)
  <2>1. SentOf(c.turn, <<>>, c.streaming) = <<>>
    <3>1. StepsOf(c.turn, <<>>, c.streaming) = <<>>
      BY DEF StepsOf
    <3>2. <<>> \in Seq(Seq({})) /\ <<>> \in Seq({})
      OBVIOUS
    <3> QED
      BY <3>1, <3>2, FlattensAppend DEF SentOf
  <2>2. RelayAfter(Unseen, <<>>) = Unseen /\ KeptAfter(Nothing, <<>>) = Nothing
    BY RelayEmpty, KeptEmpty
  <2>3. KeptOK(Nothing)
    <3>1. <<>> \in Seq(Piece) /\ <<>> \in Seq(Agents)
      OBVIOUS
    <3> QED
      BY <3>1 DEF KeptOK, Nothing, Silent, Turn, Reply
  <2>4. Agree(Unseen, Nothing)
    BY DEF Agree, Shows, Unseen, Nothing, Silent, Turn, Fields
  <2>5. <<>> \in Seq(Sendable(c.turn, c.streaming))
    OBVIOUS
  <2> QED
    BY <2>1, <2>2, <2>3, <2>4, <2>5 DEF AnswerAgrees
<1>3. ASSUME NEW s \in Seq(AgentStep), NEW e \in AgentStep, AnswerAgrees(c, s)
      PROVE  AnswerAgrees(c, Append(s, e))
  BY <1>1, <1>3, AnswerStep
<1>4. \A s \in Seq(AgentStep) : AnswerAgrees(c, s)
  BY LeastNumber, <1>2, <1>3, Answering!BySequence DEF Answering!WellOrdered
<1> QED
  BY <1>4 DEF c

-----------------------------------------------------------------------------
(* The buffered answer *)
ThoughtsIn(events) == [i \in DOMAIN events |-> events[i].thoughts]
\* The words, the chips and the usage of a list of events.
WordsIn(events) == [i \in DOMAIN events |-> events[i].words]
ChipsIn(events) == [i \in DOMAIN events |-> Chip(events[i])]
AddUsage(sum, ev) == sum + ev.usage
UsageIn(events) == FoldLeft(AddUsage, 0, events)

\* _aggregate tells what was stored, if there was no error.
AggregateAgrees(c, events) ==
  LET kept == KeptAfter(Nothing, events)
  IN /\ KeptOK(kept)
     /\ (\A i \in DOMAIN events : ~ events[i].error) =>
          /\ FlattenSeq(ThoughtsIn(events)) = kept.pending.thoughts
          /\ FlattenSeq(WordsIn(events)) = kept.pending.words
          /\ FlattenSeq(ChipsIn(events)) = kept.pending.chips
          /\ UsageIn(events) = kept.calls
\* This is proved by induction.
Adding == INSTANCE SequenceInduction WITH Step <- AddUsage, Holds <- AggregateAgrees

\* UsageIn is the fold of the induction: the usage of one event more.
LEMMA UsageIsFold ==
  ASSUME NEW events
  PROVE  UsageIn(events) = Adding!Fold(0, events)
BY DEF UsageIn, Adding!Fold, Adding!Folds, Adding!Greatest,
  FoldLeft, MapThenFoldSet, Max

LEMMA UsageAppend ==
  ASSUME NEW T, NEW events \in Seq(T), NEW ev \in T
  PROVE  UsageIn(<<>>) = 0 /\ UsageIn(Append(events, ev)) = UsageIn(events) + ev.usage
BY LeastNumber, UsageIsFold, Adding!FoldAppend, Adding!FoldEmpty DEF Adding!WellOrdered, AddUsage

\* _aggregate, with names for what it gathers.
LEMMA AggregateIs ==
  ASSUME NEW events
  PROVE  Aggregate(events) =
           IF \E i \in DOMAIN events : events[i].error THEN [Unseen EXCEPT !.end = "error"]
           ELSE [Unseen EXCEPT !.thoughts = FlattenSeq(ThoughtsIn(events)),
                               !.words = FlattenSeq(WordsIn(events)),
                               !.chips = FlattenSeq(ChipsIn(events)),
                               !.usage = UsageIn(events),
                               !.end = "done"]
<1>1. UsageIn(events) = FoldLeft(LAMBDA sum, ev : sum + ev.usage, 0, events)
  BY DEF UsageIn, AddUsage, FoldLeft, MapThenFoldSet
<1> QED
  BY <1>1 DEF Aggregate, ThoughtsIn, WordsIn, ChipsIn

\* One event more.
LEMMA AggregateStep ==
  ASSUME NEW c, NEW msg \in Nat, NEW events \in Seq(Sendable(msg, FALSE)),
         NEW ev \in Sendable(msg, FALSE),
         AggregateAgrees(c, events)
  PROVE  AggregateAgrees(c, Append(events, ev))
<1> DEFINE T == Sendable(msg, FALSE)
           all == Append(events, ev)
           kept == KeptAfter(Nothing, events)
           stored == Stored(kept, ev)
<1>0. events \in Seq(T)
  OBVIOUS
<1>1. ev \in Event /\ ev.partial = FALSE
  BY DEF Sendable, Event
<1>2. ev.thoughts \in Seq(Piece) /\ ev.words \in Seq(Piece) /\ Chip(ev) \in Seq(Agents)
  <2>1. ev.thoughts \in Seq(Piece) /\ ev.words \in Seq(Piece) /\ ev.to \in Agents
    BY <1>1 DEF Event
  <2> QED
    BY <2>1 DEF Chip
<1>3. \A e \in T : e.thoughts \in Seq(Piece) /\ e.words \in Seq(Piece) /\ Chip(e) \in Seq(Agents)
  <2> SUFFICES ASSUME NEW e \in T
    PROVE e.thoughts \in Seq(Piece) /\ e.words \in Seq(Piece) /\ Chip(e) \in Seq(Agents)
    OBVIOUS
  <2>1. e.thoughts \in Seq(Piece) /\ e.words \in Seq(Piece) /\ e.to \in Agents
    BY DEF Event, Sendable
  <2> QED
    BY <2>1 DEF Chip
<1>4. KeptAfter(Nothing, all) = stored
  BY KeptAppend
<1>5. KeptOK(kept)
  BY DEF AggregateAgrees
<1>6. KeptOK(stored)
  <2> HIDE DEF kept
  <2> QED
    BY <1>1, <1>5, StoredOK
<1>7. ASSUME \A i \in DOMAIN all : ~ all[i].error
      PROVE  /\ FlattenSeq(ThoughtsIn(all)) = stored.pending.thoughts
             /\ FlattenSeq(WordsIn(all)) = stored.pending.words
             /\ FlattenSeq(ChipsIn(all)) = stored.pending.chips
             /\ UsageIn(all) = stored.calls
  <2>1. (\A i \in DOMAIN events : ~ events[i].error) /\ ~ ev.error
    <3>1. \A i \in DOMAIN events : i \in DOMAIN all /\ all[i] = events[i]
      OBVIOUS
    <3>2. Len(events) + 1 \in DOMAIN all /\ all[Len(events) + 1] = ev
      OBVIOUS
    <3> HIDE DEF all
    <3> QED
      BY <1>7, <3>1, <3>2
  <2>2. /\ FlattenSeq(ThoughtsIn(events)) = kept.pending.thoughts
        /\ FlattenSeq(WordsIn(events)) = kept.pending.words
        /\ FlattenSeq(ChipsIn(events)) = kept.pending.chips
        /\ UsageIn(events) = kept.calls
    BY <2>1 DEF AggregateAgrees
  <2> DEFINE t == kept.pending.thoughts \o ev.thoughts
             w == kept.pending.words \o ev.words
             x == kept.pending.chips \o Chip(ev)
  <2>3. stored = [pending |-> Turn("model", t, w, x), calls |-> kept.calls + ev.usage]
    BY <1>1, <2>1 DEF Stored
  <2>4. stored.pending.thoughts = t /\ stored.pending.words = w /\ stored.pending.chips = x
        /\ stored.calls = kept.calls + ev.usage
    <3> HIDE DEF stored, t, w, x
    <3> QED
      BY <2>3 DEF Turn
  <2> HIDE DEF stored, T
  <2>5. FlattenSeq(ThoughtsIn(all)) = t
    <3> DEFINE ss == ThoughtsIn(events)
    <3>1. ss \in Seq(Seq(Piece))
      <4>1. DOMAIN events = 1 .. Len(events) /\ Len(events) \in Nat
        BY <1>0
      <4>2. \A i \in DOMAIN events : events[i].thoughts \in Seq(Piece)
        BY <1>0, <1>3
      <4>3. ss = [i \in 1 .. Len(events) |-> events[i].thoughts]
        BY <4>1 DEF ThoughtsIn
      <4> QED
        BY <4>1, <4>2, <4>3
    <3>2. ThoughtsIn(all) = Append(ss, ev.thoughts)
      BY DEF ThoughtsIn
    <3> HIDE DEF ss, all
    <3> QED
      BY <1>2, <2>2, <3>1, <3>2, FlattensAppend DEF ss
  <2>6. FlattenSeq(WordsIn(all)) = w
    <3> DEFINE ss == WordsIn(events)
    <3>1. ss \in Seq(Seq(Piece))
      <4>1. DOMAIN events = 1 .. Len(events) /\ Len(events) \in Nat
        BY <1>0
      <4>2. \A i \in DOMAIN events : events[i].words \in Seq(Piece)
        BY <1>0, <1>3
      <4>3. ss = [i \in 1 .. Len(events) |-> events[i].words]
        BY <4>1 DEF WordsIn
      <4> QED
        BY <4>1, <4>2, <4>3
    <3>2. WordsIn(all) = Append(ss, ev.words)
      BY DEF WordsIn
    <3> HIDE DEF ss, all
    <3> QED
      BY <1>2, <2>2, <3>1, <3>2, FlattensAppend DEF ss
  <2>7. FlattenSeq(ChipsIn(all)) = x
    <3> DEFINE ss == ChipsIn(events)
               chip == Chip(ev)
    <3>1. ss \in Seq(Seq(Agents))
      <4>1. DOMAIN events = 1 .. Len(events) /\ Len(events) \in Nat
        BY <1>0
      <4>2. \A i \in DOMAIN events : Chip(events[i]) \in Seq(Agents)
        BY <1>0, <1>3
      <4>3. ss = [i \in 1 .. Len(events) |-> Chip(events[i])]
        BY <4>1 DEF ChipsIn
      <4> QED
        BY <4>1, <4>2, <4>3
    <3>2. ChipsIn(all) = Append(ss, chip)
      BY DEF ChipsIn
    <3> HIDE DEF ss, all, chip
    <3> QED
      BY <1>2, <2>2, <3>1, <3>2, FlattensAppend DEF ss, chip
  <2>8. UsageIn(all) = stored.calls
    BY <2>2, <2>4, UsageAppend
  <2> QED
    BY <2>4, <2>5, <2>6, <2>7, <2>8
<1> QED
  BY <1>4, <1>6, <1>7 DEF AggregateAgrees

\* An answer that is not streamed and has no error is aggregated as it is stored.
LEMMA AggregateTold ==
  ASSUME NEW msg \in Nat, NEW events \in Seq(Sendable(msg, FALSE)),
         Aggregate(events).end # "error"
  PROVE  LET all == Aggregate(events)
             kept == KeptAfter(Nothing, events)
         IN /\ all.thoughts = kept.pending.thoughts /\ all.words = kept.pending.words
            /\ all.chips = kept.pending.chips /\ all.usage = kept.calls
<1>1. AggregateAgrees(msg, <<>>)
  <2>1. <<>> \in Seq(Piece) /\ <<>> \in Seq(Agents)
    OBVIOUS
  <2>2. KeptOK(Nothing)
    BY <2>1 DEF KeptOK, Nothing, Silent, Turn, Reply
  <2>3. ThoughtsIn(<<>>) = <<>> /\ WordsIn(<<>>) = <<>> /\ ChipsIn(<<>>) = <<>>
    BY DEF ThoughtsIn, WordsIn, ChipsIn
  <2>4. FlattenSeq(<<>>) = <<>>
    <3>1. <<>> \in Seq(Seq({})) /\ <<>> \in Seq({})
      OBVIOUS
    <3> QED
      BY <3>1, FlattensAppend
  <2>5. UsageIn(<<>>) = 0
    BY LeastNumber, UsageIsFold, Adding!FoldEmpty DEF Adding!WellOrdered
  <2> QED
    BY <2>2, <2>3, <2>4, <2>5, KeptEmpty DEF AggregateAgrees, Nothing, Silent, Turn
<1> DEFINE T == Sendable(msg, FALSE)
<1>2. ASSUME NEW s \in Seq(T), NEW e \in T, AggregateAgrees(msg, s)
      PROVE  AggregateAgrees(msg, Append(s, e))
  BY <1>2, AggregateStep
<1>3. AggregateAgrees(msg, events)
  <2>1. events \in Seq(T)
    OBVIOUS
  <2> HIDE DEF T
  <2>2. \A s \in Seq(T) : AggregateAgrees(msg, s)
    BY LeastNumber, <1>1, <1>2, Adding!BySequence DEF Adding!WellOrdered
  <2> QED
    BY <2>1, <2>2
<1>4. ~ \E i \in DOMAIN events : events[i].error
  BY AggregateIs DEF Unseen
<1>5. Aggregate(events) = [Unseen EXCEPT !.thoughts = FlattenSeq(ThoughtsIn(events)),
                               !.words = FlattenSeq(WordsIn(events)),
                               !.chips = FlattenSeq(ChipsIn(events)),
                               !.usage = UsageIn(events),
                               !.end = "done"]
  BY <1>4, AggregateIs
<1>6. LET all == Aggregate(events)
      IN /\ all.thoughts = FlattenSeq(ThoughtsIn(events))
            /\ all.words = FlattenSeq(WordsIn(events))
         /\ all.chips = FlattenSeq(ChipsIn(events)) /\ all.usage = UsageIn(events)
  BY <1>5 DEF Unseen
<1> QED
  BY <1>3, <1>4, <1>6 DEF AggregateAgrees

-----------------------------------------------------------------------------
(* The frames of the models.                                               *)

\* The frames of a model, and what has been told after a list of them.
ModelFrame == [words : Seq(Piece), usage : Nat, in : Nat, out : Nat]
FramesAfter(seen, objs) == FoldLeft(RelayFrame, seen, objs)
\* So many words were told, and these counts.
Framed(seen, n, usage, in, out) ==
  /\ DOMAIN seen = Fields /\ seen.end = "none"
  /\ seen.words \in Seq(Piece) /\ Len(seen.words) = n
  /\ seen.usage = usage /\ seen.in = in /\ seen.out = out

\* A count of zero leaves the count before it.
Latest(old, new) == IF new = 0 THEN old ELSE new

\* The frames of each model.
GeminiFrame(msg, k) == Frame(<<<<msg, 1, k>>>>, 1 + k, 0, 0)
AnthropicFrame(msg, k) == Frame(<<<<msg, 1, k>>>>, 0, 0, 0)
GeminiFrames(msg, n) == [k \in 1..n |-> GeminiFrame(msg, k)]
AnthropicFrames(msg, n) == [k \in 1..n |-> AnthropicFrame(msg, k)]
Opening == Frame(<<>>, 0, 1, 0)
\* What is told of the first n frames of each model.
GeminiTold(c, n) ==
  Framed(FramesAfter(Unseen, GeminiFrames(c, n)), n, IF n = 0 THEN 0 ELSE 1 + n, 0, 0)
AnthropicTold(c, n) ==
  Framed(FramesAfter(c.seen, AnthropicFrames(c.turn, n)), n, 0, 1, 0)

\* Both are proved by induction.
Gemini == INSTANCE SequenceInduction WITH Step <- RelayFrame, Holds <- GeminiTold
Anthropic == INSTANCE SequenceInduction WITH Step <- RelayFrame, Holds <- AnthropicTold

\* FramesAfter is the fold of the induction: what is told of no frame, of one more, and of
\* two lists of frames.
LEMMA FramesAreFold ==
  ASSUME NEW seen, NEW objs
  PROVE  FramesAfter(seen, objs) = Gemini!Fold(seen, objs)
BY DEF FramesAfter, Gemini!Fold, Gemini!Folds, Gemini!Greatest,
  FoldLeft, MapThenFoldSet, Max

LEMMA FramesEmpty ==
  ASSUME NEW seen
  PROVE  FramesAfter(seen, <<>>) = seen
BY LeastNumber, FramesAreFold, Gemini!FoldEmpty DEF Gemini!WellOrdered

LEMMA FramesAppend ==
  ASSUME NEW seen, NEW T, NEW objs \in Seq(T), NEW frame \in T
  PROVE  FramesAfter(seen, Append(objs, frame)) = RelayFrame(FramesAfter(seen, objs), frame)
BY LeastNumber, FramesAreFold, Gemini!FoldAppend DEF Gemini!WellOrdered

LEMMA FramesConcat ==
  ASSUME NEW seen, NEW T, NEW objs \in Seq(T), NEW more \in Seq(T)
  PROVE  FramesAfter(seen, objs \o more) = FramesAfter(FramesAfter(seen, objs), more)
BY LeastNumber, FramesAreFold, Gemini!FoldConcat DEF Gemini!WellOrdered

\* One frame.
LEMMA FrameTold ==
  ASSUME NEW seen, NEW n \in Nat, NEW usage \in Nat, NEW in \in Nat, NEW out \in Nat,
         Framed(seen, n, usage, in, out),
         NEW words \in Seq(Piece), NEW u \in Nat, NEW i \in Nat, NEW o \in Nat
  PROVE  Framed(RelayFrame(seen, Frame(words, u, i, o)), n + Len(words),
                Latest(usage, u), Latest(in, i), Latest(out, o))
<1> DEFINE w == seen.words \o words
           after == RelayFrame(seen, Frame(words, u, i, o))
<1>1. w \in Seq(Piece) /\ Len(w) = n + Len(words)
  BY DEF Framed
<1>2. after = [seen EXCEPT !.words = w,
                 !.usage = IF u = 0 THEN usage ELSE u,
                 !.in = IF i = 0 THEN in ELSE i,
                 !.out = IF o = 0 THEN out ELSE o]
  BY DEF RelayFrame, Frame, Framed
<1> HIDE DEF w, after
<1>3. /\ DOMAIN after = Fields /\ after.end = "none" /\ after.words = w
      /\ after.usage = IF u = 0 THEN usage ELSE u
      /\ after.in = IF i = 0 THEN in ELSE i
      /\ after.out = IF o = 0 THEN out ELSE o
  BY <1>2 DEF Framed, Fields
<1> QED
  BY <1>1, <1>3 DEF Framed, Latest, after

\* One frame more of Gemini.
LEMMA GeminiStep ==
  ASSUME NEW c \in Nat, NEW n \in Nat, GeminiTold(c, n)
  PROVE  GeminiTold(c, n + 1)
<1> DEFINE N == n + 1
           frame == GeminiFrame(c, N)
           T == {GeminiFrame(c, k) : k \in Nat}
           piece == <<<<c, 1, N>>>>
           seen == FramesAfter(Unseen, GeminiFrames(c, n))
           usage == IF n = 0 THEN 0 ELSE 1 + n
<1>0. N \in Nat /\ N = n + 1 /\ N # 0 /\ usage \in Nat /\ 1 + N \in Nat /\ 1 + N # 0
  OBVIOUS
<1>1. GeminiFrames(c, N) = Append(GeminiFrames(c, n), frame)
  BY DEF GeminiFrames
<1>2. GeminiFrames(c, n) \in Seq(T) /\ frame \in T
  BY DEF GeminiFrames
<1>3. FramesAfter(Unseen, GeminiFrames(c, N)) = RelayFrame(seen, frame)
  <2> HIDE DEF frame, T, N
  <2> QED
    BY <1>1, <1>2, FramesAppend
<1>4. piece \in Seq(Piece) /\ Len(piece) = 1
  <2>1. <<c, 1, N>> \in Piece
    BY <1>0 DEF Piece
  <2> QED
    BY <2>1
<1>5. Framed(seen, n, usage, 0, 0)
  BY DEF GeminiTold
<1>6. frame = Frame(piece, 1 + N, 0, 0)
  BY DEF GeminiFrame
<1> HIDE DEF frame, T, N, piece, seen, usage
<1>7. Framed(RelayFrame(seen, frame), n + Len(piece), 1 + N, 0, 0)
  <2> DEFINE u == 1 + N
  <2>1. u \in Nat /\ u # 0
    BY <1>0
  <2> HIDE DEF u
  <2>2. Framed(RelayFrame(seen, Frame(piece, u, 0, 0)), n + Len(piece),
               Latest(usage, u), Latest(0, 0), Latest(0, 0))
    BY <1>0, <1>4, <1>5, <2>1, FrameTold
  <2> QED
    BY <1>6, <2>1, <2>2 DEF u, Latest
<1>8. GeminiTold(c, N)
  BY <1>0, <1>3, <1>4, <1>7 DEF GeminiTold
<1> QED
  BY <1>8 DEF N

\* One frame more of Anthropic.
LEMMA AnthropicStep ==
  ASSUME NEW c, c.turn \in Nat, NEW n \in Nat, AnthropicTold(c, n)
  PROVE  AnthropicTold(c, n + 1)
<1> DEFINE N == n + 1
           frame == AnthropicFrame(c.turn, N)
           T == {AnthropicFrame(c.turn, k) : k \in Nat}
           piece == <<<<c.turn, 1, N>>>>
           seen == FramesAfter(c.seen, AnthropicFrames(c.turn, n))
<1>0. N \in Nat /\ N = n + 1 /\ N # 0
  OBVIOUS
<1>1. AnthropicFrames(c.turn, N) = Append(AnthropicFrames(c.turn, n), frame)
  BY DEF AnthropicFrames
<1>2. AnthropicFrames(c.turn, n) \in Seq(T) /\ frame \in T
  BY DEF AnthropicFrames
<1>3. FramesAfter(c.seen, AnthropicFrames(c.turn, N)) = RelayFrame(seen, frame)
  <2> HIDE DEF frame, T, N
  <2> QED
    BY <1>1, <1>2, FramesAppend
<1>4. piece \in Seq(Piece) /\ Len(piece) = 1
  <2>1. <<c.turn, 1, N>> \in Piece
    BY <1>0 DEF Piece
  <2> QED
    BY <2>1
<1>5. Framed(seen, n, 0, 1, 0)
  BY DEF AnthropicTold
<1>6. frame = Frame(piece, 0, 0, 0)
  BY DEF AnthropicFrame
<1> HIDE DEF frame, T, N, piece, seen
<1>7. Framed(RelayFrame(seen, frame), n + Len(piece), 0, 1, 0)
  <2>1. Framed(RelayFrame(seen, Frame(piece, 0, 0, 0)), n + Len(piece),
               Latest(0, 0), Latest(1, 0), Latest(0, 0))
    BY <1>4, <1>5, FrameTold
  <2> QED
    BY <1>6, <2>1 DEF Latest
<1>8. AnthropicTold(c, N)
  BY <1>0, <1>3, <1>4, <1>7 DEF AnthropicTold
<1> QED
  BY <1>8 DEF N

\* Before any frame.
LEMMA UnseenFramed == Framed(Unseen, 0, 0, 0, 0)
<1>1. <<>> \in Seq(Piece) /\ Len(<<>>) = 0
  OBVIOUS
<1> QED
  BY <1>1 DEF Framed, Unseen, Fields

\* `done` adds what went in and what came out, if they were told.
LEMMA DoneFramed ==
  ASSUME NEW seen, NEW n \in Nat, NEW usage \in Nat, NEW in \in Nat, NEW out \in Nat,
         Framed(seen, n, usage, in, out)
  PROVE  /\ Done(seen).usage = IF in # 0 \/ out # 0 THEN in + out ELSE usage
         /\ Len(Done(seen).words) = n /\ Done(seen).end = "done"
BY DEF Done, Framed, Fields

\* An answer of Gemini is told whole, with the usage of its last frame.
LEMMA GeminiDone ==
  ASSUME NEW msg \in Nat, NEW n \in Nat, n > 0
  PROVE  LET all == Done(FramesAfter(Unseen, GeminiFrames(msg, n)))
         IN all.usage = 1 + n /\ Len(all.words) = n
<1>1. GeminiTold(msg, 0)
  <2>1. GeminiFrames(msg, 0) = <<>>
    BY DEF GeminiFrames
  <2> QED
    BY <2>1, UnseenFramed, FramesEmpty DEF GeminiTold
<1>2. \A m \in Nat : GeminiTold(msg, m) => GeminiTold(msg, m + 1)
  BY GeminiStep
<1>3. \A m \in Nat : GeminiTold(msg, m)
  BY LeastNumber, <1>1, <1>2, Gemini!ByNumber DEF Gemini!WellOrdered
<1>4. Framed(FramesAfter(Unseen, GeminiFrames(msg, n)), n, 1 + n, 0, 0)
  BY <1>3 DEF GeminiTold
<1> DEFINE u == 1 + n
<1>5. u \in Nat
  OBVIOUS
<1> HIDE DEF u
<1> QED
  BY <1>4, <1>5, DoneFramed DEF u

\* An answer of Anthropic is told whole, with what went in and what came out.
LEMMA AnthropicDone ==
  ASSUME NEW msg \in Nat, NEW n \in Nat
  PROVE  LET all == Done(FramesAfter(Unseen, (<<Opening>> \o AnthropicFrames(msg, n))
         \o <<Frame(<<>>, 0, 0, n)>>))
         IN all.usage = 1 + n /\ Len(all.words) = n
<1> DEFINE opened == RelayFrame(Unseen, Opening)
           c == [seen |-> opened, turn |-> msg]
           parts == AnthropicFrames(msg, n)
           last == Frame(<<>>, 0, 0, n)
           T == {Opening, last} \cup {AnthropicFrame(msg, k) : k \in Nat}
<1>1. Framed(opened, 0, 0, 1, 0)
  <2> DEFINE w == <<>>
  <2>1. w \in Seq(Piece) /\ Len(w) = 0 /\ Opening = Frame(w, 0, 1, 0)
    BY DEF Opening
  <2> HIDE DEF w
  <2>2. Framed(RelayFrame(Unseen, Frame(w, 0, 1, 0)), 0 + Len(w), Latest(0, 0),
               Latest(0, 1), Latest(0, 0))
    <3>1. 0 \in Nat /\ 1 \in Nat /\ w \in Seq(Piece) /\ Framed(Unseen, 0, 0, 0, 0)
      BY <2>1, UnseenFramed
    <3> QED
      BY <3>1, FrameTold, Zenon
  <2> QED
    BY <2>1, <2>2 DEF Latest
<1>2. c.seen = opened /\ c.turn = msg
  OBVIOUS
<1> HIDE DEF c, opened
<1>3. AnthropicTold(c, 0)
  <2>1. AnthropicFrames(c.turn, 0) = <<>>
    BY DEF AnthropicFrames
  <2> QED
    BY <1>1, <1>2, <2>1, FramesEmpty DEF AnthropicTold
<1>4. \A m \in Nat : AnthropicTold(c, m) => AnthropicTold(c, m + 1)
  BY <1>2, AnthropicStep
<1>5. \A m \in Nat : AnthropicTold(c, m)
  BY LeastNumber, <1>3, <1>4, Anthropic!ByNumber DEF Anthropic!WellOrdered
<1>6. Framed(FramesAfter(opened, parts), n, 0, 1, 0)
  BY <1>2, <1>5 DEF AnthropicTold
<1>7. parts \in Seq(T) /\ <<Opening>> \in Seq(T) /\ last \in T
  BY DEF AnthropicFrames
<1> HIDE DEF parts, last, T
<1>8. FramesAfter(Unseen, <<Opening>>) = opened
  <2>1. <<>> \in Seq({Opening}) /\ Append(<<>>, Opening) = <<Opening>>
    OBVIOUS
  <2>2. FramesAfter(Unseen, Append(<<>>, Opening))
        = RelayFrame(FramesAfter(Unseen, <<>>), Opening)
    BY <2>1, FramesAppend
  <2> QED
    BY <2>1, <2>2, FramesEmpty DEF opened
<1>9. FramesAfter(Unseen, (<<Opening>> \o parts) \o <<last>>)
      = RelayFrame(FramesAfter(opened, parts), last)
  <2> DEFINE front == <<Opening>> \o parts
  <2>1. FramesAfter(Unseen, front) = FramesAfter(opened, parts)
    <3> DEFINE s == <<Opening>>
    <3>1. s \in Seq(T) /\ FramesAfter(Unseen, s) = opened
      BY <1>7, <1>8
    <3> HIDE DEF s
    <3>2. FramesAfter(Unseen, s \o parts) = FramesAfter(FramesAfter(Unseen, s), parts)
      BY <1>7, <3>1, FramesConcat
    <3> QED
      BY <3>1, <3>2 DEF s
  <2>2. front \in Seq(T)
    BY <1>7
  <2> HIDE DEF front
  <2>3. front \o <<last>> = Append(front, last)
    BY <1>7, <2>2
  <2>4. FramesAfter(Unseen, Append(front, last)) = RelayFrame(FramesAfter(Unseen, front), last)
    BY <1>7, <2>2, FramesAppend
  <2> QED
    BY <2>1, <2>3, <2>4 DEF front
<1>10. Framed(RelayFrame(FramesAfter(opened, parts), last), n, 0, 1, n)
  <2> DEFINE w == <<>>
             seen == FramesAfter(opened, parts)
  <2>1. w \in Seq(Piece) /\ Len(w) = 0 /\ last = Frame(w, 0, 0, n) /\ Framed(seen, n, 0, 1, 0)
    BY <1>6 DEF last
  <2> HIDE DEF seen, w
  <2>2. Framed(RelayFrame(seen, Frame(w, 0, 0, n)), n + Len(w), Latest(0, 0),
               Latest(1, 0), Latest(0, n))
    <3>1. 0 \in Nat /\ 1 \in Nat /\ w \in Seq(Piece) /\ Framed(seen, n, 0, 1, 0)
      BY <2>1
    <3> QED
      BY <3>1, FrameTold, Zenon
  <2> QED
    BY <2>1, <2>2 DEF seen, Latest
<1> DEFINE end == RelayFrame(FramesAfter(opened, parts), last)
<1> HIDE DEF end
<1>11. Done(end).usage = 1 + n /\ Len(Done(end).words) = n
  BY <1>10, DoneFramed DEF end
<1> QED
  BY <1>9, <1>11 DEF end, parts, last

-----------------------------------------------------------------------------
(* An answer read bit by bit.                                              *)

\* What a reader keeps of what it has seen: the fields, and the tokens counted so far by
\* a model when an agent answers.
RelayKeeps(c, objs) ==
  LET after == RelayAfter(c, objs)
  IN /\ DOMAIN after = Fields /\ after.in = c.in /\ after.out = c.out
     /\ c.end = "none" => after.end \in {"none", "error"}
\* The same of frames: they never end an answer.
FramesKeep(c, objs) ==
  LET after == FramesAfter(c, objs)
  IN DOMAIN after = Fields /\ after.end = c.end

\* Both are proved by induction.
KeepsRelay == INSTANCE SequenceInduction WITH Step <- Relay, Holds <- RelayKeeps
KeepsFrames == INSTANCE SequenceInduction WITH Step <- RelayFrame, Holds <- FramesKeep

\* One event.
LEMMA RelayKeepsOne ==
  ASSUME NEW seen, DOMAIN seen = Fields, NEW ev
  PROVE  LET after == Relay(seen, ev)
         IN /\ DOMAIN after = Fields /\ after.in = seen.in /\ after.out = seen.out
            /\ \/ after.end = seen.end
               \/ seen.end = "none" /\ after.end = "error"
<1> DEFINE thought == Show(seen, "thoughts", "sawThought", ev.thoughts, ev.rest.thoughts, ev.partial)
           told == Show(thought, "words", "sawText", ev.words, ev.rest.words, ev.partial)
           whole == [told EXCEPT !.chips = @ \o Chip(ev), !.usage = @ + ev.usage]
<1>1. Relay(seen, ev) =
        IF seen.end # "none" THEN seen
        ELSE IF ev.error THEN [seen EXCEPT !.end = "error"]
        ELSE IF ev.partial THEN told
        ELSE whole
  BY DEF Relay
<1>2. /\ DOMAIN thought = Fields /\ thought.in = seen.in /\ thought.out = seen.out
      /\ thought.end = seen.end
  BY DEF Show, Fields
<1> HIDE DEF thought
<1>3. DOMAIN told = Fields /\ told.in = seen.in /\ told.out = seen.out /\ told.end = seen.end
  BY <1>2 DEF Show, Fields
<1> HIDE DEF told
<1>4. /\ DOMAIN whole = Fields /\ whole.in = seen.in /\ whole.out = seen.out
      /\ whole.end = seen.end
  BY <1>3 DEF Fields
<1> HIDE DEF whole
<1> DEFINE failed == [seen EXCEPT !.end = "error"]
<1>5. /\ DOMAIN failed = Fields /\ failed.in = seen.in /\ failed.out = seen.out
      /\ failed.end = "error"
  BY DEF Fields
<1> HIDE DEF failed
<1>6. \/ Relay(seen, ev) \in {seen, told, whole}
      \/ seen.end = "none" /\ Relay(seen, ev) = failed
  BY <1>1 DEF failed
<1> QED
  BY <1>3, <1>4, <1>5, <1>6

\* A list of events.
LEMMA RelayKeepsAll ==
  ASSUME NEW seen, DOMAIN seen = Fields, NEW T, NEW objs \in Seq(T)
  PROVE  RelayKeeps(seen, objs)
<1>1. RelayKeeps(seen, <<>>)
  BY RelayEmpty DEF RelayKeeps
<1>2. ASSUME NEW s \in Seq(T), NEW e \in T, RelayKeeps(seen, s)
      PROVE  RelayKeeps(seen, Append(s, e))
  <2> DEFINE before == RelayAfter(seen, s)
  <2>1. /\ DOMAIN before = Fields /\ before.in = seen.in /\ before.out = seen.out
        /\ seen.end = "none" => before.end \in {"none", "error"}
    BY <1>2 DEF RelayKeeps
  <2>2. RelayAfter(seen, Append(s, e)) = Relay(before, e)
    BY RelayAppend
  <2> HIDE DEF before
  <2> QED
    BY <2>1, <2>2, RelayKeepsOne DEF RelayKeeps
<1>3. \A s \in Seq(T) : RelayKeeps(seen, s)
  BY LeastNumber, <1>1, <1>2, KeepsRelay!BySequence DEF KeepsRelay!WellOrdered
<1> QED
  BY <1>3

\* A list of frames.
LEMMA FramesKeepAll ==
  ASSUME NEW seen, DOMAIN seen = Fields, NEW T, NEW objs \in Seq(T)
  PROVE  FramesKeep(seen, objs)
<1>1. FramesKeep(seen, <<>>)
  BY FramesEmpty DEF FramesKeep
<1>2. ASSUME NEW s \in Seq(T), NEW e \in T, FramesKeep(seen, s)
      PROVE  FramesKeep(seen, Append(s, e))
  <2> DEFINE before == FramesAfter(seen, s)
  <2>1. DOMAIN before = Fields /\ before.end = seen.end
    BY <1>2 DEF FramesKeep
  <2>2. FramesAfter(seen, Append(s, e)) = RelayFrame(before, e)
    BY FramesAppend
  <2> HIDE DEF before
  <2>3. DOMAIN RelayFrame(before, e) = Fields /\ RelayFrame(before, e).end = before.end
    BY <2>1 DEF RelayFrame, Fields
  <2> QED
    BY <2>1, <2>2, <2>3 DEF FramesKeep
<1>3. \A s \in Seq(T) : FramesKeep(seen, s)
  BY LeastNumber, <1>1, <1>2, KeepsFrames!BySequence DEF KeepsFrames!WellOrdered
<1> QED
  BY <1>3

-----------------------------------------------------------------------------
(* Either kind of answer.                                                  *)

\* RelayAll, of a model's answer and of an agent's.
LEMMA RelayAllIs ==
  ASSUME NEW seen, NEW script, NEW objs
  PROVE  RelayAll(seen, script, objs) =
           IF Direct(script) THEN FramesAfter(seen, objs) ELSE RelayAfter(seen, objs)
BY DEF RelayAll, FramesAfter, RelayAfter

\* An answer may be read bit by bit.
LEMMA RelayAllConcat ==
  ASSUME NEW seen, NEW script, NEW T, NEW objs \in Seq(T), NEW more \in Seq(T)
  PROVE  /\ RelayAll(seen, script, <<>>) = seen
         /\ RelayAll(seen, script, objs \o more) =
              RelayAll(RelayAll(seen, script, objs), script, more)
<1>1. CASE Direct(script)
  BY <1>1, RelayAllIs, FramesEmpty, FramesConcat
<1>2. CASE ~ Direct(script)
  BY <1>2, RelayAllIs, RelayEmpty, RelayConcat
<1> QED
  BY <1>1, <1>2

\* What is told keeps its fields, and can only end with an error.
LEMMA RelayAllKeeps ==
  ASSUME NEW seen, DOMAIN seen = Fields, NEW script, NEW T, NEW objs \in Seq(T)
  PROVE  LET after == RelayAll(seen, script, objs)
         IN /\ DOMAIN after = Fields
            /\ seen.end = "none" => after.end \in {"none", "error"}
            /\ ~ Direct(script) => after.in = seen.in /\ after.out = seen.out
<1>1. CASE Direct(script)
  BY <1>1, RelayAllIs, FramesKeepAll DEF FramesKeep
<1>2. CASE ~ Direct(script)
  BY <1>2, RelayAllIs, RelayKeepsAll DEF RelayKeeps
<1> QED
  BY <1>1, <1>2

\* An answer is of one model, or of agents.
LEMMA ScriptKinds ==
  ASSUME NEW script \in Scripts
  PROVE  IF Direct(script) THEN ModelScript(script)
         ELSE script \in Seq(AgentStep) /\ script # <<>>
<1>1. CASE script \in Seq(AgentStep) /\ script # <<>>
  <2>1. script[1] \in AgentStep
    BY <1>1
  <2>2. ~ Direct(script)
    BY <2>1 DEF Direct, AgentStep
  <2> QED
    BY <1>1, <2>2
<1>2. CASE ModelScript(script)
  BY <1>2 DEF ModelScript, Direct
<1> QED
  BY <1>1, <1>2, ScriptsAssumption

\* A model's answer: as many words as it says, and the tokens of the question and of them.
LEMMA DirectAnswer ==
  ASSUME NEW msg \in Nat, NEW script \in Scripts, Direct(script), NEW streaming
  PROVE  LET objs == Sent(msg, script, streaming)
             all == Done(RelayAll(Unseen, script, objs))
         IN /\ \E T : objs \in Seq(T)
            /\ all.usage = 1 + script[1].words /\ Len(all.words) = script[1].words
<1> DEFINE step == script[1]
           n == step.words
<1>1. /\ step.kind \in {"gemini", "anthropic"} /\ n \in Nat
      /\ step.kind = "gemini" => n > 0
  BY ScriptKinds DEF ModelScript
<1>2. Sent(msg, script, streaming) = FramesOf(msg, step)
  BY DEF Sent
<1> HIDE DEF step, n
<1>3. CASE step.kind = "gemini"
  <2>1. FramesOf(msg, step) = GeminiFrames(msg, n)
    BY <1>3 DEF FramesOf, GeminiFrames, GeminiFrame, n
  <2>2. GeminiFrames(msg, n) \in Seq({GeminiFrame(msg, k) : k \in Nat})
    BY <1>1 DEF GeminiFrames
  <2>3. LET all == Done(FramesAfter(Unseen, GeminiFrames(msg, n)))
        IN all.usage = 1 + n /\ Len(all.words) = n
    BY <1>1, <1>3, GeminiDone
  <2>4. RelayAll(Unseen, script, GeminiFrames(msg, n)) =
          FramesAfter(Unseen, GeminiFrames(msg, n))
    BY RelayAllIs
  <2> QED
    BY <1>2, <2>1, <2>2, <2>3, <2>4 DEF step, n
<1>4. CASE step.kind # "gemini"
  <2> DEFINE T == {Opening, Frame(<<>>, 0, 0, n)} \cup {AnthropicFrame(msg, k) : k \in Nat}
             parts == AnthropicFrames(msg, n)
             objs == (<<Opening>> \o parts) \o <<Frame(<<>>, 0, 0, n)>>
  <2>1. FramesOf(msg, step) = objs
    BY <1>4 DEF FramesOf, AnthropicFrames, AnthropicFrame, Opening, n
  <2>2. parts \in Seq(T)
    BY <1>1 DEF AnthropicFrames
  <2>3. objs \in Seq(T)
    <3> HIDE DEF parts
    <3> QED
      BY <2>2
  <2> HIDE DEF T
  <2>4. LET all == Done(FramesAfter(Unseen, objs))
        IN all.usage = 1 + n /\ Len(all.words) = n
    BY <1>1, AnthropicDone
  <2> HIDE DEF objs
  <2> QED
    BY <1>2, <2>1, <2>3, <2>4, RelayAllIs DEF step, n
<1> QED
  BY <1>3, <1>4

\* An agent's answer, streamed or not: told as it is stored, unless a hop failed, if what
\* is streamed is repeated in one part.
LEMMA AgentAnswer ==
  ASSUME NEW msg \in Nat, NEW script \in Scripts, ~ Direct(script), NEW streaming \in BOOLEAN
  PROVE  LET objs == Sent(msg, script, streaming)
             seen == RelayAll(Unseen, script, objs)
             kept == KeptAfter(Nothing, objs)
         IN /\ objs \in Seq(Sendable(msg, streaming)) /\ KeptOK(kept)
            /\ RepeatedInOnePart /\ seen.end = "none" =>
                 Agree(seen, kept) /\ seen.in = 0 /\ seen.out = 0
<1> DEFINE objs == Sent(msg, script, streaming)
           T == Sendable(msg, streaming)
<1>1. objs = SentOf(msg, script, streaming)
  BY DEF Sent, SentOf, StepsOf
<1>2. script \in Seq(AgentStep)
  BY ScriptKinds
<1>3. AnswerAgrees([turn |-> msg, streaming |-> streaming], script)
  BY <1>2, AnswerAll
<1>4. /\ objs \in Seq(T) /\ KeptOK(KeptAfter(Nothing, objs))
      /\ RepeatedInOnePart =>
           \/ RelayAfter(Unseen, objs).end # "none"
           \/ Agree(RelayAfter(Unseen, objs), KeptAfter(Nothing, objs))
  BY <1>1, <1>3 DEF AnswerAgrees, RepeatedInOnePart
<1> HIDE DEF objs, T
<1>5. RelayAll(Unseen, script, objs) = RelayAfter(Unseen, objs)
  BY RelayAllIs
<1>6. RelayAll(Unseen, script, objs).in = 0 /\ RelayAll(Unseen, script, objs).out = 0
  <2>1. DOMAIN Unseen = Fields /\ Unseen.in = 0 /\ Unseen.out = 0
    BY DEF Unseen, Fields
  <2> QED
    BY <1>4, <2>1, RelayAllKeeps
<1> QED
  BY <1>4, <1>5, <1>6 DEF objs, T

-----------------------------------------------------------------------------
(* The replay of what is stored.                                           *)

\* The turns of a history, and _events_to_turns half way: the turns it has put out and the
\* one that it has not.
TurnShown == [role : {"user", "model"}, thoughts : Seq(Piece), words : Seq(Piece),
  chips : Seq(Agents)]
Start == [turns |-> <<>>, pending |-> Silent]
Acc(events) == FoldLeft(Replayed, Start, events)
AccOK(acc) ==
  DOMAIN acc = {"turns", "pending"} /\ acc.turns \in Seq(TurnShown) /\ acc.pending \in Reply

\* The turn that replays message n.
Message(n) == Turn("user", <<>>, <<<<n>>>>, <<>>)

\* Every turn of the user is a message that was stored.
ReplayTyped(c, events) ==
  /\ AccOK(Acc(events))
  /\ \A j \in DOMAIN Acc(events).turns :
       Acc(events).turns[j].role = "user" =>
         \E k \in DOMAIN events : Acc(events).turns[j] = Message(events[k].turn)

\* This is proved by induction over the events stored.
Replays == INSTANCE SequenceInduction WITH Step <- Replayed, Holds <- ReplayTyped

\* Acc is the fold of the induction: the replay of no event, and of one more.
LEMMA AccIsFold ==
  ASSUME NEW events
  PROVE  Acc(events) = Replays!Fold(Start, events)
BY DEF Acc, Replays!Fold, Replays!Folds, Replays!Greatest,
  FoldLeft, MapThenFoldSet, Max

LEMMA AccAppend ==
  ASSUME NEW T, NEW events \in Seq(T), NEW ev \in T
  PROVE  Acc(<<>>) = Start /\ Acc(Append(events, ev)) = Replayed(Acc(events), ev)
BY LeastNumber, AccIsFold, Replays!FoldEmpty, Replays!FoldAppend DEF Replays!WellOrdered

\* The turn of a message.
LEMMA MessageFields ==
  ASSUME NEW n
  PROVE  /\ Message(n).role = "user" /\ Message(n).words = <<<<n>>>>
         /\ n \in Nat => Message(n) \in TurnShown
<1>1. Message(n).role = "user" /\ Message(n).words = <<<<n>>>>
  BY DEF Message, Turn
<1>2. ASSUME n \in Nat PROVE Message(n) \in TurnShown
  <2>1. <<n>> \in Piece
    BY <1>2 DEF Piece
  <2>2. <<<<n>>>> \in Seq(Piece) /\ <<>> \in Seq(Piece) /\ <<>> \in Seq(Agents)
    BY <2>1
  <2> DEFINE w == <<<<n>>>>
  <2> HIDE DEF w
  <2>3. Turn("user", <<>>, w, <<>>) \in TurnShown
    BY <2>2 DEF Turn, TurnShown, w
  <2> QED
    BY <2>3 DEF Message, w
<1> QED
  BY <1>1, <1>2

\* Different messages are different turns.
LEMMA MessagesDiffer ==
  ASSUME NEW n \in Nat, NEW m \in Nat, Message(n) = Message(m)
  PROVE  n = m
<1>1. <<<<n>>>> = <<<<m>>>>
  BY MessageFields
<1>2. <<n>> = <<m>>
  <2> DEFINE x == <<n>>
             y == <<m>>
  <2>1. <<x>> = <<y>>
    BY <1>1
  <2> HIDE DEF x, y
  <2>2. x = y
    BY <2>1
  <2> QED
    BY <2>2 DEF x, y
<1> QED
  BY <1>2

\* What flushing leaves.
LEMMA FlushIs ==
  ASSUME NEW acc, AccOK(acc)
  PROVE  /\ Flush(acc) = [turns |-> Flush(acc).turns, pending |-> Silent]
         /\ Flush(acc).turns \in Seq(TurnShown)
         /\ IF acc.pending = Silent THEN Flush(acc).turns = acc.turns
            ELSE Flush(acc).turns = Append(acc.turns, acc.pending)
<1> DEFINE turns == IF acc.pending = Silent THEN acc.turns ELSE Append(acc.turns, acc.pending)
<1>1. Flush(acc) = [turns |-> turns, pending |-> Silent]
  BY DEF Flush
<1>2. acc.turns \in Seq(TurnShown) /\ acc.pending \in TurnShown
  BY DEF AccOK, Reply, TurnShown
<1>3. turns \in Seq(TurnShown)
  BY <1>2
<1>4. Flush(acc).turns = turns
  <2> HIDE DEF turns
  <2> QED
    BY <1>1
<1> QED
  BY <1>1, <1>3, <1>4

\* Silence is a reply.
LEMMA SilentReply == Silent \in Reply /\ Silent.role = "model"
<1>1. <<>> \in Seq(Piece) /\ <<>> \in Seq(Agents)
  OBVIOUS
<1> QED
  BY <1>1 DEF Silent, Turn, Reply

\* A message ends the turn of the model and begins one of the user.
LEMMA ReplayedMessage ==
  ASSUME NEW acc, AccOK(acc), NEW ev \in Event, IsMessage(ev)
  PROVE  /\ AccOK(Replayed(acc, ev)) /\ Replayed(acc, ev).pending = Silent
         /\ Replayed(acc, ev).turns = Append(Flush(acc).turns, Message(ev.turn))
<1>1. ev.words = <<<<ev.turn>>>> /\ ev.turn \in Nat
  BY DEF Event, IsEvent
<1> DEFINE turns == Flush(acc).turns
           m == Turn("user", <<>>, ev.words, <<>>)
           more == Append(turns, m)
<1>2. m = Message(ev.turn)
  BY <1>1 DEF Message
<1>3. turns \in Seq(TurnShown) /\ Flush(acc) = [turns |-> turns, pending |-> Silent]
  BY FlushIs
<1>4. m \in TurnShown
  BY <1>1, <1>2, MessageFields
<1> HIDE DEF turns, m
<1>5. more \in Seq(TurnShown)
  BY <1>3, <1>4
<1>6. Replayed(acc, ev) = [Flush(acc) EXCEPT !.turns = Append(@, m)]
  BY DEF Replayed, m
<1>7. Replayed(acc, ev) = [turns |-> more, pending |-> Silent]
  <2> DEFINE flushed == Flush(acc)
  <2>1. flushed = [turns |-> turns, pending |-> Silent]
    BY <1>3
  <2> HIDE DEF flushed
  <2>2. flushed.turns = turns /\ DOMAIN flushed = {"turns", "pending"} /\ flushed.pending = Silent
    BY <2>1
  <2>3. [flushed EXCEPT !.turns = Append(@, m)] = [flushed EXCEPT !.turns = more]
    BY <2>2
  <2> HIDE DEF more
  <2>4. [flushed EXCEPT !.turns = more] = [turns |-> more, pending |-> Silent]
    BY <2>1
  <2> QED
    BY <1>6, <2>3, <2>4 DEF flushed
<1> DEFINE after == Replayed(acc, ev)
<1> HIDE DEF more, after
<1>8. DOMAIN after = {"turns", "pending"} /\ after.turns = more /\ after.pending = Silent
  BY <1>7 DEF after
<1> QED
  BY <1>2, <1>5, <1>8, SilentReply DEF AccOK, after, more, turns

\* Anything else is of the turn of the model.
LEMMA ReplayedOther ==
  ASSUME NEW acc, AccOK(acc), NEW ev \in Event, ~ IsMessage(ev)
  PROVE  /\ AccOK(Replayed(acc, ev)) /\ Replayed(acc, ev).turns = acc.turns
         /\ Replayed(acc, ev).pending =
              Turn("model", acc.pending.thoughts \o ev.thoughts, acc.pending.words \o ev.words,
                   acc.pending.chips \o Chip(ev))
<1>1. ev.thoughts \in Seq(Piece) /\ ev.words \in Seq(Piece) /\ ev.to \in Agents
  BY DEF Event
<1>2. Chip(ev) \in Seq(Agents)
  BY <1>1 DEF Chip
<1> DEFINE p == acc.pending
           t == p.thoughts \o ev.thoughts
           w == p.words \o ev.words
           c == p.chips \o Chip(ev)
<1>3. p.thoughts \in Seq(Piece) /\ p.words \in Seq(Piece) /\ p.chips \in Seq(Agents)
  BY DEF AccOK, Reply
<1>4. t \in Seq(Piece) /\ w \in Seq(Piece) /\ c \in Seq(Agents)
  <2> HIDE DEF p
  <2>1. t \in Seq(Piece)
    BY <1>1, <1>3
  <2>2. w \in Seq(Piece)
    BY <1>1, <1>3
  <2>3. c \in Seq(Agents)
    BY <1>2, <1>3
  <2> QED
    BY <2>1, <2>2, <2>3
<1>5. Replayed(acc, ev) = [acc EXCEPT !.pending = Turn("model", t, w, c)]
  BY DEF Replayed
<1> DEFINE after == Replayed(acc, ev)
<1>6. Turn("model", t, w, c) \in Reply
  <2> HIDE DEF t, w, c
  <2> QED
    BY <1>4 DEF Turn, Reply
<1> HIDE DEF t, w, c, after
<1>7. /\ DOMAIN after = {"turns", "pending"} /\ after.turns = acc.turns
      /\ after.pending = Turn("model", t, w, c)
  BY <1>5 DEF after, AccOK
<1> QED
  BY <1>6, <1>7 DEF AccOK, after, t, w, c

\* A session replays to turns, and the user's are the messages it stored.
LEMMA ReplayIsTyped ==
  ASSUME NEW events \in Seq(Event)
  PROVE  ReplayTyped(0, events)
<1>1. ReplayTyped(0, <<>>)
  <2>1. Acc(<<>>) = Start
    BY LeastNumber, AccIsFold, Replays!FoldEmpty DEF Replays!WellOrdered
  <2>2. AccOK(Start) /\ DOMAIN Start.turns = {}
    BY SilentReply DEF Start, AccOK
  <2> QED
    BY <2>1, <2>2 DEF ReplayTyped
<1>2. ASSUME NEW s \in Seq(Event), NEW e \in Event, ReplayTyped(0, s)
      PROVE  ReplayTyped(0, Append(s, e))
  <2> DEFINE acc == Acc(s)
             all == Append(s, e)
             after == Acc(all)
  <2>1. after = Replayed(acc, e)
    BY AccAppend
  <2>2. AccOK(acc)
    BY <1>2 DEF ReplayTyped
  <2>3. /\ \A k \in DOMAIN s : k \in DOMAIN all /\ all[k] = s[k]
        /\ Len(s) + 1 \in DOMAIN all /\ all[Len(s) + 1] = e
    OBVIOUS
  <2>4. \A j \in DOMAIN acc.turns : acc.turns[j].role = "user" =>
          \E k \in DOMAIN all : acc.turns[j] = Message(all[k].turn)
    BY <1>2, <2>3 DEF ReplayTyped
  <2> HIDE DEF acc, after, all
  <2>5. CASE IsMessage(e)
    <3> DEFINE turns == Flush(acc).turns
    <3>1. /\ AccOK(after) /\ after.turns = Append(turns, Message(e.turn))
          /\ turns \in Seq(TurnShown)
          /\ IF acc.pending = Silent THEN turns = acc.turns
             ELSE turns = Append(acc.turns, acc.pending)
      BY <2>1, <2>2, <2>5, ReplayedMessage, FlushIs
    <3>2. acc.turns \in Seq(TurnShown) /\ acc.pending.role = "model"
      BY <2>2 DEF AccOK, Reply
    <3> HIDE DEF turns
    <3>3. \A j \in DOMAIN turns : \/ j \in DOMAIN acc.turns /\ turns[j] = acc.turns[j]
                                 \/ turns[j].role = "model"
      <4>1. CASE turns = acc.turns
        BY <4>1
      <4>2. CASE turns = Append(acc.turns, acc.pending)
        <5> DEFINE old == acc.turns
                   p == acc.pending
        <5>1. old \in Seq(TurnShown) /\ p.role = "model" /\ turns = Append(old, p)
          BY <3>2, <4>2
        <5> HIDE DEF old, p
        <5>2. \A j \in DOMAIN turns : (j \in DOMAIN old /\ turns[j] = old[j]) \/ turns[j] = p
          BY <5>1
        <5> QED
          BY <5>1, <5>2 DEF old
      <4> QED
        BY <3>1, <4>1, <4>2
    <3> DEFINE m == Message(e.turn)
    <3> HIDE DEF m
    <3>4. \A j \in DOMAIN after.turns : \/ j \in DOMAIN turns /\ after.turns[j] = turns[j]
                                       \/ after.turns[j] = m
      BY <3>1 DEF m
    <3>5. ASSUME NEW j \in DOMAIN after.turns, after.turns[j].role = "user"
          PROVE  \E k \in DOMAIN all : after.turns[j] = Message(all[k].turn)
      <4>1. CASE after.turns[j] = m
        BY <2>3, <4>1 DEF m
      <4>2. CASE j \in DOMAIN turns /\ after.turns[j] = turns[j]
        BY <2>4, <3>3, <3>5, <4>2
      <4> QED
        BY <3>4, <4>1, <4>2
    <3> QED
      BY <3>1, <3>5 DEF ReplayTyped, after, all
  <2>6. CASE ~ IsMessage(e)
    <3>1. AccOK(after) /\ after.turns = acc.turns
      BY <2>1, <2>2, <2>6, ReplayedOther
    <3> QED
      BY <2>4, <3>1 DEF ReplayTyped, after, all
  <2> QED
    BY <2>5, <2>6 DEF all
<1>3. \A s \in Seq(Event) : ReplayTyped(0, s)
  BY LeastNumber, <1>1, <1>2, Replays!BySequence DEF Replays!WellOrdered
<1> QED
  BY <1>3

-----------------------------------------------------------------------------
(* What the history answers to a message.                                  *)

\* The model turn that follows, if it is one.
Following(turns, i) ==
  IF i < Len(turns) /\ turns[i + 1].role = "model" THEN turns[i + 1] ELSE Silent

\* Message n is replayed once, and answered by a reply ...
Answered(turns, n, reply) ==
  \E i \in DOMAIN turns :
    /\ turns[i] = Message(n) /\ \A j \in DOMAIN turns : turns[j] = Message(n) => j = i
    /\ reply = Following(turns, i)
\* ... which is the turn not yet flushed when the message is the last one.
Answers(acc, n, reply) ==
  \E i \in DOMAIN acc.turns :
    /\ acc.turns[i] = Message(n)
    /\ \A j \in DOMAIN acc.turns : acc.turns[j] = Message(n) => j = i
    /\ reply = IF i = Len(acc.turns) THEN acc.pending ELSE Following(acc.turns, i)
\* The message is the last thing replayed: what is stored next answers it.
Asking(acc, n) == acc.turns # <<>> /\ acc.turns[Len(acc.turns)] = Message(n)

\* When the history ends, the turn not yet put out is put out.
LEMMA FlushAnswers ==
  ASSUME NEW acc, AccOK(acc), NEW n, NEW reply, Answers(acc, n, reply)
  PROVE  Answered(Flush(acc).turns, n, reply)
<1> DEFINE old == acc.turns
           p == acc.pending
           turns == Flush(acc).turns
           m == Message(n)
<1>1. old \in Seq(TurnShown) /\ p.role = "model"
  BY DEF AccOK, Reply
<1>2. IF p = Silent THEN turns = old ELSE turns = Append(old, p)
  BY FlushIs
<1>3. m # p
  BY <1>1, MessageFields
<1>4. PICK i \in DOMAIN old :
        /\ old[i] = m /\ \A j \in DOMAIN old : old[j] = m => j = i
        /\ reply = IF i = Len(old) THEN p ELSE Following(old, i)
  BY DEF Answers
<1> HIDE DEF old, p, turns, m
<1>5. i \in 1 .. Len(old) /\ Len(old) \in Nat /\ DOMAIN old = 1 .. Len(old)
  BY <1>1, <1>4
<1>6. CASE p = Silent
  <2>1. turns = old
    BY <1>2, <1>6
  <2>2. reply = Following(turns, i)
    BY <1>4, <1>5, <1>6, <2>1 DEF Following
  <2> QED
    BY <1>4, <2>1, <2>2 DEF Answered, turns, m
<1>7. CASE p # Silent
  <2>1. /\ turns = Append(old, p) /\ Len(turns) = Len(old) + 1
        /\ DOMAIN turns = 1 .. Len(old) + 1 /\ turns[Len(old) + 1] = p
        /\ \A j \in DOMAIN old : turns[j] = old[j]
    BY <1>1, <1>2, <1>7
  <2>2. i \in DOMAIN turns /\ turns[i] = m
    BY <1>4, <1>5, <2>1
  <2>3. \A j \in DOMAIN turns : j \in DOMAIN old \/ j = Len(old) + 1
    BY <1>5, <2>1
  <2>4. \A j \in DOMAIN turns : turns[j] = m => j = i
    BY <1>3, <1>4, <2>1, <2>3
  <2>5. reply = Following(turns, i)
    <3>1. CASE i = Len(old)
      BY <1>1, <1>4, <1>5, <2>1, <3>1 DEF Following
    <3>2. CASE i # Len(old)
      <4>1. i + 1 \in DOMAIN old /\ turns[i + 1] = old[i + 1] /\ i < Len(old) /\ i < Len(turns)
        BY <1>5, <2>1, <3>2
      <4> QED
        BY <1>4, <3>2, <4>1 DEF Following
    <3> QED
      BY <3>1, <3>2
  <2> QED
    BY <2>2, <2>4, <2>5 DEF Answered, turns, m
<1> QED
  BY <1>6, <1>7

\* What get_session_history makes of a message that was answered.
LEMMA ReplayOfAnswered ==
  ASSUME NEW s, NEW n, NEW reply, AccOK(Acc(sessions[s].events)),
         Answers(Acc(sessions[s].events), n, reply)
  PROVE  ReplayOf(s, n) = reply
<1> DEFINE turns == EventsToTurns(sessions[s].events)
           asked == CHOOSE i \in DOMAIN turns : turns[i] = Message(n)
<1>1. turns = Flush(Acc(sessions[s].events)).turns
  BY DEF EventsToTurns, Acc, Start
<1>2. Answered(turns, n, reply)
  BY <1>1, FlushAnswers
<1>3. ReplayOf(s, n) = Following(turns, asked)
  BY DEF ReplayOf, Following, Message
<1> HIDE DEF turns
<1>4. PICK i \in DOMAIN turns :
        /\ turns[i] = Message(n) /\ \A j \in DOMAIN turns : turns[j] = Message(n) => j = i
        /\ reply = Following(turns, i)
  BY <1>2 DEF Answered
<1>5. asked = i
  BY <1>4
<1> QED
  BY <1>3, <1>4, <1>5

\* A later message leaves the answer as it is.
LEMMA MessageAnswers ==
  ASSUME NEW acc, AccOK(acc), NEW n \in Nat, NEW reply, Answers(acc, n, reply),
         NEW ev \in Event, IsMessage(ev), ev.turn # n
  PROVE  Answers(Replayed(acc, ev), n, reply)
<1> DEFINE turns == Flush(acc).turns
           after == Replayed(acc, ev)
           new == after.turns
           other == Message(ev.turn)
           m == Message(n)
<1>1. Answered(turns, n, reply) /\ turns \in Seq(TurnShown) /\ new = Append(turns, other)
  BY FlushAnswers, FlushIs, ReplayedMessage
<1>2. ev.turn \in Nat
  BY DEF Event, IsEvent
<1>3. other # m /\ other.role = "user"
  BY <1>2, MessagesDiffer, MessageFields
<1>4. PICK i \in DOMAIN turns :
        /\ turns[i] = m /\ \A j \in DOMAIN turns : turns[j] = m => j = i
        /\ reply = Following(turns, i)
  BY <1>1 DEF Answered
<1> HIDE DEF turns, other, m, new
<1>5. /\ i \in 1 .. Len(turns) /\ Len(turns) \in Nat /\ DOMAIN turns = 1 .. Len(turns)
      /\ DOMAIN new = 1 .. Len(turns) + 1 /\ Len(new) = Len(turns) + 1
      /\ new[Len(turns) + 1] = other /\ \A j \in DOMAIN turns : new[j] = turns[j]
  BY <1>1
<1>6. i \in DOMAIN new /\ new[i] = m /\ i # Len(new)
  BY <1>4, <1>5
<1>7. \A j \in DOMAIN new : j \in DOMAIN turns \/ j = Len(turns) + 1
  BY <1>5
<1>8. \A j \in DOMAIN new : new[j] = m => j = i
  BY <1>3, <1>4, <1>5, <1>7
<1>9. reply = Following(new, i)
  <2>1. CASE i = Len(turns)
    <3>1. reply = Silent
      BY <1>4, <1>5, <2>1 DEF Following
    <3>2. new[i + 1].role # "model"
      BY <1>3, <1>5, <2>1
    <3> QED
      BY <3>1, <3>2 DEF Following
  <2>2. CASE i # Len(turns)
    <3>1. i + 1 \in DOMAIN turns /\ new[i + 1] = turns[i + 1] /\ i < Len(turns) /\ i < Len(new)
      BY <1>5, <2>2
    <3> QED
      BY <1>4, <3>1 DEF Following
  <2> QED
    BY <2>1, <2>2
<1> QED
  BY <1>6, <1>8, <1>9 DEF Answers, new, m

\* Neither does what is stored under a later message.
LEMMA OtherAnswers ==
  ASSUME NEW acc, AccOK(acc), NEW n, NEW reply, Answers(acc, n, reply),
         NEW ev \in Event, ~ IsMessage(ev), ~ Asking(acc, n)
  PROVE  Answers(Replayed(acc, ev), n, reply)
<1> DEFINE after == Replayed(acc, ev)
<1>1. after.turns = acc.turns /\ acc.turns \in Seq(TurnShown)
  BY ReplayedOther DEF AccOK
<1> HIDE DEF after
<1>2. PICK i \in DOMAIN acc.turns :
        /\ acc.turns[i] = Message(n)
        /\ \A j \in DOMAIN acc.turns : acc.turns[j] = Message(n) => j = i
        /\ reply = IF i = Len(acc.turns) THEN acc.pending ELSE Following(acc.turns, i)
  BY DEF Answers
<1>3. i # Len(acc.turns)
  BY <1>1, <1>2 DEF Asking
<1> QED
  BY <1>1, <1>2, <1>3 DEF Answers, after

\* What is stored under the last message is of its answer.
LEMMA AskingAnswers ==
  ASSUME NEW acc, AccOK(acc), NEW n, NEW reply, Answers(acc, n, reply), Asking(acc, n),
         NEW ev \in Event, ~ IsMessage(ev)
  PROVE  /\ Asking(Replayed(acc, ev), n)
         /\ Answers(Replayed(acc, ev), n,
                    Turn("model", reply.thoughts \o ev.thoughts, reply.words \o ev.words,
                         reply.chips \o Chip(ev)))
<1> DEFINE after == Replayed(acc, ev)
<1>1. /\ after.turns = acc.turns /\ acc.turns \in Seq(TurnShown)
      /\ after.pending = Turn("model", acc.pending.thoughts \o ev.thoughts,
                              acc.pending.words \o ev.words, acc.pending.chips \o Chip(ev))
  BY ReplayedOther DEF AccOK
<1> HIDE DEF after
<1>2. PICK i \in DOMAIN acc.turns :
        /\ acc.turns[i] = Message(n)
        /\ \A j \in DOMAIN acc.turns : acc.turns[j] = Message(n) => j = i
        /\ reply = IF i = Len(acc.turns) THEN acc.pending ELSE Following(acc.turns, i)
  BY DEF Answers
<1>3. i = Len(acc.turns)
  <2>1. acc.turns # <<>> /\ acc.turns[Len(acc.turns)] = Message(n)
    BY DEF Asking
  <2>2. Len(acc.turns) \in DOMAIN acc.turns
    BY <1>1, <2>1
  <2> QED
    BY <1>2, <2>1, <2>2
<1>4. reply = acc.pending
  BY <1>2, <1>3
<1>5. Asking(after, n)
  BY <1>1 DEF Asking
<1>6. Answers(after, n, after.pending)
  BY <1>1, <1>2, <1>3 DEF Answers
<1> QED
  BY <1>1, <1>4, <1>5, <1>6 DEF after

\* A message that is new is asked.
LEMMA AskingBegins ==
  ASSUME NEW acc, AccOK(acc), NEW ev \in Event, IsMessage(ev),
         \A j \in DOMAIN acc.turns : acc.turns[j] # Message(ev.turn)
  PROVE  /\ Asking(Replayed(acc, ev), ev.turn)
         /\ Answers(Replayed(acc, ev), ev.turn, Silent)
<1> DEFINE after == Replayed(acc, ev)
           turns == Flush(acc).turns
           old == acc.turns
           p == acc.pending
           m == Message(ev.turn)
           new == after.turns
<1>1. /\ new = Append(turns, m) /\ after.pending = Silent /\ turns \in Seq(TurnShown)
      /\ IF p = Silent THEN turns = old ELSE turns = Append(old, p)
  BY ReplayedMessage, FlushIs
<1>2. old \in Seq(TurnShown) /\ p.role = "model" /\ p # m
  BY MessageFields DEF AccOK, Reply
<1>3. \A j \in DOMAIN old : old[j] # m
  OBVIOUS
<1> HIDE DEF after, turns, old, p, m, new
<1>4. \A j \in DOMAIN turns : turns[j] # m
  <2>1. CASE turns = old
    BY <1>3, <2>1
  <2>2. CASE turns = Append(old, p)
    <3>1. \A j \in DOMAIN turns : (j \in DOMAIN old /\ turns[j] = old[j]) \/ turns[j] = p
      BY <1>2, <2>2
    <3> QED
      BY <1>2, <1>3, <3>1
  <2> QED
    BY <1>1, <2>1, <2>2
<1>5. /\ Len(new) = Len(turns) + 1 /\ Len(new) \in DOMAIN new /\ new[Len(new)] = m
      /\ new # <<>>
      /\ \A j \in DOMAIN new : (j \in DOMAIN turns /\ new[j] = turns[j]) \/ j = Len(new)
  BY <1>1
<1>6. \A j \in DOMAIN new : new[j] = m => j = Len(new)
  BY <1>4, <1>5
<1>7. Asking(after, ev.turn)
  BY <1>5 DEF Asking, new, m
<1>8. Answers(after, ev.turn, Silent)
  BY <1>1, <1>5, <1>6 DEF Answers, new, m
<1> QED
  BY <1>7, <1>8 DEF after

\* Only one message is the last.
LEMMA AskingOne ==
  ASSUME NEW acc, NEW n \in Nat, NEW m \in Nat, Asking(acc, n), Asking(acc, m)
  PROVE  n = m
BY MessagesDiffer DEF Asking

-----------------------------------------------------------------------------
(* What a session says of a message.                                       *)

\* The model calls of message n, as CallsOf counts them.
Paid(events, n) == {i \in DOMAIN events : events[i].turn = n /\ events[i].usage > 0}

\* What a session says of message n.
Recorded(events, n, kept) ==
  Answers(Acc(events), n, kept.pending) /\ Cardinality(Paid(events, n)) = kept.calls

\* The replay of a history has its type.
LEMMA AccTyped ==
  ASSUME NEW events \in Seq(Event)
  PROVE  AccOK(Acc(events))
BY ReplayIsTyped DEF ReplayTyped

\* One event more, and the calls that are paid for.
LEMMA PaidAppend ==
  ASSUME NEW events \in Seq(Event), NEW ev \in Event, NEW n
  PROVE  Cardinality(Paid(Append(events, ev), n)) =
           IF ev.turn = n THEN Cardinality(Paid(events, n)) + ev.usage
           ELSE Cardinality(Paid(events, n))
<1> DEFINE new == Append(events, ev)
           last == Len(events) + 1
           old == Paid(events, n)
<1>1. /\ Len(events) \in Nat /\ DOMAIN events = 1 .. Len(events) /\ DOMAIN new = 1 .. last
      /\ new[last] = ev /\ \A i \in DOMAIN events : new[i] = events[i]
  OBVIOUS
<1>2. last \notin old /\ old \subseteq 1 .. Len(events)
  BY <1>1 DEF Paid
<1>3. IsFiniteSet(old) /\ Cardinality(old) \in Nat
  <2>1. IsFiniteSet(1 .. Len(events))
    BY <1>1, FS_Interval
  <2> HIDE DEF old
  <2> QED
    BY <1>2, <2>1, FS_Subset, FS_CardinalityType
<1>4. ev.usage \in {0, 1}
  BY DEF Event
<1>5. CASE ev.turn = n /\ ev.usage = 1
  <2>1. Paid(new, n) = old \cup {last}
    <3>1. ASSUME NEW i PROVE i \in Paid(new, n) <=> i \in old \cup {last}
      <4>1. CASE i = last
        BY <1>1, <1>5, <4>1 DEF Paid
      <4>2. CASE i # last
        <5>1. i \in DOMAIN new <=> i \in DOMAIN events
          BY <1>1, <4>2
        <5> HIDE DEF new, last
        <5> QED
          BY <1>1, <4>2, <5>1 DEF Paid
      <4> QED
        BY <4>1, <4>2
    <3> HIDE DEF new, last, old
    <3> QED
      BY <3>1
  <2> HIDE DEF old, new, last
  <2>2. Cardinality(old \cup {last}) = Cardinality(old) + 1
    BY <1>2, <1>3, FS_AddElement
  <2>3. Cardinality(Paid(new, n)) = Cardinality(old) + 1
    BY <2>1, <2>2
  <2> QED
    BY <1>5, <2>3 DEF new, old
<1>6. CASE ~ (ev.turn = n /\ ev.usage = 1)
  <2>1. Paid(new, n) = old
    <3>1. ASSUME NEW i PROVE i \in Paid(new, n) <=> i \in old
      <4>1. CASE i = last
        BY <1>1, <1>2, <1>4, <1>6, <4>1 DEF Paid
      <4>2. CASE i # last
        <5>1. i \in DOMAIN new <=> i \in DOMAIN events
          BY <1>1, <4>2
        <5> HIDE DEF new, last
        <5> QED
          BY <1>1, <4>2, <5>1 DEF Paid
      <4> QED
        BY <4>1, <4>2
    <3> HIDE DEF new, last, old
    <3> QED
      BY <3>1
  <2> HIDE DEF new, old
  <2>2. Cardinality(Paid(new, n)) = Cardinality(old)
    BY <2>1
  <2>3. ev.turn = n => Cardinality(old) + ev.usage = Cardinality(old)
    BY <1>3, <1>4, <1>6
  <2> QED
    BY <2>2, <2>3 DEF new, old
<1> QED
  BY <1>4, <1>5, <1>6

\* The first thing stored of a turn is the message ...
LEMMA AskedIsRecorded ==
  ASSUME NEW events \in Seq(Event), NEW n \in Nat, \A k \in DOMAIN events : events[k].turn # n
  PROVE  LET new == Append(events, UserEvent(n))
         IN new \in Seq(Event) /\ Asking(Acc(new), n) /\ Recorded(new, n, Nothing)
<1> DEFINE ev == UserEvent(n)
           new == Append(events, ev)
<1>1. ev.turn = n /\ ev.usage = 0 /\ IsMessage(ev)
  BY DEF UserEvent, Blank, IsMessage
<1>2. ev \in Event
  <2>1. <<n>> \in Piece /\ NoAgent \in Agents
    BY DEF Piece, Agents
  <2>2. <<<<n>>>> \in Seq(Piece) /\ <<>> \in Seq(Piece)
    BY <2>1
  <2> QED
    BY <2>1, <2>2 DEF UserEvent, Event, IsEvent, Blank, IsMessage
<1> HIDE DEF ev
<1>3. new \in Seq(Event)
  BY <1>2
<1>4. Acc(new) = Replayed(Acc(events), ev)
  BY <1>2, AccAppend
<1>5. \A j \in DOMAIN Acc(events).turns : Acc(events).turns[j] # Message(n)
  <2> SUFFICES ASSUME NEW j \in DOMAIN Acc(events).turns, Acc(events).turns[j] = Message(n)
               PROVE  FALSE
    OBVIOUS
  <2>1. PICK k \in DOMAIN events : Acc(events).turns[j] = Message(events[k].turn)
    BY ReplayIsTyped, MessageFields DEF ReplayTyped
  <2>2. events[k].turn \in Nat
    BY DEF Event
  <2> QED
    BY <2>1, <2>2, MessagesDiffer
<1>6. AccOK(Acc(events))
  BY AccTyped
<1>7. Asking(Acc(new), n) /\ Answers(Acc(new), n, Silent)
  <2> DEFINE acc == Acc(events)
  <2> HIDE DEF acc, new
  <2> QED
    BY <1>1, <1>2, <1>4, <1>5, <1>6, AskingBegins DEF acc
<1>8. Cardinality(Paid(new, n)) = 0
  <2>1. Paid(events, n) = {}
    BY DEF Paid
  <2>2. Cardinality(Paid(events, n)) = 0
    BY <2>1, FS_EmptySet
  <2> QED
    BY <1>1, <1>2, <2>2, PaidAppend
<1> QED
  BY <1>3, <1>7, <1>8 DEF Recorded, Nothing, ev

\* ... under which its answer is stored ...
LEMMA AnswerIsRecorded ==
  ASSUME NEW events \in Seq(Event), NEW n \in Nat, NEW kept, Asking(Acc(events), n),
         Recorded(events, n, kept),
         NEW ev \in Event, ev.turn = n, ~ IsMessage(ev), ~ ev.partial, ~ ev.error
  PROVE  LET new == Append(events, ev)
         IN new \in Seq(Event) /\ Asking(Acc(new), n) /\ Recorded(new, n, Stored(kept, ev))
<1> DEFINE new == Append(events, ev)
           acc == Acc(events)
           reply == kept.pending
           more == Turn("model", reply.thoughts \o ev.thoughts, reply.words \o ev.words,
                        reply.chips \o Chip(ev))
<1>1. new \in Seq(Event) /\ Acc(new) = Replayed(acc, ev) /\ AccOK(acc)
  BY AccAppend, AccTyped
<1>2. Stored(kept, ev) = [pending |-> more, calls |-> kept.calls + ev.usage]
  BY DEF Stored
<1>3. Answers(acc, n, reply) /\ Cardinality(Paid(events, n)) = kept.calls
  BY DEF Recorded
<1>4. Asking(Replayed(acc, ev), n) /\ Answers(Replayed(acc, ev), n, more)
  <2> HIDE DEF acc, reply
  <2> QED
    BY <1>1, <1>3, AskingAnswers DEF acc
<1>5. Cardinality(Paid(new, n)) = kept.calls + ev.usage
  BY <1>3, PaidAppend
<1> DEFINE c == kept.calls + ev.usage
<1> HIDE DEF more, new, acc, c
<1>6. Stored(kept, ev).pending = more /\ Stored(kept, ev).calls = c
  BY <1>2 DEF c
<1>7. Cardinality(Paid(new, n)) = c
  BY <1>5 DEF c
<1> QED
  BY <1>1, <1>4, <1>6, <1>7 DEF Recorded, new

\* ... and which leaves what the session says of other messages.
LEMMA OtherIsRecorded ==
  ASSUME NEW events \in Seq(Event), NEW n \in Nat, NEW kept, Recorded(events, n, kept),
         NEW ev \in Event, ev.turn # n, IsMessage(ev) \/ Asking(Acc(events), ev.turn)
  PROVE  Recorded(Append(events, ev), n, kept)
<1> DEFINE acc == Acc(events)
           reply == kept.pending
<1>1. /\ Acc(Append(events, ev)) = Replayed(acc, ev) /\ AccOK(acc) /\ ev.turn \in Nat
      /\ Answers(acc, n, reply)
  BY AccAppend, AccTyped DEF Recorded, Event
<1> HIDE DEF acc, reply
<1>2. Answers(Replayed(acc, ev), n, reply)
  <2>1. CASE IsMessage(ev)
    BY <1>1, <2>1, MessageAnswers
  <2>2. CASE ~ IsMessage(ev)
    <3>1. ~ Asking(acc, n)
      BY <1>1, <2>2, AskingOne DEF acc
    <3> QED
      BY <1>1, <2>2, <3>1, OtherAnswers
  <2> QED
    BY <2>1, <2>2
<1>3. Cardinality(Paid(Append(events, ev), n)) = Cardinality(Paid(events, n))
  BY PaidAppend
<1> QED
  BY <1>1, <1>2, <1>3 DEF Recorded, reply

\* A reply has its type.
LEMMA RecordedTyped ==
  ASSUME NEW events \in Seq(Event), NEW n, NEW kept, Recorded(events, n, kept)
  PROVE  kept.pending.words \in Seq(Piece)
<1> DEFINE old == Acc(events).turns
           p == Acc(events).pending
<1>1. old \in Seq(TurnShown) /\ p \in Reply
  BY AccTyped DEF AccOK
<1>2. PICK i \in DOMAIN old : kept.pending = IF i = Len(old) THEN p ELSE Following(old, i)
  BY DEF Recorded, Answers
<1> HIDE DEF old, p
<1>3. kept.pending \in {p, Silent} \/ \E j \in DOMAIN old : kept.pending = old[j]
  <2>1. CASE i < Len(old)
    <3>1. i + 1 \in DOMAIN old /\ i # Len(old)
      BY <1>1, <2>1
    <3>2. kept.pending = Following(old, i)
      BY <1>2, <3>1
    <3> QED
      BY <2>1, <3>1, <3>2 DEF Following
  <2>2. CASE ~ (i < Len(old))
    BY <1>2, <2>2 DEF Following
  <2> QED
    BY <2>1, <2>2
<1>4. ASSUME NEW j \in DOMAIN old PROVE old[j].words \in Seq(Piece)
  <2>1. old[j] \in TurnShown
    BY <1>1
  <2> QED
    BY <2>1 DEF TurnShown
<1>5. p.words \in Seq(Piece) /\ Silent.words \in Seq(Piece)
  BY <1>1, SilentReply DEF Reply
<1> QED
  BY <1>3, <1>4, <1>5

\* What is recorded is what the history shows.
LEMMA RecordedIsReplayed ==
  ASSUME NEW s, sessions[s].events \in Seq(Event), NEW n, NEW kept,
         Recorded(sessions[s].events, n, kept)
  PROVE  ReplayOf(s, n) = kept.pending /\ Cardinality(CallsOf(s, n)) = kept.calls
<1> DEFINE events == sessions[s].events
           reply == kept.pending
<1>1. CallsOf(s, n) = Paid(events, n)
  BY DEF CallsOf, Paid
<1>2. AccOK(Acc(events)) /\ Answers(Acc(events), n, reply)
  BY AccTyped DEF Recorded
<1> HIDE DEF reply
<1>3. ReplayOf(s, n) = reply
  BY <1>2, ReplayOfAnswered
<1> QED
  BY <1>1, <1>3 DEF Recorded, reply

-----------------------------------------------------------------------------
(* The turn in flight and what streams.                                    *)

\* The turn in flight.
TurnTyped ==
  /\ turn.n \in 0 .. MaxTurns
  /\ turn.pc \in {"idle", "creating", "created", "asking", "reading", "ended"}
  /\ turn.buffered \in BOOLEAN
  /\ turn.pc # "idle" => turn.n # 0 /\ turn.script \in Scripts
  /\ DOMAIN turn.seen = Fields
  /\ turn.pc \in {"idle", "creating", "created", "asking"} => turn.seen = Unseen
  /\ turn.pc = "reading" => turn.seen.end = "none"
  /\ turn.pc = "ended" => turn.seen.end # "none"

\* Where it is held: a model's answer belongs to no session.
PlaceOK ==
  /\ turn.session # NoSession =>
       turn.session \in Session /\ sessions[turn.session].state # "none"
  /\ turn.pc # "idle" /\ Direct(turn.script) =>
       turn.session = NoSession /\ turn.pc \notin {"creating", "created"}

\* What streams: an agent sends what belongs to its turn, and no partial event unless
\* it is to stream.
Streams(T) ==
  /\ engine \in Seq(T) /\ wire \in Seq(T)
  /\ ~ Direct(turn.script) => T = Sendable(turn.n, ~ turn.buffered)
\* What has arrived of the first object.
Arrived(objs, some) == IF some THEN <<[obj |-> objs[1], part |-> "front"]>> ELSE <<>>

\* Something streams only while a turn reads.
WireOK ==
  /\ turn.pc # "reading" => engine = <<>> /\ wire = <<>>
  /\ turn.pc = "reading" => \E T : Streams(T)
  /\ half \in BOOLEAN /\ (half => wire # <<>> /\ turn.pc = "reading" /\ ~ turn.buffered)
  /\ buf = Arrived(wire, half)

\* What is stored: a turn's events come after the message of the turn.
HistoryOK ==
  \A s \in Session :
    /\ sessions[s].events \in Seq(Event)
    /\ sessions[s].state # "live" => sessions[s].events = <<>>
    /\ \A k \in DOMAIN sessions[s].events :
         /\ sessions[s].events[k].turn <= turn.n
         /\ turn.pc \in {"creating", "created", "asking"} => sessions[s].events[k].turn # turn.n

\* Turns are logged when they are over.
LogTyped == DOMAIN log \subseteq 1 .. turn.n /\ (turn.pc # "idle" => turn.n \notin DOMAIN log)

\* The types of the turn in flight, of what streams, and of what is stored and logged.
FlightInv == TurnTyped /\ PlaceOK /\ WireOK /\ HistoryOK /\ LogTyped

-----------------------------------------------------------------------------

\* Nothing has been told yet.
LEMMA UnseenFields == DOMAIN Unseen = Fields /\ Unseen.end = "none" /\ Unseen.in = 0
  /\ Unseen.out = 0
BY DEF Unseen, Fields

\* The turn is over.
LEMMA NoTurnIs ==
  LET t == [NoTurn EXCEPT !.n = turn.n]
  IN /\ t.n = turn.n /\ t.pc = "idle" /\ t.session = NoSession /\ t.buffered = FALSE
     /\ t.seen = Unseen /\ t.cut = FALSE
BY DEF NoTurn

\* The first of what is to be sent.
LEMMA FirstOf ==
  ASSUME NEW T, NEW s \in Seq(T), s # <<>>
  PROVE  /\ Head(s) \in T /\ Tail(s) \in Seq(T)
         /\ \A t \in Seq(T) : t \o s = Append(t, Head(s)) \o Tail(s)
<1>1. Head(s) \in T /\ Tail(s) \in Seq(T)
  OBVIOUS
<1>2. ASSUME NEW t \in Seq(T) PROVE t \o s = Append(t, Head(s)) \o Tail(s)
  <2> DEFINE one == t \o s
             two == Append(t, Head(s)) \o Tail(s)
  <2>0. Len(s) \in Nat /\ Len(s) > 0 /\ Len(t) \in Nat
    OBVIOUS
  <2>1. one \in Seq(T) /\ two \in Seq(T) /\ Len(one) = Len(t) + Len(s)
        /\ Len(two) = Len(t) + Len(s)
    BY <1>1
  <2>2. ASSUME NEW i \in 1 .. Len(t) + Len(s) PROVE one[i] = two[i]
    OBVIOUS
  <2> HIDE DEF one, two
  <2>3. one = two
    BY <2>1, <2>2
  <2> QED
    BY <2>3 DEF one, two
<1> QED
  BY <1>1, <1>2

\* A list cut in two.
LEMMA SplitAt ==
  ASSUME NEW T, NEW s \in Seq(T), NEW n \in 0 .. Len(s)
  PROVE  /\ SubSeq(s, 1, n) \in Seq(T) /\ SubSeq(s, n + 1, Len(s)) \in Seq(T)
         /\ n < Len(s) => SubSeq(s, n + 1, Len(s)) # <<>>
         /\ s = SubSeq(s, 1, n) \o SubSeq(s, n + 1, Len(s))
<1> DEFINE one == SubSeq(s, 1, n)
           two == SubSeq(s, n + 1, Len(s))
<1>1. /\ one \in Seq(T) /\ Len(one) = n /\ \A i \in 1 .. n : one[i] = s[i]
  OBVIOUS
<1>2. /\ two \in Seq(T) /\ Len(two) = Len(s) - n /\ \A i \in 1 .. Len(s) - n : two[i] = s[n + i]
  OBVIOUS
<1> HIDE DEF one, two
<1>3. one \o two = s
  <2> DEFINE all == one \o two
             N == Len(s)
  <2>1. N \in Nat /\ n \in Nat /\ n <= N /\ N - n \in Nat
    OBVIOUS
  <2>2. all \in Seq(T) /\ Len(all) = n + (N - n)
    BY <1>1, <1>2
  <2>3. ASSUME NEW i \in 1 .. N PROVE all[i] = s[i]
    <3>1. CASE i <= n
      BY <1>1, <1>2, <3>1
    <3>2. CASE ~ (i <= n)
      <4>1. i - n \in 1 .. N - n /\ n + (i - n) = i
        BY <2>1, <3>2
      <4>2. all[i] = two[i - n]
        BY <1>1, <1>2, <3>2
      <4> QED
        BY <1>2, <4>1, <4>2
    <3> QED
      BY <3>1, <3>2
  <2>4. s \in Seq(T) /\ Len(s) = N /\ Len(all) = N
    BY <2>1, <2>2
  <2> HIDE DEF all
  <2>5. all = s
    BY <2>2, <2>3, <2>4
  <2> QED
    BY <2>5 DEF all
<1>5. n < Len(s) => two # <<>>
  BY <1>2
<1> QED
  BY <1>1, <1>2, <1>3, <1>5 DEF one, two

-----------------------------------------------------------------------------
(* The body as text.                                                       *)

\* A stretch of one.
LEMMA OneIs ==
  ASSUME NEW U, NEW t \in Seq(U), NEW i \in 1 .. Len(t)
  PROVE  SubSeq(t, i, i) = <<t[i]>>
<1> DEFINE one == SubSeq(t, i, i)
<1>1. one \in Seq(U) /\ Len(one) = 1 /\ one[1] = t[i]
  OBVIOUS
<1>2. \A x : <<x>> = [k \in 1 .. 1 |-> x]
  OBVIOUS
<1>3. one = [k \in 1 .. 1 |-> one[k]]
  BY <1>1
<1>4. [k \in 1 .. 1 |-> one[k]] = [k \in 1 .. 1 |-> t[i]]
  <2>1. \A k \in 1 .. 1 : k = 1
    OBVIOUS
  <2> QED
    BY <1>1, <2>1
<1> HIDE DEF one
<1>5. one = <<t[i]>>
  BY <1>2, <1>3, <1>4
<1> QED
  BY <1>5 DEF one

\* The two halves of every object.
LEMMA TextIs ==
  ASSUME NEW T, NEW objs \in Seq(T)
  PROVE  /\ Text(objs) \in Seq([obj : T, part : {"front", "back"}])
         /\ Len(Text(objs)) = 2 * Len(objs)
         /\ \A j \in 1 .. Len(objs) : /\ Text(objs)[2 * j - 1] = [obj |-> objs[j], part |-> "front"]
                                      /\ Text(objs)[2 * j] = [obj |-> objs[j], part |-> "back"]
<1> DEFINE N == Len(objs)
           half1(k) == [obj |-> objs[(k + 1) \div 2], part |-> "front"]
           half2(k) == [obj |-> objs[k \div 2], part |-> "back"]
           U == [obj : T, part : {"front", "back"}]
<1>1. N \in Nat /\ 2 * N \in Nat
  OBVIOUS
<1>2. Text(objs) = [k \in 1 .. 2 * N |-> IF k % 2 = 1 THEN half1(k) ELSE half2(k)]
  BY DEF Text
<1>3. ASSUME NEW j \in 1 .. N
      PROVE  /\ 2 * j - 1 \in 1 .. 2 * N /\ (2 * j - 1) % 2 = 1 /\ ((2 * j - 1) + 1) \div 2 = j
             /\ 2 * j \in 1 .. 2 * N /\ (2 * j) % 2 = 0 /\ (2 * j) \div 2 = j
  BY <1>1
<1>4. ASSUME NEW k \in 1 .. 2 * N
      PROVE  IF k % 2 = 1 THEN (k + 1) \div 2 \in 1 .. N ELSE k \div 2 \in 1 .. N
  BY <1>1
<1>5. \A j \in 1 .. N : objs[j] \in T
  OBVIOUS
<1>6. \A k \in 1 .. 2 * N : (IF k % 2 = 1 THEN half1(k) ELSE half2(k)) \in U
  BY <1>4, <1>5
<1>7. \A j \in 1 .. N : half1(2 * j - 1) = [obj |-> objs[j], part |-> "front"]
                        /\ half2(2 * j) = [obj |-> objs[j], part |-> "back"]
  BY <1>3
<1> HIDE DEF N, half1, half2, U
<1>8. Text(objs) \in Seq(U) /\ Len(Text(objs)) = 2 * N
  BY <1>1, <1>2, <1>6
<1>9. ASSUME NEW j \in 1 .. N
      PROVE  Text(objs)[2 * j - 1] = half1(2 * j - 1) /\ Text(objs)[2 * j] = half2(2 * j)
  <2>1. (0 = 1) = FALSE
    OBVIOUS
  <2> QED
    BY <1>2, <1>3, <1>9
<1> QED
  BY <1>7, <1>8, <1>9 DEF N, U

\* A text that has arrived in two chunks.
LEMMA ChunkIs ==
  ASSUME NEW U, NEW t \in Seq(U), NEW a \in Nat, NEW b \in Nat, a <= b, b <= Len(t)
  PROVE  SubSeq(t, 1, a) \o SubSeq(t, a + 1, b) = SubSeq(t, 1, b)
<1> DEFINE one == SubSeq(t, 1, a)
           two == SubSeq(t, a + 1, b)
           all == SubSeq(t, 1, b)
<1>1. one \in Seq(U) /\ Len(one) = a /\ \A i \in 1 .. a : one[i] = t[i]
  OBVIOUS
<1>2. two \in Seq(U) /\ Len(two) = b - a /\ \A i \in 1 .. b - a : two[i] = t[a + i]
  OBVIOUS
<1>3. all \in Seq(U) /\ Len(all) = b /\ \A i \in 1 .. b : all[i] = t[i]
  OBVIOUS
<1> HIDE DEF one, two, all
<1> DEFINE both == one \o two
<1>4. both \in Seq(U) /\ Len(both) = b
  BY <1>1, <1>2
<1>5. ASSUME NEW i \in 1 .. b PROVE both[i] = all[i]
  <2>1. CASE i <= a
    BY <1>1, <1>2, <1>3, <2>1
  <2>2. CASE ~ (i <= a)
    <3>1. i - a \in 1 .. b - a /\ a + (i - a) = i
      BY <2>2
    <3>2. both[i] = two[i - a]
      BY <1>1, <1>2, <2>2
    <3> QED
      BY <1>2, <1>3, <3>1, <3>2
  <2> QED
    BY <2>1, <2>2
<1> HIDE DEF both
<1>6. both = all
  BY <1>3, <1>4, <1>5
<1> QED
  BY <1>6 DEF both, one, two, all

\* Of a text that ends with the front of an object, or with the back of one, all whole
\* objects are decoded, and the front is kept.
LEMMA DrainIs ==
  ASSUME NEW T, NEW objs \in Seq(T), NEW n \in 0 .. Len(objs), NEW some \in BOOLEAN,
         some => n < Len(objs)
  PROVE  Drain(SubSeq(Text(objs), 1, Halves(n, some)))
         = [objs |-> SubSeq(objs, 1, n), rest |-> Arrived(SubSeq(objs, n + 1, Len(objs)), some)]
<1> DEFINE m == Halves(n, some)
           text == SubSeq(Text(objs), 1, m)
           U == [obj : T, part : {"front", "back"}]
<1>0. Len(objs) \in Nat /\ n \in Nat /\ n <= Len(objs)
  OBVIOUS
<1>1. /\ m \in Nat /\ 2 * n <= m /\ m <= 2 * n + 1 /\ m <= 2 * Len(objs)
      /\ some => m = 2 * n + 1
      /\ ~ some => m = 2 * n
  BY <1>0 DEF Halves
<1>2. /\ Text(objs) \in Seq(U) /\ Len(Text(objs)) = 2 * Len(objs)
      /\ \A j \in 1 .. Len(objs) : /\ Text(objs)[2 * j - 1] = [obj |-> objs[j], part |-> "front"]
                                   /\ Text(objs)[2 * j] = [obj |-> objs[j], part |-> "back"]
  BY TextIs
<1> HIDE DEF m, U
<1>3. text \in Seq(U) /\ Len(text) = m /\ \A i \in 1 .. m : text[i] = Text(objs)[i]
  BY <1>0, <1>1, <1>2
<1> HIDE DEF text
<1>4. \A j \in 1 .. n : /\ text[2 * j - 1] = [obj |-> objs[j], part |-> "front"]
                        /\ text[2 * j] = [obj |-> objs[j], part |-> "back"]
  <2> SUFFICES ASSUME NEW j \in 1 .. n
               PROVE  /\ text[2 * j - 1] = [obj |-> objs[j], part |-> "front"]
                      /\ text[2 * j] = [obj |-> objs[j], part |-> "back"]
    OBVIOUS
  <2>1. j \in 1 .. Len(objs) /\ 2 * j - 1 \in 1 .. m /\ 2 * j \in 1 .. m
    BY <1>0, <1>1
  <2>2. text[2 * j - 1] = Text(objs)[2 * j - 1] /\ text[2 * j] = Text(objs)[2 * j]
    BY <1>3, <2>1
  <2> QED
    BY <1>2, <2>1, <2>2
<1> DEFINE S == {k \in 0 .. Len(text) : Decodes(text, k)}
<1>5. n \in S
  <2>1. n \in 0 .. Len(text) /\ 2 * n <= Len(text)
    BY <1>0, <1>1, <1>3
  <2>2. ASSUME NEW j \in 1 .. n
        PROVE  /\ text[2 * j - 1] = [obj |-> text[2 * j].obj, part |-> "front"]
               /\ text[2 * j].part = "back"
    <3>1. /\ text[2 * j - 1] = [obj |-> objs[j], part |-> "front"]
          /\ text[2 * j] = [obj |-> objs[j], part |-> "back"]
      BY <1>4
    <3>2. text[2 * j].obj = objs[j] /\ text[2 * j].part = "back"
      BY <3>1
    <3> QED
      BY <3>1, <3>2
  <2> QED
    BY <2>1, <2>2 DEF Decodes
<1>6. \A k \in S : k \in Nat /\ k <= n
  BY <1>0, <1>1, <1>3 DEF Decodes
<1>7. Max(S) = n
  <2> HIDE DEF S
  <2>1. n \in S /\ \A k \in S : n >= k
    BY <1>0, <1>5, <1>6
  <2>2. \A x \in S : (\A k \in S : x >= k) => x = n
    BY <1>0, <1>5, <1>6
  <2>3. Max(S) \in S /\ \A k \in S : Max(S) >= k
    BY <2>1 DEF Max
  <2> QED
    BY <2>2, <2>3
<1> HIDE DEF S
<1>8. Drain(text) = [objs |-> [k \in 1 .. n |-> text[2 * k].obj],
                     rest |-> SubSeq(text, 2 * n + 1, Len(text))]
  BY <1>7 DEF Drain, S
<1>9. [k \in 1 .. n |-> text[2 * k].obj] = SubSeq(objs, 1, n)
  <2>1. SubSeq(objs, 1, n) = [k \in 1 .. n |-> objs[k]]
    BY <1>0
  <2>2. ASSUME NEW k \in 1 .. n PROVE text[2 * k].obj = objs[k]
    <3>1. text[2 * k] = [obj |-> objs[k], part |-> "back"]
      BY <1>4
    <3> QED
      BY <3>1
  <2> QED
    BY <2>1, <2>2
<1>10. SubSeq(text, 2 * n + 1, Len(text)) = Arrived(SubSeq(objs, n + 1, Len(objs)), some)
  <2>1. CASE ~ some
    BY <1>0, <1>1, <1>3, <2>1 DEF Arrived
  <2>2. CASE some
    <3>1. n + 1 \in 1 .. Len(objs) /\ 2 * n + 1 \in 1 .. m /\ 2 * (n + 1) - 1 = 2 * n + 1
      BY <1>0, <1>1, <2>2
    <3>2. text[2 * n + 1] = [obj |-> objs[n + 1], part |-> "front"]
      BY <1>2, <1>3, <3>1
    <3>3. SubSeq(text, 2 * n + 1, Len(text)) = <<text[2 * n + 1]>>
      <4>1. Len(text) = 2 * n + 1 /\ 2 * n + 1 \in 1 .. Len(text)
        BY <1>0, <1>1, <1>3, <2>2, <3>1
      <4> QED
        BY <1>3, <4>1, OneIs
    <3>4. SubSeq(objs, n + 1, Len(objs))[1] = objs[n + 1]
      BY <1>0, <3>1
    <3> QED
      BY <2>2, <3>2, <3>3, <3>4 DEF Arrived
  <2> QED
    BY <2>1, <2>2
<1> QED
  BY <1>8, <1>9, <1>10 DEF text, m

\* What has arrived of the first object is the beginning of the text.
LEMMA ArrivedIs ==
  ASSUME NEW T, NEW objs \in Seq(T), NEW some \in BOOLEAN, some => objs # <<>>
  PROVE  Arrived(objs, some) = SubSeq(Text(objs), 1, Halves(0, some))
<1> DEFINE text == Text(objs)
           U == [obj : T, part : {"front", "back"}]
<1>1. /\ text \in Seq(U) /\ Len(text) = 2 * Len(objs)
      /\ 1 \in 1 .. Len(objs) => text[1] = [obj |-> objs[1], part |-> "front"]
  <2>1. 2 * 1 - 1 = 1
    OBVIOUS
  <2> QED
    BY <2>1, TextIs
<1> HIDE DEF text, U
<1>2. CASE ~ some
  BY <1>1, <1>2 DEF Arrived, Halves
<1>3. CASE some
  <2>1. 1 \in 1 .. Len(objs) /\ 1 <= Len(text)
    BY <1>1, <1>3
  <2>2. SubSeq(text, 1, 1) = <<text[1]>>
    BY <1>1, <2>1, OneIs
  <2>3. Halves(0, some) = 1
    BY <1>3 DEF Halves
  <2>4. text[1] = [obj |-> objs[1], part |-> "front"]
    BY <1>1, <2>1
  <2>5. Arrived(objs, some) = <<[obj |-> objs[1], part |-> "front"]>>
    BY <1>3 DEF Arrived
  <2> QED
    BY <2>2, <2>3, <2>4, <2>5 DEF text
<1> QED
  BY <1>2, <1>3 DEF text

\* Between two chunks nothing can be decoded, so a body that ends leaves nothing to show.
LEMMA DrainedIs ==
  ASSUME TurnTyped, WireOK, turn.pc = "reading"
  PROVE  Drained = Done(turn.seen)
<1>1. PICK T : wire \in Seq(T)
  BY DEF WireOK, Streams
<1>2. half \in BOOLEAN /\ (half => wire # <<>>) /\ buf = Arrived(wire, half)
  BY DEF WireOK
<1>3. Drain(buf).objs = <<>>
  <2>1. buf = SubSeq(Text(wire), 1, Halves(0, half))
    BY <1>1, <1>2, ArrivedIs
  <2>2. 0 \in 0 .. Len(wire) /\ (half => 0 < Len(wire))
    BY <1>1, <1>2
  <2>3. Drain(buf) = [objs |-> SubSeq(wire, 1, 0), rest |-> Arrived(SubSeq(wire, 0 + 1, Len(wire)), half)]
    BY <1>1, <1>2, <2>1, <2>2, DrainIs
  <2>4. SubSeq(wire, 1, 0) = <<>>
    BY <1>1
  <2> QED
    BY <2>3, <2>4
<1>4. RelayAll(turn.seen, turn.script, Drain(buf).objs) = turn.seen
  <2>1. <<>> \in Seq(T)
    OBVIOUS
  <2>2. RelayAll(turn.seen, turn.script, <<>>) = turn.seen
    BY <2>1, RelayAllConcat
  <2> QED
    BY <1>3, <2>2
<1> QED
  BY <1>4 DEF Drained, TurnTyped

\* A chunk: its whole objects are decoded, in order, and what is left stays in the buffer.
LEMMA ReceiveIs ==
  ASSUME WireOK, Receive
  PROVE  \E n \in 0 .. Len(wire), rest \in BOOLEAN :
           /\ rest => n < Len(wire)
           /\ ~ turn.buffered
           /\ LET seen == RelayAll(turn.seen, turn.script, SubSeq(wire, 1, n))
              IN IF seen.end = "none"
                 THEN /\ turn' = [turn EXCEPT !.seen = seen]
                      /\ wire' = SubSeq(wire, n + 1, Len(wire))
                      /\ half' = rest /\ buf' = Arrived(wire', rest)
                      /\ UNCHANGED engine
                 ELSE Ended(seen, FALSE) /\ NoBody /\ engine' = <<>>
<1>1. turn.pc = "reading" /\ ~ turn.buffered
  BY DEF Receive
<1>2. PICK n \in 0 .. Len(wire), rest \in BOOLEAN :
        /\ rest => n < Len(wire)
        /\ n > 0 \/ (rest /\ ~half)
        /\ LET chunk == SubSeq(Text(wire), Halves(0, half) + 1, Halves(n, rest))
               drained == Drain(buf \o chunk)
               seen == RelayAll(turn.seen, turn.script, drained.objs)
           IN IF seen.end = "none"
              THEN /\ turn' = [turn EXCEPT !.seen = seen]
                   /\ wire' = SubSeq(wire, n + 1, Len(wire))
                   /\ half' = rest
                   /\ buf' = drained.rest
                   /\ UNCHANGED engine
              ELSE Ended(seen, FALSE) /\ NoBody /\ engine' = <<>>
  BY DEF Receive
<1>3. PICK T : wire \in Seq(T)
  BY <1>1 DEF WireOK, Streams
<1>4. half \in BOOLEAN /\ (half => wire # <<>>) /\ buf = Arrived(wire, half)
  BY DEF WireOK
<1> DEFINE chunk == SubSeq(Text(wire), Halves(0, half) + 1, Halves(n, rest))
           drained == Drain(buf \o chunk)
<1>5. buf \o chunk = SubSeq(Text(wire), 1, Halves(n, rest))
  <2> DEFINE U == [obj : T, part : {"front", "back"}]
             text == Text(wire)
             a == Halves(0, half)
             b == Halves(n, rest)
  <2>1. text \in Seq(U) /\ Len(text) = 2 * Len(wire)
    BY <1>3, TextIs
  <2>2. buf = SubSeq(text, 1, a)
    BY <1>3, <1>4, ArrivedIs
  <2>3. a \in Nat /\ b \in Nat /\ a <= b /\ b <= Len(text)
    BY <1>2, <1>3, <1>4, <2>1 DEF Halves
  <2> HIDE DEF U, text, a, b
  <2>4. SubSeq(text, 1, a) \o SubSeq(text, a + 1, b) = SubSeq(text, 1, b)
    BY <2>1, <2>3, ChunkIs
  <2> QED
    BY <2>2, <2>4 DEF text, a, b
<1>6. drained = [objs |-> SubSeq(wire, 1, n),
                 rest |-> Arrived(SubSeq(wire, n + 1, Len(wire)), rest)]
  BY <1>2, <1>3, <1>5, DrainIs
<1>7. drained.objs = SubSeq(wire, 1, n)
      /\ drained.rest = Arrived(SubSeq(wire, n + 1, Len(wire)), rest)
  BY <1>6
<1> DEFINE seen == RelayAll(turn.seen, turn.script, drained.objs)
<1>8. IF seen.end = "none"
      THEN /\ turn' = [turn EXCEPT !.seen = seen]
           /\ wire' = SubSeq(wire, n + 1, Len(wire))
           /\ half' = rest
           /\ buf' = drained.rest
           /\ UNCHANGED engine
      ELSE Ended(seen, FALSE) /\ NoBody /\ engine' = <<>>
  BY <1>2
<1> HIDE DEF drained
<1>9. seen = RelayAll(turn.seen, turn.script, SubSeq(wire, 1, n))
  BY <1>7
<1> HIDE DEF seen
<1> QED
  BY <1>1, <1>2, <1>7, <1>8, <1>9

-----------------------------------------------------------------------------
\* A session is not unmade.
LEMMA MadeStays ==
  ASSUME StoreGoesOn, NEW s \in Session, sessions[s].state # "none"
  PROVE  sessions'[s].state # "none"
BY DEF StoreGoesOn, GoesOn

\* What the turn comes to when its body ends.
LEMMA AnswerIs ==
  ASSUME TurnTyped, WireOK, turn.pc = "reading", NEW T, Streams(T)
  PROVE  DOMAIN Answer = Fields /\ Answer.end \in {"done", "error"}
<1>1. ASSUME NEW seen, DOMAIN seen = Fields
             PROVE DOMAIN Done(seen) = Fields /\ Done(seen).end = "done"
  BY <1>1 DEF Done, Fields
<1>2. DOMAIN RelayAll(Unseen, turn.script, wire) = Fields
  BY UnseenFields, RelayAllKeeps DEF Streams
<1>3. DOMAIN Aggregate(wire) = Fields /\ Aggregate(wire).end \in {"done", "error"}
  <2>1. /\ DOMAIN [Unseen EXCEPT !.end = "error"] = Fields
        /\ [Unseen EXCEPT !.end = "error"].end = "error"
    BY UnseenFields DEF Fields
  <2> DEFINE all == [Unseen EXCEPT !.thoughts = FlattenSeq(ThoughtsIn(wire)),
                               !.words = FlattenSeq(WordsIn(wire)),
                               !.chips = FlattenSeq(ChipsIn(wire)),
                               !.usage = UsageIn(wire),
                               !.end = "done"]
  <2>2. DOMAIN all = Fields /\ all.end = "done"
    BY UnseenFields DEF Fields
  <2> HIDE DEF all
  <2> QED
    BY <2>1, <2>2, AggregateIs DEF all
<1>4. CASE ~ turn.buffered
  BY <1>1, <1>4, DrainedIs DEF Answer, TurnTyped
<1>5. CASE turn.buffered /\ Direct(turn.script)
  BY <1>1, <1>2, <1>5 DEF Answer
<1>6. CASE turn.buffered /\ ~ Direct(turn.script)
  BY <1>3, <1>6 DEF Answer
<1> QED
  BY <1>4, <1>5, <1>6

\* What a turn may do.
LEMMA TurnStays ==
  ASSUME TurnOK, TurnTyped, NEW pc, NEW session,
         turn' = [turn EXCEPT !.pc = pc, !.session = session]
         \/ (session = turn.session /\ turn' = [turn EXCEPT !.pc = pc])
  PROVE  /\ turn'.n = turn.n /\ turn'.pc = pc /\ turn'.session = session
         /\ turn'.buffered = turn.buffered /\ turn'.script = turn.script
         /\ turn'.seen = turn.seen /\ turn'.cut = turn.cut
BY DEF TurnOK

\* A turn that ends keeps the rest of its fields.
LEMMA EndedIs ==
  ASSUME TurnOK, NEW seen, NEW cut, Ended(seen, cut)
  PROVE  /\ turn'.n = turn.n /\ turn'.pc = "ended" /\ turn'.session = turn.session
         /\ turn'.buffered = turn.buffered /\ turn'.script = turn.script
         /\ turn'.seen = seen /\ turn'.cut = cut
BY DEF TurnOK, Ended

\* What a turn starts with: a model's turn has no session.
LEMMA StartTurnIs ==
  ASSUME StartTurn
  PROVE  /\ turn'.n = turn.n + 1 /\ turn.n < MaxTurns /\ turn.pc = "idle"
         /\ turn'.script \in Scripts /\ turn'.buffered \in BOOLEAN
         /\ turn'.seen = Unseen /\ turn'.pc \in {"asking", "creating"} /\ turn'.cut = FALSE
         /\ turn'.session # NoSession =>
              turn'.session \in Session /\ sessions[turn'.session].state # "none"
         /\ Direct(turn'.script) => turn'.session = NoSession /\ turn'.pc = "asking"
<1>1. PICK script \in Scripts, buffered \in BOOLEAN,
           s \in {NoSession} \cup {x \in Session : sessions[x].state # "none"} :
       /\ Direct(script) => s = NoSession
       /\ turn' = [NoTurn EXCEPT !.n = turn.n + 1, !.script = script, !.buffered = buffered,
                                 !.session = s,
                                 !.pc = IF Direct(script) \/ s # NoSession THEN "asking"
                                        ELSE "creating"]
  BY DEF StartTurn
<1>2. /\ turn'.n = turn.n + 1 /\ turn'.script = script /\ turn'.buffered = buffered
      /\ turn'.session = s /\ turn'.seen = Unseen /\ turn'.cut = FALSE
      /\ turn'.pc = IF Direct(script) \/ s # NoSession THEN "asking" ELSE "creating"
  BY <1>1 DEF NoTurn
<1> QED
  BY <1>1, <1>2 DEF StartTurn

-----------------------------------------------------------------------------
(* What a step does to the turn, its place and its stream.                 *)

\* A step that is not of the turn.
Aside == UNCHANGED <<engine, wire, half, buf, turn, log>>

\* The steps of the sidebar.
LEMMA AsideIs ==
  ASSUME \/ UNCHANGED vars \/ List \/ DeleteAsked \/ DeleteServed \/ DeleteAnswered \/ DeleteFails
         \/ \E s \in DOMAIN fills : FillServed(s) \/ FillAnswered(s) \/ FillFails(s)
  PROVE  Aside
BY DEF vars, List, DeleteAsked, DeleteServed, DeleteAnswered, DeleteFails, FillServed,
  FillAnswered, FillFails, turnVars, body, Aside

\* Every step is of the sidebar or of the turn.
LEMMA StepKinds ==
  ASSUME [Next]_vars
  PROVE  \/ Aside
         \/ StartTurn \/ CreateServed \/ CreateAnswered \/ Asked \/ Produce \/ Receive
         \/ BodyEnds \/ BodyCutShort \/ CallFails \/ Log \/ Leave \/ Restart
BY AsideIs DEF Next, TurnStep, SidebarStep

\* Every step keeps the turn typed ...
LEMMA TurnTypedStep ==
  ASSUME TurnOK, TurnTyped, WireOK, [Next]_vars
  PROVE  TurnTyped'
<1>0. turn.n \in Nat /\ turn.n <= MaxTurns
  BY ConversationAssumption DEF TurnTyped
<1>1. CASE UNCHANGED turn
  BY <1>1 DEF TurnTyped
<1>2. CASE StartTurn
  <2>1. turn'.n \in 0 .. MaxTurns
    <3>1. turn'.n = turn.n + 1 /\ turn.n < MaxTurns
      BY <1>2, StartTurnIs
    <3> QED
      BY <1>0, <3>1, ConversationAssumption
  <2>2. turn'.n # 0
    BY <1>0, <1>2, StartTurnIs
  <2> QED
    BY <1>2, <2>1, <2>2, StartTurnIs, UnseenFields DEF TurnTyped
<1>3. CASE CreateServed
  <2>1. PICK s \in Session : turn' = [turn EXCEPT !.pc = "created", !.session = s]
    BY <1>3 DEF CreateServed
  <2>2. turn.pc = "creating"
    BY <1>3 DEF CreateServed
  <2> QED
    BY <2>1, <2>2, TurnStays DEF TurnTyped
<1>4. CASE CreateAnswered \/ Asked
  <2>1. PICK pc \in {"asking", "reading"} :
          /\ turn' = [turn EXCEPT !.pc = pc] /\ turn.pc \in {"created", "asking"}
    BY <1>4 DEF CreateAnswered, Asked
  <2>2. turn.seen = Unseen
    BY <2>1 DEF TurnTyped
  <2> QED
    BY <2>1, <2>2, TurnStays, UnseenFields DEF TurnTyped
<1>5. CASE Receive
  <2>1. PICK n \in 0 .. Len(wire) :
          LET seen == RelayAll(turn.seen, turn.script, SubSeq(wire, 1, n))
          IN IF seen.end = "none" THEN turn' = [turn EXCEPT !.seen = seen]
             ELSE Ended(seen, FALSE)
    BY <1>5, ReceiveIs
  <2> DEFINE seen == RelayAll(turn.seen, turn.script, SubSeq(wire, 1, n))
  <2>2. turn.pc = "reading"
    BY <1>5 DEF Receive
  <2>3. PICK T : Streams(T)
    BY <2>2 DEF WireOK
  <2>4. SubSeq(wire, 1, n) \in Seq(T)
    BY <2>3, SplitAt DEF Streams
  <2>5. DOMAIN seen = Fields
    BY <2>4, RelayAllKeeps DEF TurnTyped
  <2>6. IF seen.end = "none" THEN turn' = [turn EXCEPT !.seen = seen] ELSE Ended(seen, FALSE)
    BY <2>1
  <2> HIDE DEF seen
  <2>7. CASE seen.end = "none"
    <3>1. /\ turn'.n = turn.n /\ turn'.pc = turn.pc /\ turn'.buffered = turn.buffered
          /\ turn'.script = turn.script /\ turn'.seen = seen
      BY <2>6, <2>7 DEF TurnOK
    <3> QED
      BY <2>2, <2>5, <2>7, <3>1 DEF TurnTyped
  <2>8. CASE seen.end # "none"
    BY <2>2, <2>5, <2>6, <2>8, EndedIs DEF TurnTyped
  <2> QED
    BY <2>7, <2>8
<1>6. CASE BodyEnds \/ BodyCutShort
  <2>1. PICK cut \in BOOLEAN : Ended(Answer, cut) /\ turn.pc = "reading"
    BY <1>6 DEF BodyEnds, BodyCutShort
  <2>2. DOMAIN Answer = Fields /\ Answer.end # "none"
    BY <2>1, AnswerIs DEF WireOK
  <2> QED
    BY <2>1, <2>2, EndedIs DEF TurnTyped
<1>7. CASE CallFails
  <2> DEFINE seen == [turn.seen EXCEPT !.end = "error"]
  <2>1. DOMAIN seen = Fields /\ seen.end = "error"
    BY DEF TurnTyped, Fields
  <2>2. Ended(seen, FALSE) /\ turn.pc # "idle"
    BY <1>7 DEF CallFails
  <2> HIDE DEF seen
  <2> QED
    BY <2>1, <2>2, EndedIs DEF TurnTyped
<1>8. CASE Log \/ Leave \/ Restart
  <2>1. turn' = [NoTurn EXCEPT !.n = turn.n]
    BY <1>8 DEF Log, Leave, Restart
  <2> QED
    BY <2>1, NoTurnIs, UnseenFields DEF TurnTyped
<1>9. ASSUME Aside \/ Produce PROVE UNCHANGED turn
  BY <1>9 DEF Aside, Produce
<1> QED
  BY <1>1, <1>2, <1>3, <1>4, <1>5, <1>6, <1>7, <1>8, <1>9, StepKinds

\* ... in its place ...
LEMMA PlaceStep ==
  ASSUME StoreOK, TurnOK, TurnTyped, PlaceOK, StoreGoesOn, [Next]_vars
  PROVE  PlaceOK'
<1>0. \A s \in Session : sessions[s].state # "none" => sessions'[s].state # "none"
  BY MadeStays
<1>1. CASE UNCHANGED turn
  BY <1>0, <1>1 DEF PlaceOK
<1>2. CASE StartTurn
  <2>1. UNCHANGED sessions
    BY <1>2 DEF StartTurn
  <2> QED
    BY <1>2, <2>1, StartTurnIs DEF PlaceOK
<1>3. CASE CreateServed
  <2>1. PICK s \in Session :
          /\ sessions' = [sessions EXCEPT ![s].state = "live", ![s].opener = <<<<turn.n>>>>]
          /\ turn' = [turn EXCEPT !.pc = "created", !.session = s]
    BY <1>3 DEF CreateServed
  <2>2. sessions'[s].state = "live"
    BY <2>1 DEF StoreOK
  <2>3. turn.pc = "creating"
    BY <1>3 DEF CreateServed
  <2>4. ~ Direct(turn.script)
    BY <2>3 DEF PlaceOK
  <2> QED
    BY ZenonT(40), <2>1, <2>2, <2>4, TurnStays DEF PlaceOK
<1>4. CASE \/ CreateAnswered \/ Asked \/ BodyEnds \/ BodyCutShort \/ CallFails \/ Receive
  <2>1. turn'.session = turn.session /\ turn'.script = turn.script
    BY <1>4 DEF CreateAnswered, Asked, BodyEnds, BodyCutShort, CallFails, Ended, Receive, TurnOK
  <2>2. turn.pc # "idle"
    BY <1>4 DEF CreateAnswered, Asked, BodyEnds, BodyCutShort, CallFails, Receive
  <2>3. turn'.pc \notin {"creating", "created"}
    BY <1>4 DEF CreateAnswered, Asked, BodyEnds, BodyCutShort, CallFails, Ended, Receive, TurnOK
  <2> QED
    BY <1>0, <2>1, <2>2, <2>3 DEF PlaceOK
<1>5. CASE Log \/ Leave \/ Restart
  <2>1. turn' = [NoTurn EXCEPT !.n = turn.n]
    BY <1>5 DEF Log, Leave, Restart
  <2> QED
    BY <2>1, NoTurnIs DEF PlaceOK
<1>6. ASSUME Aside \/ Produce PROVE UNCHANGED turn
  BY <1>6 DEF Aside, Produce
<1> QED
  BY <1>1, <1>2, <1>3, <1>4, <1>5, <1>6, StepKinds

\* The error that takes the place of an event may be sent.
LEMMA ErrorSendable ==
  ASSUME NEW n \in Nat, NEW streaming \in BOOLEAN
  PROVE  ErrorEvent(n) \in Sendable(n, streaming)
BY OtherIs

\* ... and what streams its own.
LEMMA WireStep ==
  ASSUME TurnOK, TurnTyped, WireOK, [Next]_vars
  PROVE  WireOK'
<1>0. turn.n \in Nat
  BY ConversationAssumption DEF TurnTyped
<1>1. CASE Aside
  BY <1>1 DEF Aside, WireOK, Streams, Arrived
<1>2. CASE StartTurn \/ CreateServed \/ CreateAnswered
  <2>1. UNCHANGED <<engine, wire, half, buf>> /\ turn.pc # "reading" /\ turn'.pc # "reading"
    BY <1>2, StartTurnIs DEF StartTurn, CreateServed, CreateAnswered, TurnOK, body
  <2> QED
    BY <2>1 DEF WireOK
<1>3. CASE Asked
  <2>1. /\ engine' = Sent(turn.n, turn.script, ~ turn.buffered)
        /\ turn' = [turn EXCEPT !.pc = "reading"] /\ UNCHANGED <<wire, half, buf>>
        /\ turn.pc = "asking"
    BY <1>3 DEF Asked, body
  <2>2. turn'.pc = "reading" /\ turn'.n = turn.n /\ turn'.script = turn.script
        /\ turn'.buffered = turn.buffered
    BY <2>1 DEF TurnOK
  <2>3. wire = <<>> /\ ~ half
    BY <2>1 DEF WireOK
  <2>4. turn.script \in Scripts /\ turn.buffered \in BOOLEAN
    BY <2>1 DEF TurnTyped
  <2>5. \E T : Streams(T)'
    <3>1. CASE Direct(turn.script)
      <4>1. PICK T : engine' \in Seq(T)
        BY <1>0, <2>1, <2>4, <3>1, DirectAnswer
      <4>2. wire' \in Seq(T)
        BY <2>1, <2>3
      <4> QED
        BY <2>2, <3>1, <4>1, <4>2 DEF Streams
    <3>2. CASE ~ Direct(turn.script)
      <4> DEFINE streaming == ~ turn.buffered
      <4>1. streaming \in BOOLEAN
        BY <2>4
      <4> HIDE DEF streaming
      <4>2. Sent(turn.n, turn.script, streaming) \in Seq(Sendable(turn.n, streaming))
        BY <1>0, <2>4, <3>2, <4>1, AgentAnswer
      <4> DEFINE T == Sendable(turn.n, streaming)
      <4>3. engine' \in Seq(T) /\ wire' \in Seq(T)
        <5>1. engine' \in Seq(T)
          BY <2>1, <4>2 DEF streaming
        <5> QED
          BY <2>1, <2>3, <5>1
      <4>4. T = Sendable(turn'.n, ~ turn'.buffered)
        BY <2>2 DEF streaming
      <4> HIDE DEF T
      <4> QED
        BY <4>3, <4>4 DEF Streams
    <3> QED
      BY <3>1, <3>2
  <2> QED
    BY <2>1, <2>2, <2>3, <2>5 DEF WireOK
<1>4. CASE Produce
  <2> DEFINE ev == Head(engine)
  <2>1. turn.pc = "reading" /\ engine # <<>> /\ UNCHANGED <<half, buf, turn>>
    BY <1>4 DEF Produce
  <2>2. \/ engine' = Tail(engine) /\ wire' = Append(wire, ev)
        \/ engine' = <<>> /\ wire' = Append(wire, ErrorEvent(turn.n)) /\ ~ Direct(turn.script)
    BY <1>4 DEF Produce
  <2>3. PICK T : Streams(T)
    BY <2>1 DEF WireOK
  <2>4. Head(engine) \in T /\ Tail(engine) \in Seq(T)
    BY <2>1, <2>3, FirstOf DEF Streams
  <2> HIDE DEF ev
  <2>5. ~ Direct(turn.script) => ErrorEvent(turn.n) \in T
    <3> DEFINE streaming == ~ turn.buffered
    <3>1. streaming \in BOOLEAN
      BY DEF TurnTyped
    <3>2. ~ Direct(turn.script) => T = Sendable(turn.n, streaming)
      BY <2>3 DEF Streams
    <3> HIDE DEF streaming
    <3> QED
      BY <1>0, <3>1, <3>2, ErrorSendable
  <2>6. wire \in Seq(T)
    BY <2>3 DEF Streams
  <2>7. engine' \in Seq(T) /\ wire' \in Seq(T) /\ wire' # <<>>
    <3>1. CASE engine' = Tail(engine) /\ wire' = Append(wire, ev)
      BY <2>4, <2>6, <3>1 DEF ev
    <3>2. CASE engine' = <<>> /\ wire' = Append(wire, ErrorEvent(turn.n)) /\ ~ Direct(turn.script)
      BY <2>5, <2>6, <3>2
    <3> QED
      BY <2>2, <3>1, <3>2
  <2>8. Streams(T)'
    BY <2>1, <2>3, <2>7 DEF Streams
  <2>9. Arrived(wire, half) = Arrived(wire', half)
    <3>1. half => wire # <<>>
      BY DEF WireOK
    <3>2. \E e : wire' = Append(wire, e)
      BY <2>2
    <3> QED
      BY <2>6, <3>1, <3>2 DEF Arrived
  <2> QED
    BY <2>1, <2>7, <2>8, <2>9 DEF WireOK
<1>5. CASE Receive
  <2>1. PICK n \in 0 .. Len(wire), rest \in BOOLEAN :
          /\ rest => n < Len(wire)
          /\ ~ turn.buffered
          /\ LET seen == RelayAll(turn.seen, turn.script, SubSeq(wire, 1, n))
             IN IF seen.end = "none"
                THEN /\ turn' = [turn EXCEPT !.seen = seen]
                     /\ wire' = SubSeq(wire, n + 1, Len(wire))
                     /\ half' = rest /\ buf' = Arrived(wire', rest)
                     /\ UNCHANGED engine
                ELSE Ended(seen, FALSE) /\ NoBody /\ engine' = <<>>
    BY <1>5, ReceiveIs
  <2> DEFINE seen == RelayAll(turn.seen, turn.script, SubSeq(wire, 1, n))
             left2 == SubSeq(wire, n + 1, Len(wire))
  <2>2. turn.pc = "reading"
    BY <1>5 DEF Receive
  <2>3. PICK T : Streams(T)
    BY <2>2 DEF WireOK
  <2>4. left2 \in Seq(T) /\ (n < Len(wire) => left2 # <<>>)
    BY <2>3, SplitAt DEF Streams
  <2>5. \/ /\ turn' = [turn EXCEPT !.seen = seen] /\ wire' = left2 /\ half' = rest
             /\ buf' = Arrived(wire', rest)
           /\ UNCHANGED engine
        \/ Ended(seen, FALSE) /\ NoBody /\ engine' = <<>>
    BY <2>1
  <2> HIDE DEF seen, left2
  <2>6. CASE /\ turn' = [turn EXCEPT !.seen = seen] /\ wire' = left2 /\ half' = rest
             /\ buf' = Arrived(wire', rest)
             /\ UNCHANGED engine
    <3>1. /\ turn'.pc = turn.pc /\ turn'.n = turn.n /\ turn'.script = turn.script
          /\ turn'.buffered = turn.buffered
      BY <2>6 DEF TurnOK
    <3>2. Streams(T)'
      BY <2>3, <2>4, <2>6, <3>1 DEF Streams
    <3> QED
      BY <2>1, <2>2, <2>4, <2>6, <3>1, <3>2 DEF WireOK
  <2>7. CASE Ended(seen, FALSE) /\ NoBody /\ engine' = <<>>
    BY <2>7, EndedIs DEF WireOK, NoBody, Arrived
  <2> QED
    BY <2>5, <2>6, <2>7
<1>6. CASE BodyEnds
  <2>1. turn'.pc = "ended" /\ NoBody /\ engine' = <<>>
    BY <1>6, EndedIs DEF BodyEnds
  <2> QED
    BY <2>1 DEF WireOK, NoBody, Arrived
<1>7. CASE BodyCutShort \/ CallFails
  <2>1. turn'.pc = "ended" /\ engine' = <<>> /\ NoBody
    BY <1>7, EndedIs DEF BodyCutShort, CallFails
  <2> QED
    BY <2>1 DEF WireOK, NoBody, Arrived
<1>8. CASE Leave \/ Restart
  <2>1. engine' = <<>> /\ NoBody /\ turn'.pc = "idle"
    BY <1>8, NoTurnIs DEF Leave, Restart
  <2> QED
    BY <2>1 DEF WireOK, NoBody, Arrived
<1>9. CASE Log
  <2>1. UNCHANGED <<engine, wire, half, buf>> /\ turn.pc = "ended" /\ turn'.pc = "idle"
    BY <1>9, NoTurnIs DEF Log, body
  <2> QED
    BY <2>1 DEF WireOK
<1> QED
  BY <1>1, <1>2, <1>3, <1>4, <1>5, <1>6, <1>7, <1>8, <1>9, StepKinds

-----------------------------------------------------------------------------
(* What a step does to the sessions and to the log.                        *)

\* The engine stores the message, and then what it sends that is not partial.
StoresMessage(s) ==
  /\ Asked /\ s = turn.session /\ Live(s) /\ ~ Direct(turn.script)
  /\ sessions'[s].events = Append(sessions[s].events, UserEvent(turn.n))
StoresAnswer(s) ==
  /\ Produce /\ s = turn.session /\ Live(s) /\ ~ Direct(turn.script)
  /\ Head(engine) \in Sendable(turn.n, ~ turn.buffered)
  /\ ~ Head(engine).partial /\ ~ Head(engine).error
  /\ engine' = Tail(engine) /\ wire' = Append(wire, Head(engine))
  /\ sessions'[s].events = Append(sessions[s].events, Head(engine))

\* What a step does to a session: it leaves its events, deletes them, or adds one of the
\* turn in flight.
Stores(s) ==
  \/ /\ sessions'[s].events = sessions[s].events
     /\ sessions[s].state = "none" => sessions'[s].state \in {"none", "live"}
     /\ sessions[s].state # "none" => sessions'[s].state = sessions[s].state
  \/ sessions'[s].state = "deleted" /\ sessions'[s].events = <<>>
  \/ sessions'[s].state = sessions[s].state /\ (StoresMessage(s) \/ StoresAnswer(s))

\* The fields of a session that stores.
LEMMA StoringIs ==
  ASSUME StoreOK, NEW s, NEW ev, sessions' = [sessions EXCEPT ![s].events = Append(@, ev)],
         NEW x \in Session
  PROVE  /\ sessions'[x].state = sessions[x].state
         /\ x # s => sessions'[x].events = sessions[x].events
         /\ x = s => sessions'[x].events = Append(sessions[x].events, ev)
<1>1. CASE x # s
  <2>1. sessions'[x] = sessions[x]
    BY <1>1 DEF StoreOK
  <2> QED
    BY <1>1, <2>1
<1>2. CASE x = s
  <2>1. sessions'[x] = [sessions[x] EXCEPT !.events = Append(sessions[x].events, ev)]
    BY <1>2 DEF StoreOK
  <2> QED
    BY <1>2, <2>1 DEF StoreOK
<1> QED
  BY <1>1, <1>2

\* Every step does one of these to every session.
LEMMA StoreMoves ==
  ASSUME StoreOK, TurnOK, WireOK, [Next]_vars, NEW s \in Session
  PROVE  Stores(s)
<1>1. CASE UNCHANGED sessions
  BY <1>1 DEF Stores, StoreOK
<1>2. CASE CreateServed
  <2>1. PICK x \in Session :
          /\ sessions[x].state = "none"
          /\ sessions' = [sessions EXCEPT ![x].state = "live", ![x].opener = <<<<turn.n>>>>]
    BY <1>2 DEF CreateServed
  <2>2. s # x => sessions'[s] = sessions[s]
    BY <2>1 DEF StoreOK
  <2>3. sessions'[x].state = "live" /\ sessions'[x].events = sessions[x].events
    BY <2>1 DEF StoreOK
  <2> QED
    BY <2>1, <2>2, <2>3 DEF Stores, StoreOK
<1>3. CASE DeleteServed
  <2> DEFINE x == delete.session
  <2>1. sessions' = [sessions EXCEPT ![x].state = "deleted", ![x].events = <<>>]
    BY <1>3 DEF DeleteServed
  <2> HIDE DEF x
  <2>2. s # x => sessions'[s] = sessions[s]
    BY <2>1 DEF StoreOK
  <2>3. s = x => sessions'[s].state = "deleted" /\ sessions'[s].events = <<>>
    BY <2>1 DEF StoreOK
  <2> QED
    BY <2>2, <2>3 DEF Stores, StoreOK
<1>4. CASE Asked
  <2>1. CASE Direct(turn.script)
    <3>1. UNCHANGED sessions
      BY <1>4, <2>1 DEF Asked
    <3> QED
      BY <1>1, <3>1
  <2>2. CASE ~ Direct(turn.script)
    <3> DEFINE ev == UserEvent(turn.n)
               x == turn.session
    <3>1. sessions' = [sessions EXCEPT ![x].events = Append(@, ev)] /\ Live(x)
      BY <1>4, <2>2 DEF Asked
    <3> HIDE DEF ev, x
    <3>2. /\ sessions'[s].state = sessions[s].state
          /\ s # x => sessions'[s].events = sessions[s].events
          /\ s = x => sessions'[s].events = Append(sessions[s].events, ev)
      BY <3>1, StoringIs
    <3>3. CASE s # x
      BY <3>2, <3>3 DEF Stores, StoreOK
    <3>4. CASE s = x
      <4>1. StoresMessage(s)
        BY <1>4, <2>2, <3>1, <3>2, <3>4 DEF StoresMessage, ev, x
      <4> QED
        BY <3>2, <4>1 DEF Stores
    <3> QED
      BY <3>3, <3>4
  <2> QED
    BY <2>1, <2>2
<1>5. CASE Produce
  <2> DEFINE ev == Head(engine)
             stored == ~ Direct(turn.script) /\ ~ ev.partial /\ ~ ev.error
             x == turn.session
  <2>1. IF stored /\ ~ Live(x) THEN UNCHANGED sessions
        ELSE /\ engine' = Tail(engine) /\ wire' = Append(wire, ev)
             /\ sessions' = IF stored THEN [sessions EXCEPT ![x].events = Append(@, ev)]
                            ELSE sessions
    BY <1>5 DEF Produce
  <2>2. CASE ~ (stored /\ Live(x))
    <3>1. UNCHANGED sessions
      BY <2>1, <2>2
    <3> QED
      BY <1>1, <3>1
  <2>3. CASE stored /\ Live(x)
    <3>1. turn.pc = "reading" /\ engine # <<>>
      BY <1>5 DEF Produce
    <3>2. PICK T : Streams(T)
      BY <3>1 DEF WireOK
    <3>3. ev \in Sendable(turn.n, ~ turn.buffered)
      <4>1. Head(engine) \in T
        BY <3>1, <3>2, FirstOf DEF Streams
      <4> QED
        BY <2>3, <3>2, <4>1 DEF Streams
    <3>4. /\ sessions' = [sessions EXCEPT ![x].events = Append(@, ev)]
          /\ engine' = Tail(engine) /\ wire' = Append(wire, ev)
          /\ ~ Direct(turn.script) /\ ~ ev.partial /\ ~ ev.error
      BY <2>1, <2>3
    <3> HIDE DEF ev, stored, x
    <3>5. /\ sessions'[s].state = sessions[s].state
          /\ s # x => sessions'[s].events = sessions[s].events
          /\ s = x => sessions'[s].events = Append(sessions[s].events, ev)
      BY <3>4, StoringIs
    <3>6. CASE s # x
      BY <3>5, <3>6 DEF Stores, StoreOK
    <3>7. CASE s = x
      <4>1. StoresAnswer(s)
        BY <1>5, <2>3, <3>3, <3>4, <3>5, <3>7 DEF StoresAnswer, ev, x
      <4> QED
        BY <3>5, <4>1 DEF Stores
    <3> QED
      BY <3>6, <3>7
  <2> QED
    BY <2>2, <2>3
<1>6. ASSUME \/ UNCHANGED vars \/ StartTurn \/ CreateAnswered \/ Receive \/ BodyEnds
             \/ BodyCutShort
             \/ CallFails \/ Log \/ Leave \/ List \/ DeleteAsked \/ DeleteAnswered \/ DeleteFails
             \/ Restart \/ \E x \in DOMAIN fills : FillServed(x) \/ FillAnswered(x)
               \/ FillFails(x)
      PROVE  UNCHANGED sessions
  BY <1>6 DEF vars, StartTurn, CreateAnswered, Receive, BodyEnds, BodyCutShort, CallFails, Log,
    Leave,
    List, DeleteAsked, DeleteAnswered, DeleteFails, Restart, FillServed, FillAnswered, FillFails
<1> QED
  BY <1>1, <1>2, <1>3, <1>4, <1>5, <1>6 DEF Next, TurnStep, SidebarStep

\* How the turn's number and place move.
TurnMoves ==
  /\ turn.n \in Nat /\ turn'.n \in Nat
  /\ turn'.n = turn.n \/ (turn.pc = "idle" /\ turn'.n = turn.n + 1)
  /\ turn'.pc \in {"creating", "created", "asking"} =>
       turn'.n = turn.n + 1 \/ turn.pc \in {"creating", "created", "asking"}

\* The number of the turn never falls, and only the turn in flight asks.
LEMMA TurnMovesOn ==
  ASSUME TurnOK, TurnTyped, TurnTyped', [Next]_vars
  PROVE  TurnMoves
<1>0. turn.n \in Nat /\ turn'.n \in Nat
  BY ConversationAssumption DEF TurnTyped
<1>1. CASE Aside \/ Produce
  BY <1>0, <1>1 DEF Aside, Produce, TurnMoves
<1>2. CASE StartTurn
  BY <1>0, <1>2, StartTurnIs DEF TurnMoves
<1>3. CASE CreateServed \/ CreateAnswered
  <2>1. turn'.n = turn.n /\ turn.pc \in {"creating", "created"}
    BY <1>3 DEF CreateServed, CreateAnswered, TurnOK
  <2> QED
    BY <1>0, <2>1 DEF TurnMoves
<1>4. CASE Asked
  BY <1>0, <1>4 DEF Asked, TurnOK, TurnMoves
<1>5. CASE Receive
  <2>1. turn'.n = turn.n /\ turn.pc = "reading" /\ turn'.pc \in {"reading", "ended"}
    BY <1>5 DEF Receive, Ended, TurnOK
  <2> QED
    BY <1>0, <2>1 DEF TurnMoves
<1>6. CASE BodyEnds \/ BodyCutShort \/ CallFails
  <2>1. turn'.n = turn.n /\ turn'.pc = "ended"
    BY <1>6, EndedIs DEF BodyEnds, BodyCutShort, CallFails
  <2> QED
    BY <1>0, <2>1 DEF TurnMoves
<1>7. CASE Log \/ Leave \/ Restart
  <2>1. turn'.n = turn.n /\ turn'.pc = "idle"
    BY <1>7, NoTurnIs DEF Log, Leave, Restart
  <2> QED
    BY <1>0, <2>1 DEF TurnMoves
<1> QED
  BY <1>1, <1>2, <1>3, <1>4, <1>5, <1>6, <1>7, StepKinds

\* Every step keeps what is stored typed and in order.
LEMMA HistoryStep ==
  ASSUME StoreOK, TurnOK, TurnTyped, WireOK, HistoryOK, TurnTyped', [Next]_vars
  PROVE  HistoryOK'
<1>0. TurnMoves
  BY TurnMovesOn
<1> SUFFICES ASSUME NEW s \in Session
             PROVE  /\ sessions'[s].events \in Seq(Event)
                    /\ sessions'[s].state # "live" => sessions'[s].events = <<>>
                    /\ \A k \in DOMAIN sessions'[s].events :
                         /\ sessions'[s].events[k].turn <= turn'.n
                         /\ turn'.pc \in {"creating", "created", "asking"} =>
                              sessions'[s].events[k].turn # turn'.n
  BY DEF HistoryOK
<1> DEFINE old == sessions[s].events
           new == sessions'[s].events
<1>1. /\ old \in Seq(Event) /\ (sessions[s].state # "live" => old = <<>>)
      /\ \A k \in DOMAIN old :
           /\ old[k].turn \in Nat /\ old[k].turn <= turn.n
           /\ turn.pc \in {"creating", "created", "asking"} => old[k].turn # turn.n
  <2>1. /\ old \in Seq(Event) /\ (sessions[s].state # "live" => old = <<>>)
        /\ \A k \in DOMAIN old :
             /\ old[k].turn <= turn.n
             /\ turn.pc \in {"creating", "created", "asking"} => old[k].turn # turn.n
    BY DEF HistoryOK
  <2> HIDE DEF old
  <2>2. \A k \in DOMAIN old : old[k] \in Event
    BY <2>1
  <2>3. \A ev \in Event : ev.turn \in Nat
    BY DEF Event
  <2> QED
    BY <2>1, <2>2, <2>3
<1> HIDE DEF old, new
<1>2. \A k \in DOMAIN old :
        /\ old[k].turn <= turn'.n
        /\ turn'.pc \in {"creating", "created", "asking"} => old[k].turn # turn'.n
  BY <1>0, <1>1 DEF TurnMoves
<1>3. CASE /\ new = old
           /\ sessions[s].state = "none" => sessions'[s].state \in {"none", "live"}
           /\ sessions[s].state # "none" => sessions'[s].state = sessions[s].state
  BY <1>1, <1>2, <1>3 DEF old, new
<1>4. CASE sessions'[s].state = "deleted" /\ new = <<>>
  BY <1>4 DEF new
<1>5. ASSUME NEW ev \in Event, ev.turn = turn.n, new = Append(old, ev),
             turn'.n = turn.n, turn'.pc = "reading", sessions'[s].state = "live"
      PROVE  /\ new \in Seq(Event)
             /\ sessions'[s].state # "live" => new = <<>>
             /\ \A k \in DOMAIN new :
                  /\ new[k].turn <= turn'.n
                  /\ turn'.pc \in {"creating", "created", "asking"} => new[k].turn # turn'.n
  <2>1. \A k \in DOMAIN new : (k \in DOMAIN old /\ new[k] = old[k]) \/ new[k] = ev
    BY <1>1, <1>5
  <2>2. new \in Seq(Event)
    BY <1>1, <1>5
  <2>3. turn.n <= turn'.n
    BY <1>0, <1>5 DEF TurnMoves
  <2> QED
    BY <1>2, <1>5, <2>1, <2>2, <2>3
<1>6. CASE sessions'[s].state = sessions[s].state /\ StoresMessage(s)
  <2> DEFINE ev == UserEvent(turn.n)
  <2>1. ev \in Event /\ ev.turn = turn.n
    <3>1. <<turn.n>> \in Piece /\ NoAgent \in Agents /\ turn.n \in Nat
      BY <1>0 DEF Piece, Agents, TurnMoves
    <3>2. <<<<turn.n>>>> \in Seq(Piece) /\ <<>> \in Seq(Piece)
      BY <3>1
    <3> QED
      BY <3>1, <3>2 DEF UserEvent, Event, IsEvent, Blank, IsMessage
  <2>2. turn'.n = turn.n /\ turn'.pc = "reading"
    BY <1>6 DEF StoresMessage, Asked, TurnOK
  <2>3. new = Append(old, ev) /\ sessions'[s].state = "live"
    BY <1>6 DEF StoresMessage, Live, old, new
  <2> HIDE DEF ev
  <2> QED
    BY <1>5, <2>1, <2>2, <2>3 DEF new
<1>7. CASE sessions'[s].state = sessions[s].state /\ StoresAnswer(s)
  <2> DEFINE ev == Head(engine)
  <2>1. ev \in Event /\ ev.turn = turn.n
    <3>1. ev \in Sendable(turn.n, ~ turn.buffered)
      BY <1>7 DEF StoresAnswer
    <3> HIDE DEF ev
    <3> QED
      BY <3>1 DEF Sendable
  <2>2. turn'.n = turn.n /\ turn'.pc = "reading"
    BY <1>7 DEF StoresAnswer, Produce
  <2>3. new = Append(old, ev) /\ sessions'[s].state = "live"
    BY <1>7 DEF StoresAnswer, Live, old, new
  <2> HIDE DEF ev
  <2> QED
    BY <1>5, <2>1, <2>2, <2>3 DEF new
<1> QED
  BY <1>3, <1>4, <1>6, <1>7, StoreMoves DEF Stores, old, new

\* Every step keeps what is logged typed.
LEMMA LogTypedStep ==
  ASSUME TurnOK, TurnTyped, TurnTyped', LogTyped, [Next]_vars
  PROVE  LogTyped'
<1>0. TurnMoves
  BY TurnMovesOn
<1>1. ASSUME UNCHANGED log, turn.pc = "idle" => turn'.pc = "idle" \/ turn'.n = turn.n + 1
      PROVE  LogTyped'
  <2>1. \A n \in DOMAIN log' : n \in Nat /\ 1 <= n /\ n <= turn.n
    BY <1>0, <1>1 DEF LogTyped, TurnMoves
  <2>2. DOMAIN log' \subseteq 1 .. turn'.n
    BY <1>0, <2>1 DEF TurnMoves
  <2>3. ASSUME turn'.pc # "idle" PROVE turn'.n \notin DOMAIN log'
    <3>1. CASE turn.pc = "idle"
      <4>1. turn'.n = turn.n + 1
        BY <1>1, <2>3, <3>1
      <4> QED
        BY <1>0, <2>1, <4>1 DEF TurnMoves
    <3>2. CASE turn.pc # "idle"
      <4>1. turn'.n = turn.n
        BY <1>0, <3>2 DEF TurnMoves
      <4> QED
        BY <1>1, <3>2, <4>1 DEF LogTyped
    <3> QED
      BY <3>1, <3>2
  <2> QED
    BY <2>2, <2>3 DEF LogTyped
<1>2. CASE Log
  <2>1. turn'.n = turn.n /\ turn'.pc = "idle" /\ turn.n \in Nat /\ turn.pc # "idle"
    BY <1>0, <1>2, NoTurnIs DEF Log, TurnMoves
  <2>2. DOMAIN log' \subseteq DOMAIN log \cup {turn.n}
    BY <1>2 DEF Log, With
  <2>3. turn.n # 0
    BY <2>1 DEF TurnTyped
  <2> QED
    BY <2>1, <2>2, <2>3 DEF LogTyped
<1>3. CASE StartTurn
  BY <1>1, <1>3, StartTurnIs DEF StartTurn
<1>4. CASE Aside \/ Produce
  BY <1>1, <1>4 DEF Aside, Produce
<1>5. CASE \/ CreateServed \/ CreateAnswered \/ Asked \/ Receive \/ BodyEnds \/ BodyCutShort
           \/ CallFails \/ Leave \/ Restart
  <2>1. UNCHANGED log
    BY <1>5 DEF CreateServed, CreateAnswered, Asked, Receive, BodyEnds, BodyCutShort, CallFails,
      Leave, Restart
  <2>2. turn.pc = "idle" => turn'.pc = "idle"
    BY <1>5, NoTurnIs DEF CreateServed, CreateAnswered, Asked, Receive, BodyEnds, BodyCutShort,
      CallFails, Leave, Restart
  <2> QED
    BY <1>1, <2>1, <2>2
<1> QED
  BY <1>2, <1>3, <1>4, <1>5, StepKinds

-----------------------------------------------------------------------------
(* Type correctness, and the invariant behind AnswersReplay.               *)

\* The inductive invariant behind TypeOK.
TypeInv == TitleInv /\ FlightInv

\* Every step keeps it ...
LEMMA FlightStep ==
  ASSUME TypeInv, [Next]_vars
  PROVE  TypeInv' /\ StoreGoesOn
<1> USE DEF TypeInv, TitleInv, FlightInv
<1>1. TitleInv' /\ StoreGoesOn
  BY StoreStep, TitleStep
<1>2. TurnTyped'
  BY TurnTypedStep
<1>3. PlaceOK' /\ WireOK'
  BY <1>1, PlaceStep, WireStep
<1>4. HistoryOK' /\ LogTyped'
  BY <1>2, HistoryStep, LogTypedStep
<1> QED
  BY <1>1, <1>2, <1>3, <1>4

\* ... and it holds at the beginning.
LEMMA FlightBegins ==
  ASSUME Init
  PROVE  FlightInv
<1>1. /\ turn.n = 0 /\ turn.pc = "idle" /\ turn.session = NoSession /\ turn.buffered = FALSE
      /\ turn.seen = Unseen
  BY DEF Init, NoTurn
<1>2. TurnTyped
  <2>1. turn.n \in 0 .. MaxTurns
    BY <1>1, ConversationAssumption
  <2>2. DOMAIN turn.seen = Fields
    BY <1>1, UnseenFields
  <2> QED
    BY <1>1, <2>1, <2>2 DEF TurnTyped
<1>3. PlaceOK /\ WireOK
  BY <1>1 DEF PlaceOK, WireOK, Init, Arrived
<1>4. HistoryOK
  <2>1. \A s \in Session : sessions[s].events = <<>>
    BY DEF Init
  <2>2. <<>> \in Seq(Event) /\ DOMAIN <<>> = {}
    OBVIOUS
  <2> QED
    BY <2>1, <2>2, Zenon DEF HistoryOK
<1>5. LogTyped
  BY <1>1 DEF LogTyped, Init
<1> QED
  BY <1>2, <1>3, <1>4, <1>5 DEF FlightInv

\* TypeOK: the variables keep their types; what streams belongs to the turn in flight, and
\* nothing is left of it when the turn has ended (agent_turn_stream, the generators of
\* server.py, delete_session, _cache_title), for any number of sessions and turns, any
\* answers and any cutting of a body into chunks.
THEOREM ConversationTyped == Spec => []TypeOK
<1>1. Init => TypeInv
  BY FlightBegins, TitlesBegin DEF TypeInv
<1>2. TypeInv /\ [Next]_vars => TypeInv'
  BY FlightStep
<1>3. TypeInv => TypeOK
  <2> SUFFICES ASSUME TypeInv PROVE TypeOK
    OBVIOUS
  <2> USE DEF TypeInv, TitleInv, FlightInv
  <2>1. \A s \in Session : /\ sessions[s].state \in {"none", "live", "deleted"}
                           /\ sessions[s].state # "live" => sessions[s].events = <<>>
    BY DEF StoreOK, HistoryOK
  <2>2. /\ turn.pc \in {"idle", "creating", "created", "asking", "reading", "ended"}
        /\ turn.n \in 0..MaxTurns /\ DOMAIN log \subseteq 1..turn.n
    BY DEF TurnTyped, LogTyped
  <2>3. /\ turn.pc # "reading" => engine = <<>> /\ wire = <<>> /\ ~half
        /\ half => wire # <<>>
        /\ buf = IF half THEN <<[obj |-> wire[1], part |-> "front"]>> ELSE <<>>
    BY DEF WireOK, Arrived
  <2>4. (turn.pc = "ended") <=> (turn.seen.end # "none")
    BY UnseenFields DEF TurnTyped
  <2>5. DOMAIN cache \subseteq Session /\ DOMAIN fills \subseteq Session
    BY DEF CacheOK, UnderwayOK, Underway
  <2>6. delete.pc \in {"idle", "asked", "served"}
    BY DEF DeleteOK
  <2> QED
    BY <2>1, <2>2, <2>3, <2>4, <2>5, <2>6 DEF TypeOK
<1> QED
  BY <1>1, <1>2, <1>3, PTL DEF Spec

-----------------------------------------------------------------------------
\* What was sent of the answer, and what of it was shown.
Halfway(sent, shown) ==
  /\ Sent(turn.n, turn.script, ~ turn.buffered) = sent \o engine
  /\ sent = shown \o wire
  /\ turn.seen = RelayAll(Unseen, turn.script, shown)
  /\ turn.buffered => shown = <<>>

\* What was sent is what the session remembers of the turn, which is the last one.
Remembered(sent) ==
  LET events == sessions[turn.session].events
  IN Asking(Acc(events), turn.n) /\ Recorded(events, turn.n, KeptAfter(Nothing, sent))

\* While a turn reads, some of what was sent has been shown and the rest is on its way; the
\* session remembers all that was sent.
ReadOK ==
  turn.pc = "reading" /\ (Direct(turn.script) \/ Live(turn.session)) =>
    \E T : /\ Streams(T)
           /\ \E sent, shown \in Seq(T) :
                Halfway(sent, shown) /\ (Direct(turn.script) \/ Remembered(sent))

\* The answer is told as the session remembers it, or as the model sent it.
Tells(seen) ==
  IF Direct(turn.script)
  THEN seen.usage = 1 + turn.script[1].words /\ Len(seen.words) = turn.script[1].words
  ELSE Live(turn.session) =>
         Recorded(sessions[turn.session].events, turn.n,
                  [pending |-> Turn("model", seen.thoughts, seen.words, seen.chips),
                   calls |-> seen.usage])

\* A turn that ended well told its answer so.
EndOK ==
  turn.pc = "ended" /\ turn.seen.end = "done" /\ ~ turn.cut => Tells(turn.seen)

\* So did every turn that is logged.
Told(entry, n) ==
  \E kept : /\ Recorded(sessions[entry.session].events, n, kept)
            /\ entry.response = Trunc(kept.pending.words) /\ entry.chips = kept.pending.chips
            /\ entry.usage = kept.calls
LogOK ==
  \A n \in DOMAIN log :
    /\ log[n].session # NoSession =>
         log[n].session \in Session /\ sessions[log[n].session].state # "none"
    /\ log[n].sound /\ Live(log[n].session) => Told(log[n], n)

\* The inductive invariant behind AnswersReplay.
AnswerInv == TypeInv /\ ReadOK /\ EndOK /\ LogOK

\* A session that lives on has lost nothing.
LEMMA LivesOn ==
  ASSUME TypeInv, [Next]_vars, NEW s \in Session, sessions[s].state # "none",
         sessions'[s].state = "live"
  PROVE  /\ Live(s) /\ s # NoSession
         /\ \/ sessions'[s].events = sessions[s].events
            \/ StoresMessage(s) \/ StoresAnswer(s)
<1>1. Stores(s)
  BY StoreMoves DEF TypeInv, TitleInv, FlightInv
<1> QED
  BY <1>1, ConversationAssumption DEF Stores, Live

\* Unless something is stored, it is as it was.
LEMMA LivesUnchanged ==
  ASSUME TypeInv, [Next]_vars, NEW s,
         s # NoSession => s \in Session /\ sessions[s].state # "none",
         Live(s)', ~ (Asked \/ Produce)
  PROVE  Live(s) /\ sessions'[s].events = sessions[s].events
<1>1. s \in Session /\ sessions[s].state # "none" /\ sessions'[s].state = "live"
  BY DEF Live
<1> QED
  BY <1>1, LivesOn DEF StoresMessage, StoresAnswer

\* When the engine takes the message, nothing has been sent.
LEMMA AskedReads ==
  ASSUME TypeInv, TypeInv', Asked, [Next]_vars
  PROVE  ReadOK'
<1> USE DEF TypeInv, TitleInv, FlightInv
<1>1. /\ turn.pc = "asking" /\ engine' = Sent(turn.n, turn.script, ~ turn.buffered)
      /\ turn' = [turn EXCEPT !.pc = "reading"] /\ UNCHANGED wire
      /\ sessions' = IF Direct(turn.script) THEN sessions
                 ELSE [sessions EXCEPT ![turn.session].events = Append(@, UserEvent(turn.n))]
      /\ Direct(turn.script) \/ Live(turn.session)
  BY DEF Asked, body
<1>2. /\ turn'.pc = "reading" /\ turn'.n = turn.n /\ turn'.session = turn.session
      /\ turn'.script = turn.script /\ turn'.buffered = turn.buffered /\ turn'.seen = turn.seen
  BY <1>1 DEF TurnOK
<1>3. wire' = <<>> /\ turn.seen = Unseen /\ turn.n \in Nat
  BY <1>1, ConversationAssumption DEF WireOK, TurnTyped
<1>4. PICK T : Streams(T)'
  BY <1>2 DEF WireOK
<1>5. engine' \in Seq(T) /\ <<>> \in Seq(T) /\ wire' \in Seq(T)
  BY <1>4 DEF Streams
<1>6. Halfway(<<>>, <<>>)'
  <2>1. <<>> \o engine' = engine' /\ <<>> \o wire' = <<>>
    BY <1>3, <1>5
  <2>2. RelayAll(Unseen, turn.script, <<>>) = Unseen
    BY <1>5, RelayAllConcat
  <2> QED
    BY <1>1, <1>2, <1>3, <2>1, <2>2 DEF Halfway
<1>7. ASSUME ~ Direct(turn.script) PROVE Remembered(<<>>)'
  <2> DEFINE s == turn.session
             events == sessions[s].events
             new == Append(events, UserEvent(turn.n))
  <2>1. s \in Session
    BY <1>1, <1>7 DEF PlaceOK, Live
  <2>2. sessions'[s].events = new
    BY <1>1, <1>7, <2>1, StoringIs
  <2>3. events \in Seq(Event) /\ \A k \in DOMAIN events : events[k].turn # turn.n
    BY <1>1, <2>1 DEF HistoryOK
  <2>4. Asking(Acc(new), turn.n) /\ Recorded(new, turn.n, Nothing)
    <3> HIDE DEF events
    <3> QED
      BY <1>3, <2>3, AskedIsRecorded
  <2> HIDE DEF new
  <2> QED
    BY <1>2, <2>2, <2>4, KeptEmpty DEF Remembered
<1> QED
  BY <1>2, <1>4, <1>5, <1>6, <1>7 DEF ReadOK

\* What is sent goes to the end of what has not been shown.
LEMMA AppendMoves ==
  ASSUME NEW T, NEW s \in Seq(T), NEW t \in Seq(T), NEW e \in T,
         NEW all, all = s \o t, NEW more, more = Append(t, e)
  PROVE  all \in Seq(T) /\ more \in Seq(T) /\ Append(all, e) = s \o more
<1> DEFINE one == Append(all, e)
           two == s \o more
<1>0. Len(s) \in Nat /\ Len(t) \in Nat
  OBVIOUS
<1>1. /\ all \in Seq(T) /\ Len(all) = Len(s) + Len(t)
      /\ \A i \in 1 .. Len(s) + Len(t) : all[i] = IF i <= Len(s) THEN s[i] ELSE t[i - Len(s)]
  OBVIOUS
<1>2. /\ more \in Seq(T) /\ Len(more) = Len(t) + 1
      /\ \A i \in 1 .. Len(t) + 1 : more[i] = IF i <= Len(t) THEN t[i] ELSE e
  OBVIOUS
<1>3. one \in Seq(T) /\ Len(one) = Len(s) + Len(t) + 1
  BY <1>1
<1>4. two \in Seq(T) /\ Len(two) = Len(s) + Len(t) + 1
  BY <1>0, <1>2
<1>5. ASSUME NEW i \in 1 .. Len(s) + Len(t) + 1 PROVE one[i] = two[i]
  BY <1>0, <1>1, <1>2
<1> HIDE DEF one, two
<1>6. one = two
  BY <1>0, <1>3, <1>4, <1>5
<1> QED
  BY <1>1, <1>2, <1>6 DEF one, two

-----------------------------------------------------------------------------
(* What the engine sends.                                                  *)

\* What the engine sends, it stores unless it is partial or an error.
LEMMA ProduceReads ==
  ASSUME TypeInv, TypeInv', ReadOK, Produce, [Next]_vars
  PROVE  ReadOK'
<1>0. /\ StoreOK /\ TurnTyped /\ PlaceOK /\ HistoryOK
  BY DEF TypeInv, TitleInv, FlightInv
<1>1. PICK s, ev : s = turn.session /\ ev = Head(engine)
  OBVIOUS
<1> DEFINE direct == Direct(turn.script)
           stored == ~ direct /\ ~ ev.partial /\ ~ ev.error
<1>2. /\ turn.pc = "reading" /\ engine # <<>> /\ turn' = turn
      /\ IF stored /\ ~ Live(s) THEN UNCHANGED sessions
         ELSE /\ engine' = Tail(engine) /\ wire' = Append(wire, ev)
              /\ sessions' = IF stored THEN [sessions EXCEPT ![s].events = Append(@, ev)]
                             ELSE sessions
  BY <1>1 DEF Produce
<1>3. CASE ~ direct /\ ~ (s # NoSession /\ sessions'[s].state = "live")
  <2>1. ~ (Direct(turn'.script) \/ Live(turn.session)')
    BY <1>1, <1>2, <1>3 DEF Live
  <2> QED
    BY <2>1 DEF ReadOK
<1>4. CASE direct \/ (s # NoSession /\ sessions'[s].state = "live")
  <2>1. ~ direct => s \in Session /\ Live(s)
    <3>1. ASSUME ~ direct PROVE s \in Session /\ Live(s)
      <4>1. s \in Session /\ sessions[s].state # "none" /\ sessions'[s].state = "live"
        BY <1>0, <1>1, <1>4, <3>1 DEF PlaceOK
      <4> QED
        BY <4>1, LivesOn
    <3> QED
      BY <3>1
  <2>2. /\ engine' = Tail(engine) /\ wire' = Append(wire, ev)
        /\ stored => sessions' = [sessions EXCEPT ![s].events = Append(@, ev)]
        /\ ~ stored => sessions' = sessions
    BY <1>2, <2>1
  <2>3. PICK T : /\ Streams(T)
                 /\ \E sent, shown \in Seq(T) :
                      Halfway(sent, shown) /\ (direct \/ Remembered(sent))
    BY <1>1, <1>2, <2>1 DEF ReadOK
  <2>4. PICK sent \in Seq(T), shown \in Seq(T) : Halfway(sent, shown)
        /\ (direct \/ Remembered(sent))
    BY <2>3
  <2>5. engine \in Seq(T) /\ wire \in Seq(T)
        /\ (~ direct => T = Sendable(turn.n, ~ turn.buffered))
    BY <2>3 DEF Streams
  <2>6. /\ ev \in T /\ Tail(engine) \in Seq(T)
        /\ sent \o engine = Append(sent, ev) \o Tail(engine)
    BY <1>1, <1>2, <2>5, FirstOf
  <2>7. PICK more : more = Append(sent, ev)
    OBVIOUS
  <2>8. more \in Seq(T) /\ Append(wire, ev) \in Seq(T) /\ more = shown \o Append(wire, ev)
    <3>1. PICK next : next = Append(wire, ev)
      OBVIOUS
    <3>2. sent = shown \o wire
      BY <2>4 DEF Halfway
    <3>3. next \in Seq(T) /\ Append(sent, ev) = shown \o next
      BY SMTT(30), <2>5, <2>6, <3>1, <3>2, AppendMoves
    <3> QED
      BY <2>6, <2>7, <3>1, <3>3
  <2>9. Streams(T)'
    <3>1. wire' \in Seq(T) /\ engine' \in Seq(T)
      BY <2>2, <2>6, <2>8
    <3> QED
      BY <1>2, <2>5, <3>1 DEF Streams
  <2>10. Halfway(more, shown)'
    <3>1. /\ Sent(turn.n, turn.script, ~ turn.buffered) = sent \o engine
          /\ turn.seen = RelayAll(Unseen, turn.script, shown) /\ (turn.buffered => shown = <<>>)
      BY <2>4 DEF Halfway
    <3>2. Sent(turn.n, turn.script, ~ turn.buffered) = more \o engine'
      BY <2>2, <2>6, <2>7, <3>1
    <3>3. more = shown \o wire'
      BY <2>2, <2>8
    <3> QED
      BY <1>2, <3>1, <3>2, <3>3 DEF Halfway
  <2>11. ASSUME ~ direct PROVE Remembered(more)'
    <3>1. PICK events, after, kept : /\ events = sessions[s].events /\ after = sessions'[s].events
                                     /\ kept = KeptAfter(Nothing, sent)
      OBVIOUS
    <3>2. events \in Seq(Event) /\ turn.n \in Nat
      BY <1>0, <2>1, <2>11, <3>1, ConversationAssumption DEF HistoryOK, TurnTyped
    <3>3. Asking(Acc(events), turn.n) /\ Recorded(events, turn.n, kept)
      BY <1>1, <2>4, <2>11, <3>1 DEF Remembered
    <3>4. KeptAfter(Nothing, more) = Stored(kept, ev)
      BY <2>6, <2>7, <3>1, KeptAppend
    <3>5. ev \in Event /\ ev.turn = turn.n /\ ~ IsMessage(ev)
      BY <2>5, <2>6, <2>11 DEF Sendable
    <3>6. stored \/ Stored(kept, ev) = kept
      BY <2>11 DEF Stored
    <3>7. /\ stored => after = Append(events, ev)
          /\ ~ stored => after = events
      <4>1. CASE stored
        <5>1. sessions' = [sessions EXCEPT ![s].events = Append(@, ev)] /\ s \in Session
          BY <2>1, <2>2, <2>11, <4>1
        <5> QED
          BY <1>0, <3>1, <4>1, <5>1, StoringIs
      <4> QED
        BY <2>2, <3>1, <4>1
    <3>8. Asking(Acc(after), turn.n) /\ Recorded(after, turn.n, Stored(kept, ev))
      <4>1. CASE stored
        <5>1. after = Append(events, ev) /\ ~ ev.partial /\ ~ ev.error
          BY <3>7, <4>1
        <5> QED
          BY <3>2, <3>3, <3>5, <5>1, AnswerIsRecorded
      <4>2. CASE ~ stored
        BY <3>3, <3>6, <3>7, <4>2
      <4> QED
        BY <4>1, <4>2
    <3>9. turn'.session = s /\ turn'.n = turn.n /\ sessions'[s].events = after
      BY <1>1, <1>2, <3>1
    <3> QED
      BY <3>4, <3>8, <3>9 DEF Remembered
  <2>12. Direct(turn'.script) \/ Remembered(more)'
    BY <1>2, <2>11
  <2>13. shown \in Seq(T) /\ more \in Seq(T)
    BY <2>8
  <2> HIDE DEF stored, direct
  <2> QED
    BY <2>9, <2>10, <2>12, <2>13, Zenon DEF ReadOK
<1> QED
  BY <1>3, <1>4

-----------------------------------------------------------------------------
(* What the browser is shown.                                              *)

\* A sequence in two parts.
Parts(all, s, t) == all = s \o t

\* What is shown goes to the end of what was shown.
LEMMA ShownMoves ==
  ASSUME NEW T, NEW s \in Seq(T), NEW t \in Seq(T), NEW u \in Seq(T),
         NEW all, Parts(all, t, u), NEW more, Parts(more, s, t), NEW whole, Parts(whole, s, all)
  PROVE  more \in Seq(T) /\ Parts(whole, more, u)
<1> USE DEF Parts
<1> DEFINE one == s \o all
           two == more \o u
           N == Len(s) + Len(t) + Len(u)
<1>0. Len(s) \in Nat /\ Len(t) \in Nat /\ Len(u) \in Nat
  OBVIOUS
<1>1. /\ all \in Seq(T) /\ Len(all) = Len(t) + Len(u)
      /\ \A i \in 1 .. Len(t) + Len(u) : all[i] = IF i <= Len(t) THEN t[i] ELSE u[i - Len(t)]
  OBVIOUS
<1>2. /\ more \in Seq(T) /\ Len(more) = Len(s) + Len(t)
      /\ \A i \in 1 .. Len(s) + Len(t) : more[i] = IF i <= Len(s) THEN s[i] ELSE t[i - Len(s)]
  OBVIOUS
<1>3. /\ one \in Seq(T) /\ Len(one) = N
      /\ \A i \in 1 .. N : one[i] = IF i <= Len(s) THEN s[i] ELSE all[i - Len(s)]
  BY <1>0, <1>1
<1>4. /\ two \in Seq(T) /\ Len(two) = N
      /\ \A i \in 1 .. N : two[i] = IF i <= Len(s) + Len(t) THEN more[i]
         ELSE u[i - (Len(s) + Len(t))]
  BY <1>0, <1>2
<1> HIDE DEF one, two
<1>5. ASSUME NEW i \in 1 .. N PROVE one[i] = two[i]
  <2>1. CASE i <= Len(s)
    <3>1. i \in 1 .. Len(s) + Len(t) /\ i <= Len(s) + Len(t)
      BY <1>0, <2>1
    <3>2. one[i] = s[i] /\ two[i] = more[i]
      BY <1>3, <1>4, <2>1, <3>1
    <3> QED
      BY <1>2, <2>1, <3>1, <3>2
  <2>2. CASE ~ (i <= Len(s)) /\ i <= Len(s) + Len(t)
    <3>1. i - Len(s) \in 1 .. Len(t) + Len(u) /\ i - Len(s) <= Len(t)
          /\ i \in 1 .. Len(s) + Len(t)
          /\ i \in 1 .. N
      <4> HIDE DEF N
      <4>1. i \in Nat /\ i > Len(s) /\ i <= Len(s) + Len(t) /\ i \in 1 .. N
        BY <1>0, <2>2 DEF N
      <4> QED
        BY <1>0, <4>1
    <3>2. one[i] = all[i - Len(s)] /\ two[i] = more[i]
      BY <1>3, <1>4, <2>2
    <3> QED
      BY <1>1, <1>2, <2>2, <3>1, <3>2
  <2>3. CASE ~ (i <= Len(s) + Len(t))
    <3>1. /\ i - Len(s) \in 1 .. Len(t) + Len(u) /\ ~ (i - Len(s) <= Len(t)) /\ ~ (i <= Len(s))
          /\ (i - Len(s)) - Len(t) = i - (Len(s) + Len(t))
      BY <1>0, <2>3
    <3>2. one[i] = all[i - Len(s)] /\ two[i] = u[i - (Len(s) + Len(t))]
      BY <1>3, <1>4, <2>3, <3>1
    <3> QED
      BY <1>1, <3>1, <3>2
  <2> QED
    BY <2>1, <2>2, <2>3
<1> HIDE DEF N
<1>6. one = two
  BY <1>3, <1>4, <1>5
<1> QED
  BY <1>2, <1>6 DEF one, two

\* An answer read in two parts.
LEMMA RelayMore ==
  ASSUME NEW seen, NEW script, NEW T, NEW objs \in Seq(T), NEW more \in Seq(T),
         NEW all, Parts(all, objs, more)
  PROVE  RelayAll(seen, script, all) = RelayAll(RelayAll(seen, script, objs), script, more)
BY RelayAllConcat DEF Parts

\* What is decoded moves from what is on its way to what was shown.
LEMMA ReceiveReads ==
  ASSUME TypeInv, ReadOK, Receive
  PROVE  ReadOK'
<1>0. TurnOK /\ WireOK
  BY DEF TypeInv, TitleInv, FlightInv
<1>1. /\ turn.pc = "reading" /\ ~ turn.buffered /\ sessions' = sessions
      /\ \E n \in 0 .. Len(wire) :
           LET seen == RelayAll(turn.seen, turn.script, SubSeq(wire, 1, n))
           IN IF seen.end = "none"
              THEN /\ turn' = [turn EXCEPT !.seen = seen]
                   /\ wire' = SubSeq(wire, n + 1, Len(wire)) /\ engine' = engine
              ELSE Ended(seen, FALSE)
  BY <1>0, ReceiveIs DEF Receive
<1>2. PICK n \in 0 .. Len(wire) :
        LET seen == RelayAll(turn.seen, turn.script, SubSeq(wire, 1, n))
        IN IF seen.end = "none"
           THEN /\ turn' = [turn EXCEPT !.seen = seen]
                /\ wire' = SubSeq(wire, n + 1, Len(wire)) /\ engine' = engine
           ELSE Ended(seen, FALSE)
  BY <1>1
<1>3. PICK first, later : first = SubSeq(wire, 1, n) /\ later = SubSeq(wire, n + 1, Len(wire))
  OBVIOUS
<1>4. PICK seen : seen = RelayAll(turn.seen, turn.script, first)
  OBVIOUS
<1>5. IF seen.end = "none"
      THEN turn' = [turn EXCEPT !.seen = seen] /\ wire' = later /\ engine' = engine
      ELSE Ended(seen, FALSE)
  BY <1>2, <1>3, <1>4
<1>6. CASE seen.end # "none"
  <2>1. turn'.pc = "ended"
    BY <1>0, <1>5, <1>6, EndedIs
  <2> QED
    BY <2>1 DEF ReadOK
<1>7. CASE seen.end = "none"
  <2>1. /\ turn'.n = turn.n /\ turn'.pc = turn.pc /\ turn'.session = turn.session
        /\ turn'.script = turn.script /\ turn'.buffered = turn.buffered /\ turn'.seen = seen
        /\ wire' = later /\ engine' = engine
    BY <1>0, <1>5, <1>7 DEF TurnOK
  <2>2. CASE ~ (Direct(turn.script) \/ Live(turn.session))
    <3>1. ~ (Direct(turn'.script) \/ Live(turn.session)')
      BY <1>1, <2>1, <2>2 DEF Live
    <3> QED
      BY <3>1 DEF ReadOK
  <2>3. CASE Direct(turn.script) \/ Live(turn.session)
    <3>1. PICK T : /\ Streams(T)
                   /\ \E sent, shown \in Seq(T) :
                        Halfway(sent, shown) /\ (Direct(turn.script) \/ Remembered(sent))
      BY <1>1, <2>3 DEF ReadOK
    <3>2. PICK sent \in Seq(T), shown \in Seq(T) :
            Halfway(sent, shown) /\ (Direct(turn.script) \/ Remembered(sent))
      BY <3>1
    <3>3. /\ engine \in Seq(T) /\ wire \in Seq(T)
          /\ (~ Direct(turn.script) => T = Sendable(turn.n, ~ turn.buffered))
      BY <3>1 DEF Streams
    <3>4. first \in Seq(T) /\ later \in Seq(T) /\ Parts(wire, first, later)
      BY <1>3, <3>3, SplitAt DEF Parts
    <3>5. PICK more : Parts(more, shown, first)
      BY DEF Parts
    <3>6. /\ Sent(turn.n, turn.script, ~ turn.buffered) = sent \o engine
          /\ sent = shown \o wire /\ turn.seen = RelayAll(Unseen, turn.script, shown)
      BY <3>2 DEF Halfway
    <3>7. more \in Seq(T) /\ sent = more \o later
      <4>1. Parts(sent, shown, wire)
        BY <3>6 DEF Parts
      <4>2. more \in Seq(T) /\ Parts(sent, more, later)
        BY <3>4, <3>5, <4>1, ShownMoves
      <4> QED
        BY <4>2 DEF Parts
    <3>8. seen = RelayAll(Unseen, turn.script, more)
      <4>1. RelayAll(Unseen, turn.script, more) =
              RelayAll(RelayAll(Unseen, turn.script, shown), turn.script, first)
        BY <3>4, <3>5, RelayMore
      <4> QED
        BY <1>4, <3>6, <4>1
    <3>9. Streams(T)'
      BY <2>1, <3>3, <3>4 DEF Streams
    <3>10. Halfway(sent, more)'
      BY <1>1, <2>1, <3>6, <3>7, <3>8 DEF Halfway
    <3>11. Direct(turn'.script) \/ Remembered(sent)'
      BY <1>1, <2>1, <3>2 DEF Remembered
    <3> QED
      BY <3>7, <3>9, <3>10, <3>11, Zenon DEF ReadOK
  <2> QED
    BY <2>2, <2>3
<1> QED
  BY <1>6, <1>7

\* What the sidebar does does not disturb the reading.
LEMMA AsideReads ==
  ASSUME TypeInv, [Next]_vars, ReadOK, Aside, ~ (Asked \/ Produce)
  PROVE  ReadOK'
<1>0. PlaceOK
  BY DEF TypeInv, FlightInv
<1>1. engine' = engine /\ wire' = wire /\ turn' = turn
  BY DEF Aside
<1>2. PICK s : s = turn.session
  OBVIOUS
<1>3. CASE ~ (Direct(turn.script) \/ (s # NoSession /\ sessions'[s].state = "live"))
  <2>1. ~ (Direct(turn'.script) \/ Live(turn.session)')
    BY <1>1, <1>2, <1>3 DEF Live
  <2> QED
    BY <2>1 DEF ReadOK
<1>4. CASE /\ Direct(turn.script) \/ (s # NoSession /\ sessions'[s].state = "live")
           /\ turn.pc = "reading"
  <2>1. ASSUME s # NoSession, sessions'[s].state = "live"
        PROVE  Live(s) /\ sessions'[s].events = sessions[s].events
    <3>1. Live(s)'
      BY <2>1 DEF Live
    <3>2. s # NoSession => s \in Session /\ sessions[s].state # "none"
      BY <1>0, <1>2 DEF PlaceOK
    <3> QED
      BY <3>1, <3>2, LivesUnchanged
  <2>2. Direct(turn.script) \/ Live(turn.session)
    BY <1>2, <1>4, <2>1
  <2>3. PICK T : /\ Streams(T)
                 /\ \E sent, shown \in Seq(T) :
                      Halfway(sent, shown) /\ (Direct(turn.script) \/ Remembered(sent))
    BY <1>4, <2>2 DEF ReadOK
  <2>4. PICK sent \in Seq(T), shown \in Seq(T) :
          Halfway(sent, shown) /\ (Direct(turn.script) \/ Remembered(sent))
    BY <2>3
  <2>5. Streams(T)' /\ Halfway(sent, shown)'
    BY <1>1, <2>3, <2>4 DEF Streams, Halfway
  <2>6. Direct(turn'.script) \/ Remembered(sent)'
    <3>1. CASE Direct(turn.script)
      BY <1>1, <3>1
    <3>2. CASE ~ Direct(turn.script)
      <4>1. sessions'[s].events = sessions[s].events
        BY <1>4, <2>1, <3>2
      <4> QED
        BY <1>1, <1>2, <2>4, <3>2, <4>1 DEF Remembered
    <3> QED
      BY <3>1, <3>2
  <2> QED
    BY <2>4, <2>5, <2>6, Zenon DEF ReadOK
<1>5. CASE turn.pc # "reading"
  BY <1>1, <1>5 DEF ReadOK
<1> QED
  BY <1>3, <1>4, <1>5

\* Only these steps leave a turn reading.
LEMMA ReadStep ==
  ASSUME TypeInv, TypeInv', [Next]_vars, ReadOK
  PROVE  ReadOK'
<1>0. TurnOK
  BY DEF TypeInv, TitleInv
<1>1. CASE Asked
  BY <1>1, AskedReads
<1>2. CASE Produce
  BY <1>2, ProduceReads
<1>3. CASE Receive
  BY <1>3, ReceiveReads
<1>4. CASE Aside /\ ~ (Asked \/ Produce)
  BY <1>4, AsideReads
<1>5. ASSUME turn'.pc # "reading" PROVE ReadOK'
  BY <1>5 DEF ReadOK
<1>6. CASE StartTurn
  BY <1>5, <1>6, StartTurnIs
<1>7. CASE CreateServed \/ CreateAnswered
  <2>1. turn'.pc \in {"created", "asking"}
    BY <1>0, <1>7 DEF CreateServed, CreateAnswered, TurnOK
  <2> QED
    BY <1>5, <2>1
<1>8. CASE BodyEnds \/ BodyCutShort \/ CallFails
  <2>1. \E seen, cut : Ended(seen, cut)
    BY <1>8 DEF BodyEnds, BodyCutShort, CallFails
  <2> QED
    BY <1>0, <1>5, <2>1, EndedIs
<1>9. CASE Log \/ Leave \/ Restart
  <2>1. turn' = [NoTurn EXCEPT !.n = turn.n]
    BY <1>9 DEF Log, Leave, Restart
  <2> QED
    BY <1>5, <2>1, NoTurnIs
<1> QED
  BY <1>1, <1>2, <1>3, <1>4, <1>6, <1>7, <1>8, <1>9, StepKinds

-----------------------------------------------------------------------------
(* How a turn ends.                                                        *)

\* Of what the engine has sent to the end, nothing is missing.
LEMMA AllSent ==
  ASSUME NEW T, NEW s \in Seq(T)
  PROVE  s \o <<>> = s
OBVIOUS

\* What a body that ends by itself comes to.
LEMMA BodyTells ==
  ASSUME TypeInv, ReadOK, turn.pc = "reading", engine = <<>>, turn.buffered \/ wire = <<>>,
         Answer.end = "done", RepeatedInOnePart
  PROVE  Tells(Answer)
<1>0. TurnTyped /\ WireOK /\ turn.n \in Nat /\ turn.script \in Scripts
      /\ turn.buffered \in BOOLEAN
  BY ConversationAssumption DEF TypeInv, FlightInv, TurnTyped
<1>1. CASE ~ Direct(turn.script) /\ ~ Live(turn.session)
  BY <1>1 DEF Tells
<1>2. CASE Direct(turn.script) \/ Live(turn.session)
  <2>1. PICK T : /\ Streams(T)
                 /\ \E sent, shown \in Seq(T) :
                      Halfway(sent, shown) /\ (Direct(turn.script) \/ Remembered(sent))
    BY <1>2 DEF ReadOK
  <2>2. PICK sent \in Seq(T), shown \in Seq(T) :
          Halfway(sent, shown) /\ (Direct(turn.script) \/ Remembered(sent))
    BY <2>1
  <2>3. wire \in Seq(T) /\ (~ Direct(turn.script) => T = Sendable(turn.n, ~ turn.buffered))
    BY <2>1 DEF Streams
  <2>4. /\ Sent(turn.n, turn.script, ~ turn.buffered) = sent \o <<>>
        /\ sent = shown \o wire /\ turn.seen = RelayAll(Unseen, turn.script, shown)
        /\ turn.buffered => shown = <<>>
    BY <2>2 DEF Halfway
  <2>5. Sent(turn.n, turn.script, ~ turn.buffered) = sent
    BY <2>2, <2>4, AllSent
  <2>6. ~ turn.buffered => sent = shown
    <3>1. ASSUME ~ turn.buffered PROVE sent = shown
      <4>1. sent = shown \o <<>>
        BY <2>4, <3>1
      <4> QED
        BY <2>2, <4>1, AllSent
    <3> QED
      BY <3>1
  <2>7. turn.buffered => sent = wire
    <3>1. ASSUME turn.buffered PROVE sent = wire
      <4>1. sent = <<>> \o wire
        BY <2>4, <3>1
      <4>2. <<>> \o wire = wire
        BY <2>3
      <4> QED
        BY <4>1, <4>2
    <3> QED
      BY <3>1
  <2>8. CASE Direct(turn.script)
    <3>1. Answer = Done(RelayAll(Unseen, turn.script, sent))
      <4>1. CASE turn.buffered
        BY <2>7, <2>8, <4>1 DEF Answer
      <4>2. CASE ~ turn.buffered
        BY <1>0, <2>4, <2>6, <4>2, DrainedIs DEF Answer
      <4> QED
        BY <4>1, <4>2
    <3>2. /\ Answer.usage = 1 + turn.script[1].words
          /\ Len(Answer.words) = turn.script[1].words
      BY <1>0, <2>5, <2>8, <3>1, DirectAnswer
    <3> QED
      BY <2>8, <3>2 DEF Tells
  <2>9. CASE ~ Direct(turn.script)
    <3>1. PICK kept : kept = KeptAfter(Nothing, sent)
      OBVIOUS
    <3>2. Recorded(sessions[turn.session].events, turn.n, kept)
      BY <2>2, <2>9, <3>1 DEF Remembered
    <3>3. PICK seen : seen = RelayAll(Unseen, turn.script, sent)
      OBVIOUS
    <3>4. /\ KeptOK(kept)
          /\ seen.end = "none" => Agree(seen, kept) /\ seen.in = 0 /\ seen.out = 0
      <4>1. PICK streaming \in BOOLEAN : streaming = ~ turn.buffered
        BY <1>0
      <4>2. Sent(turn.n, turn.script, streaming) = sent
        BY <2>5, <4>1
      <4>3. LET objs == Sent(turn.n, turn.script, streaming)
                all == RelayAll(Unseen, turn.script, objs)
                stored == KeptAfter(Nothing, objs)
            IN /\ KeptOK(stored)
               /\ RepeatedInOnePart /\ all.end = "none" =>
                    Agree(all, stored) /\ all.in = 0 /\ all.out = 0
        BY <1>0, <2>9, AgentAnswer
      <4> QED
        BY <3>1, <3>3, <4>2, <4>3
    <3>5. /\ Answer.thoughts = kept.pending.thoughts /\ Answer.words = kept.pending.words
          /\ Answer.chips = kept.pending.chips /\ Answer.usage = kept.calls
      <4>1. CASE turn.buffered
        <5>1. Answer = Aggregate(wire)
          BY <2>9, <4>1 DEF Answer
        <5>2. wire \in Seq(Sendable(turn.n, FALSE))
          <6>1. (~ turn.buffered) = FALSE
            BY <4>1
          <6> QED
            BY <2>3, <2>9, <6>1
        <5>3. Aggregate(wire).end # "error" /\ kept = KeptAfter(Nothing, wire)
          BY <2>7, <3>1, <4>1, <5>1
        <5> QED
          BY <1>0, <5>1, <5>2, <5>3, AggregateTold
      <4>2. CASE ~ turn.buffered
        <5>1. Answer = Done(turn.seen) /\ turn.seen = seen
          BY <1>0, <2>4, <2>6, <3>3, <4>2, DrainedIs DEF Answer
        <5>2. seen.end = "none"
          BY <1>0, <5>1 DEF TurnTyped
        <5>3. /\ seen.thoughts = kept.pending.thoughts /\ seen.words = kept.pending.words
              /\ seen.chips = kept.pending.chips /\ seen.usage = kept.calls
              /\ seen.in = 0 /\ seen.out = 0 /\ DOMAIN seen = Fields
          BY <3>4, <5>2 DEF Agree, Shows
        <5> QED
          BY <5>1, <5>3 DEF Done, Fields
      <4> QED
        BY <4>1, <4>2
    <3>6. PICK told : told
          = [pending |-> Turn("model", Answer.thoughts, Answer.words, Answer.chips),
                              calls |-> Answer.usage]
      OBVIOUS
    <3>7. told.pending = kept.pending /\ told.calls = kept.calls
      BY <3>4, <3>5, <3>6 DEF KeptOK, Reply, Turn
    <3>8. Recorded(sessions[turn.session].events, turn.n, told)
      BY <3>2, <3>7 DEF Recorded
    <3> QED
      BY <2>9, <3>6, <3>8 DEF Tells
  <2> QED
    BY <2>8, <2>9
<1> QED
  BY <1>1, <1>2

\* What is told stays so while the session lives on.
LEMMA TellsStays ==
  ASSUME turn'.n = turn.n, turn'.script = turn.script, turn'.session = turn.session,
         Live(turn.session)' =>
           Live(turn.session) /\ sessions'[turn.session].events = sessions[turn.session].events,
         NEW seen, Tells(seen)
  PROVE  Tells(seen)'
BY DEF Tells

\* Every step keeps EndOK: a body that ends by itself has told everything that was sent.
LEMMA EndStep ==
  ASSUME TypeInv, TypeInv', [Next]_vars, ReadOK, EndOK, RepeatedInOnePart
  PROVE  EndOK'
<1>0. TurnOK /\ TurnTyped /\ PlaceOK /\ WireOK
  BY DEF TypeInv, TitleInv, FlightInv
<1>1. CASE Aside /\ ~ (Asked \/ Produce)
  <2>1. turn' = turn
    BY <1>1 DEF Aside
  <2>2. Live(turn.session)' =>
          Live(turn.session) /\ sessions'[turn.session].events = sessions[turn.session].events
    <3>1. PICK s : s = turn.session
      OBVIOUS
    <3>2. s # NoSession => s \in Session /\ sessions[s].state # "none"
      BY <1>0, <3>1 DEF PlaceOK
    <3>3. Live(s)' => Live(s) /\ sessions'[s].events = sessions[s].events
      BY <1>1, <3>2, LivesUnchanged
    <3>4. Live(turn.session)' => Live(s)'
      BY <2>1, <3>1 DEF Live
    <3> QED
      BY <3>1, <3>3, <3>4
  <2>3. \A seen : Tells(seen) => Tells(seen)'
    BY <2>1, <2>2, TellsStays
  <2> QED
    BY <2>1, <2>3 DEF EndOK
<1>2. ASSUME turn'.pc # "ended" \/ turn'.seen.end # "done" \/ turn'.cut PROVE EndOK'
  BY <1>2 DEF EndOK
<1>3. CASE StartTurn \/ CreateServed \/ CreateAnswered \/ Asked \/ Produce
  <2>1. turn'.pc # "ended"
    <3>1. CASE StartTurn
      BY <3>1, StartTurnIs
    <3>2. CASE CreateServed \/ CreateAnswered \/ Asked \/ Produce
      BY <1>0, <3>2 DEF CreateServed, CreateAnswered, Asked, Produce, TurnOK
    <3> QED
      BY <1>3, <3>1, <3>2
  <2> QED
    BY <1>2, <2>1
<1>4. CASE Receive
  <2>1. /\ turn.pc = "reading"
        /\ \E n \in 0 .. Len(wire) :
             LET seen == RelayAll(turn.seen, turn.script, SubSeq(wire, 1, n))
             IN IF seen.end = "none" THEN turn' = [turn EXCEPT !.seen = seen]
                ELSE Ended(seen, FALSE)
    BY <1>0, <1>4, ReceiveIs DEF Receive
  <2>2. PICK n \in 0 .. Len(wire) :
          LET seen == RelayAll(turn.seen, turn.script, SubSeq(wire, 1, n))
          IN IF seen.end = "none" THEN turn' = [turn EXCEPT !.seen = seen]
             ELSE Ended(seen, FALSE)
    BY <2>1
  <2>3. PICK seen : seen = RelayAll(turn.seen, turn.script, SubSeq(wire, 1, n))
    OBVIOUS
  <2>4. IF seen.end = "none" THEN turn' = [turn EXCEPT !.seen = seen] ELSE Ended(seen, FALSE)
    BY <2>2, <2>3
  <2>5. seen.end \in {"none", "error"}
    <3>1. PICK T : Streams(T)
      BY <1>0, <2>1 DEF WireOK
    <3>2. SubSeq(wire, 1, n) \in Seq(T)
      BY <3>1, SplitAt DEF Streams
    <3>3. DOMAIN turn.seen = Fields /\ turn.seen.end = "none"
      BY <1>0, <2>1 DEF TurnTyped
    <3> QED
      BY <2>3, <3>2, <3>3, RelayAllKeeps
  <2>6. CASE seen.end = "none"
    BY <1>0, <1>2, <2>1, <2>4, <2>6 DEF TurnOK
  <2>7. CASE seen.end = "error"
    BY <1>0, <1>2, <2>4, <2>7, EndedIs
  <2> QED
    BY <2>5, <2>6, <2>7
<1>5. CASE BodyEnds
  <2>1. /\ turn.pc = "reading" /\ engine = <<>> /\ (turn.buffered \/ wire = <<>>)
        /\ Ended(Answer, FALSE) /\ sessions' = sessions
    BY <1>5 DEF BodyEnds
  <2>2. PICK answer : answer = Answer
    OBVIOUS
  <2>3. Ended(answer, FALSE)
    BY <2>1, <2>2
  <2>4. /\ turn'.n = turn.n /\ turn'.script = turn.script /\ turn'.session = turn.session
        /\ turn'.seen = answer
    BY <1>0, <2>3, EndedIs
  <2>5. CASE answer.end = "done"
    <3>1. Tells(answer)
      BY <2>1, <2>2, <2>5, BodyTells
    <3>2. Live(turn.session)' => Live(turn.session)
      BY <2>1, <2>4 DEF Live
    <3>3. Tells(answer)'
      BY <2>1, <2>4, <3>1, <3>2, TellsStays
    <3> QED
      BY <2>4, <3>3 DEF EndOK
  <2>6. CASE answer.end # "done"
    BY <1>2, <2>4, <2>6
  <2> QED
    BY <2>5, <2>6
<1>6. CASE BodyCutShort
  <2>1. \E seen : Ended(seen, TRUE)
    BY <1>6 DEF BodyCutShort
  <2> QED
    BY <1>0, <1>2, <2>1, EndedIs
<1>7. CASE CallFails
  <2>1. PICK seen : seen = [turn.seen EXCEPT !.end = "error"]
    OBVIOUS
  <2>2. Ended(seen, FALSE) /\ seen.end = "error"
    BY <1>0, <1>7, <2>1 DEF CallFails, TurnTyped, Fields
  <2> QED
    BY <1>0, <1>2, <2>2, EndedIs
<1>8. CASE Log \/ Leave \/ Restart
  <2>1. turn' = [NoTurn EXCEPT !.n = turn.n]
    BY <1>8 DEF Log, Leave, Restart
  <2> QED
    BY <1>2, <2>1, NoTurnIs
<1> QED
  BY <1>1, <1>3, <1>4, <1>5, <1>6, <1>7, <1>8, StepKinds

-----------------------------------------------------------------------------
(* What is logged, and the theorem.                                        *)

\* The message is an event.
LEMMA MessageIsEvent ==
  ASSUME NEW n \in Nat
  PROVE  UserEvent(n) \in Event
<1>1. /\ <<>> \in Seq(Piece) /\ <<n>> \in Piece /\ NoAgent \in Agents
  BY DEF Piece, Agents
<1>2. <<<<n>>>> \in Seq(Piece)
  BY <1>1
<1> QED
  BY <1>1, <1>2 DEF UserEvent, Event, IsEvent, Blank, IsMessage

\* What a session says of a message stays while it lives on, unless its turn is in flight.
LEMMA RecordStays ==
  ASSUME TypeInv, [Next]_vars, ReadOK, NEW s \in Session, sessions[s].state # "none",
         sessions'[s].state = "live", NEW n \in Nat, n # turn.n
           \/ turn.pc \notin {"asking", "reading"},
         NEW kept, Recorded(sessions[s].events, n, kept)
  PROVE  Recorded(sessions'[s].events, n, kept)
<1>0. HistoryOK /\ turn.n \in Nat
  BY ConversationAssumption DEF TypeInv, FlightInv, TurnTyped
<1>1. PICK events, after : events = sessions[s].events /\ after = sessions'[s].events
  OBVIOUS
<1>2. events \in Seq(Event) /\ Recorded(events, n, kept)
  BY <1>0, <1>1 DEF HistoryOK
<1>3. after = events \/ StoresMessage(s) \/ StoresAnswer(s)
  BY <1>1, LivesOn
<1>4. CASE after = events
  BY <1>1, <1>2, <1>4
<1>5. CASE StoresMessage(s)
  <2>1. after = Append(events, UserEvent(turn.n)) /\ turn.pc = "asking"
    BY <1>1, <1>5 DEF StoresMessage, Asked
  <2>2. PICK ev : ev = UserEvent(turn.n)
    OBVIOUS
  <2>3. IsMessage(ev) /\ ev.turn = turn.n
    BY <2>2 DEF UserEvent, Blank, IsMessage
  <2>4. ev \in Event
    BY <1>0, <2>2, MessageIsEvent
  <2>5. ev.turn # n /\ after = Append(events, ev)
    BY <2>1, <2>2, <2>3
  <2>6. Recorded(after, n, kept)
    BY <1>2, <2>3, <2>4, <2>5, OtherIsRecorded
  <2> QED
    BY <1>1, <2>6
<1>6. CASE StoresAnswer(s)
  <2>1. PICK ev : ev = Head(engine)
    OBVIOUS
  <2>2. /\ after = Append(events, ev) /\ turn.pc = "reading"
           /\ ev \in Sendable(turn.n, ~ turn.buffered)
        /\ s = turn.session /\ Live(s) /\ ~ Direct(turn.script)
    BY <1>1, <1>6, <2>1 DEF StoresAnswer, Produce
  <2>3. ev \in Event /\ ev.turn = turn.n
    BY <2>2 DEF Sendable
  <2>4. Asking(Acc(events), ev.turn)
    <3>1. PICK sent : Remembered(sent)
      BY <2>2 DEF ReadOK
    <3> QED
      BY <1>1, <2>2, <2>3, <3>1 DEF Remembered
  <2>5. ev.turn # n
    BY <2>2, <2>3
  <2>6. after = Append(events, ev)
    BY <2>2
  <2>7. Recorded(after, n, kept)
    BY <1>2, <2>3, <2>4, <2>5, <2>6, OtherIsRecorded
  <2> QED
    BY <1>1, <2>7
<1> QED
  BY <1>3, <1>4, <1>5, <1>6

\* An entry of the log.
EntryOK(entry, n) ==
  /\ entry.session # NoSession =>
       entry.session \in Session /\ sessions[entry.session].state # "none"
  /\ entry.sound /\ Live(entry.session) => Told(entry, n)

\* What is logged stays true.
LEMMA EntryStays ==
  ASSUME TypeInv, [Next]_vars, ReadOK, NEW n \in Nat, n # turn.n \/ turn.pc = "idle",
         NEW entry, EntryOK(entry, n)
  PROVE  EntryOK(entry, n)'
<1>0. StoreGoesOn
  BY FlightStep
<1>1. PICK s : s = entry.session
  OBVIOUS
<1>2. s # NoSession => s \in Session /\ sessions[s].state # "none"
  BY <1>1 DEF EntryOK
<1>3. s # NoSession => sessions'[s].state # "none"
  BY <1>0, <1>2, MadeStays
<1>4. ASSUME entry.sound, s # NoSession, sessions'[s].state = "live"
      PROVE  Told(entry, n)'
  <2>1. Live(s)
    BY <1>2, <1>4, LivesOn
  <2>2. PICK kept : /\ Recorded(sessions[s].events, n, kept)
                    /\ entry.response = Trunc(kept.pending.words)
                    /\ entry.chips = kept.pending.chips
                    /\ entry.usage = kept.calls
    BY <1>1, <1>4, <2>1 DEF EntryOK, Told
  <2>3. n # turn.n \/ turn.pc \notin {"asking", "reading"}
    OBVIOUS
  <2>4. Recorded(sessions'[s].events, n, kept)
    BY SMTT(30), <1>2, <1>4, <2>2, <2>3, RecordStays
  <2> QED
    BY <1>1, <2>2, <2>4 DEF Told
<1> QED
  BY <1>1, <1>2, <1>3, <1>4 DEF EntryOK, Live

\* Only a turn that has ended is logged.
LEMMA LogMoves ==
  ASSUME [Next]_vars
  PROVE  log' = log \/ Log
BY DEF Next, TurnStep, SidebarStep, vars, StartTurn, CreateServed, CreateAnswered, Asked, Produce,
  Receive, BodyEnds, BodyCutShort, CallFails, Leave, Restart, List, DeleteAsked, DeleteServed,
  DeleteAnswered, DeleteFails, FillServed, FillAnswered, FillFails, turnVars

\* Every step keeps LogOK: what is logged is what the turn has told.
LEMMA LogStep ==
  ASSUME TypeInv, [Next]_vars, ReadOK, EndOK, LogOK
  PROVE  LogOK'
<1>0. LogTyped /\ PlaceOK
  BY DEF TypeInv, FlightInv
<1>1. ASSUME NEW n \in DOMAIN log, NEW entry, entry = log[n] PROVE EntryOK(entry, n)'
  <2>1. EntryOK(entry, n)
    BY <1>1 DEF LogOK, EntryOK
  <2>2. n \in Nat /\ (n # turn.n \/ turn.pc = "idle")
    BY <1>0 DEF LogTyped
  <2> QED
    BY <2>1, <2>2, EntryStays
<1>2. ASSUME \A n \in DOMAIN log' : \E entry : entry = log'[n] /\ EntryOK(entry, n)'
      PROVE  LogOK'
  BY <1>2 DEF LogOK, EntryOK
<1>3. CASE log' = log
  BY <1>1, <1>2, <1>3
<1>4. CASE Log
  <2>1. /\ turn.pc = "ended" /\ sessions' = sessions
        /\ log' = IF LoggedView
                  THEN With(log, turn.n, [session |-> turn.session,
                                          response |-> Trunc(turn.seen.words),
                                          chips |-> turn.seen.chips, usage |-> turn.seen.usage,
                                          sound |-> turn.seen.end = "done" /\ ~turn.cut])
                  ELSE log
    BY <1>4 DEF Log
  <2>2. PICK entry : entry = [session |-> turn.session,
                                          response |-> Trunc(turn.seen.words),
                              chips |-> turn.seen.chips, usage |-> turn.seen.usage,
                              sound |-> turn.seen.end = "done" /\ ~turn.cut]
    OBVIOUS
  <2>3. PICK told : told = [pending |-> Turn("model", turn.seen.thoughts, turn.seen.words,
                                             turn.seen.chips),
                            calls |-> turn.seen.usage]
    OBVIOUS
  <2>4. entry.session # NoSession =>
          entry.session \in Session /\ sessions[entry.session].state # "none"
    BY <1>0, <2>2 DEF PlaceOK
  <2>5. ASSUME entry.sound, Live(entry.session) PROVE Told(entry, turn.n)
    <3>1. ~ Direct(turn.script)
      BY <1>0, <2>1, <2>2, <2>5 DEF PlaceOK, Live
    <3>2. Recorded(sessions[entry.session].events, turn.n, told)
      BY <2>1, <2>2, <2>3, <2>5, <3>1 DEF EndOK, Tells
    <3>3. /\ entry.response = Trunc(told.pending.words)
          /\ entry.chips = told.pending.chips
          /\ entry.usage = told.calls
      BY <2>2, <2>3 DEF Turn
    <3> QED
      BY <3>2, <3>3 DEF Told
  <2>6. EntryOK(entry, turn.n)'
    <3>1. PICK n : n = turn.n
      OBVIOUS
    <3>2. EntryOK(entry, n)
      BY <2>4, <2>5, <3>1 DEF EntryOK
    <3>3. EntryOK(entry, n)'
      BY <2>1, <3>2 DEF EntryOK, Live, Told
    <3>4. turn'.n = turn.n
      BY <1>4, NoTurnIs DEF Log
    <3> QED
      BY <3>1, <3>3, <3>4
  <2>7. CASE LoggedView
    <3>1. log' = With(log, turn.n, entry)
      BY <2>1, <2>2, <2>7
    <3>2. DOMAIN log' = DOMAIN log \cup {turn.n} /\ log'[turn.n] = entry
      BY <3>1 DEF With
    <3>3. \A n \in DOMAIN log : n # turn.n => log'[n] = log[n]
      BY <3>1 DEF With
    <3>4. turn'.n = turn.n
      BY <1>4, NoTurnIs DEF Log
    <3> QED
      BY <1>1, <1>2, <2>6, <3>2, <3>3, <3>4
  <2>8. CASE ~ LoggedView
    BY <1>3, <2>1, <2>8
  <2> QED
    BY <2>7, <2>8
<1> QED
  BY <1>3, <1>4, LogMoves

\* What is logged of a text is the head of it, and how much is missing.
LEMMA TruncIs ==
  ASSUME NEW T, NEW words \in Seq(T)
  PROVE  LET cut == Trunc(words)
         IN /\ cut.words = SubSeq(words, 1, Len(cut.words))
            /\ Len(cut.words) + cut.more = Len(words)
<1>1. Len(words) \in Nat /\ BodyTrunc \in Nat
  BY ConversationAssumption
<1>2. CASE Len(words) <= BodyTrunc
  <2>1. SubSeq(words, 1, Len(words)) = words
    OBVIOUS
  <2> QED
    BY <1>1, <1>2, <2>1 DEF Trunc
<1>3. CASE ~ (Len(words) <= BodyTrunc)
  <2> DEFINE head == SubSeq(words, 1, BodyTrunc)
  <2>1. Len(head) = BodyTrunc
    BY <1>1, <1>3
  <2>2. Trunc(words) = [words |-> head, more |-> Len(words) - BodyTrunc]
    BY <1>3 DEF Trunc
  <2> QED
    BY <1>1, <1>3, <2>1, <2>2
<1> QED
  BY <1>2, <1>3

\* AnswersReplay, of a state.
LEMMA AnswersAgree ==
  ASSUME AnswerInv
  PROVE  AnswersReplay
<1>0. TypeInv /\ EndOK /\ LogOK /\ PlaceOK /\ HistoryOK
  BY DEF AnswerInv, TypeInv, FlightInv
<1>1. LiveIsReplay
  <2>1. PICK told : told = [pending |-> Turn("model", turn.seen.thoughts, turn.seen.words,
                                             turn.seen.chips),
                            calls |-> turn.seen.usage]
    OBVIOUS
  <2>2. CASE ~ (turn.pc = "ended" /\ turn.seen.end = "done" /\ ~turn.cut)
    BY <2>2 DEF LiveIsReplay
  <2>3. CASE /\ turn.pc = "ended" /\ turn.seen.end = "done" /\ ~turn.cut
             /\ Direct(turn.script)
    BY <1>0, <2>3 DEF LiveIsReplay, EndOK, Tells
  <2>4. CASE /\ turn.pc = "ended" /\ turn.seen.end = "done" /\ ~turn.cut
             /\ ~ Direct(turn.script)
    <3>1. ASSUME Live(turn.session)
          PROVE  /\ told.pending = ReplayOf(turn.session, turn.n)
                 /\ told.calls = Cardinality(CallsOf(turn.session, turn.n))
      <4>1. Recorded(sessions[turn.session].events, turn.n, told)
        BY <1>0, <2>1, <2>4, <3>1 DEF EndOK, Tells
      <4>2. sessions[turn.session].events \in Seq(Event)
        BY <1>0, <3>1 DEF PlaceOK, HistoryOK, Live
      <4> QED
        BY <4>1, <4>2, RecordedIsReplayed
    <3>2. /\ told.pending = Turn("model", turn.seen.thoughts, turn.seen.words, turn.seen.chips)
          /\ told.calls = turn.seen.usage
      BY <2>1
    <3> QED
      BY <2>4, <3>1, <3>2 DEF LiveIsReplay
  <2> QED
    BY <2>2, <2>3, <2>4
<1>2. LogIsReplay
  <2> SUFFICES ASSUME NEW n \in DOMAIN log, log[n].sound, Live(log[n].session)
               PROVE  LET replayed == ReplayOf(log[n].session, n).words
                          head == log[n].response.words
                      IN /\ head = SubSeq(replayed, 1, Len(head))
                         /\ Len(head) + log[n].response.more = Len(replayed)
                         /\ log[n].chips = ReplayOf(log[n].session, n).chips
                         /\ log[n].usage = Cardinality(CallsOf(log[n].session, n))
    BY DEF LogIsReplay
  <2>1. PICK kept : /\ Recorded(sessions[log[n].session].events, n, kept)
                    /\ log[n].response = Trunc(kept.pending.words)
                    /\ log[n].chips = kept.pending.chips
                    /\ log[n].usage = kept.calls
    BY <1>0 DEF LogOK, Told
  <2>2. sessions[log[n].session].events \in Seq(Event)
    BY <1>0 DEF LogOK, HistoryOK, Live
  <2>3. /\ ReplayOf(log[n].session, n) = kept.pending
        /\ Cardinality(CallsOf(log[n].session, n)) = kept.calls
    BY <2>1, <2>2, RecordedIsReplayed
  <2>4. kept.pending.words \in Seq(Piece)
    BY <2>1, <2>2, RecordedTyped
  <2>5. LET cut == Trunc(kept.pending.words)
        IN /\ cut.words = SubSeq(kept.pending.words, 1, Len(cut.words))
           /\ Len(cut.words) + cut.more = Len(kept.pending.words)
    BY <2>4, TruncIs
  <2> QED
    BY <2>1, <2>3, <2>5
<1> QED
  BY <1>1, <1>2 DEF AnswersReplay

\* AnswersReplay: if a consolidated event repeats what was streamed of a message in one
\* part, then however the body is cut into chunks, however messages are streamed, and
\* whatever the sidebar does meanwhile, a turn that ends well was shown as the stored
\* session replays it and logged as that up to the cut of _trunc, with every model call
\* paid for once (agent_turn_stream, _drain_json, _aggregate, _events_to_turns, the
\* generators of server.py): for any number of sessions and turns, any length of the
\* answers and any length of the cut.
THEOREM AnswersAreReplayed ==
  ASSUME RepeatedInOnePart
  PROVE  Spec => []AnswersReplay
<1>1. Init => AnswerInv
  <2> SUFFICES ASSUME Init PROVE AnswerInv
    OBVIOUS
  <2>1. TypeInv
    BY FlightBegins, TitlesBegin DEF TypeInv
  <2>2. turn.pc = "idle" /\ DOMAIN log = {}
    BY DEF Init, NoTurn
  <2> QED
    BY <2>1, <2>2 DEF AnswerInv, ReadOK, EndOK, LogOK
<1>2. AnswerInv /\ [Next]_vars => AnswerInv'
  <2> SUFFICES ASSUME AnswerInv, [Next]_vars PROVE AnswerInv'
    OBVIOUS
  <2>1. TypeInv /\ ReadOK /\ EndOK /\ LogOK
    BY DEF AnswerInv
  <2>2. TypeInv'
    BY <2>1, FlightStep
  <2> QED
    BY <2>1, <2>2, ReadStep, EndStep, LogStep DEF AnswerInv
<1>3. AnswerInv => AnswersReplay
  BY AnswersAgree
<1> QED
  BY <1>1, <1>2, <1>3, PTL DEF Spec
=============================================================================
