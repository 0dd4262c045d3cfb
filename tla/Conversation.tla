---------------------------- MODULE Conversation ----------------------------
(***************************************************************************)
(* A user of the console: turns of the agent and of the direct view, the   *)
(* sidebar with its titles and the deletion of sessions, against an engine *)
(* that keeps the sessions (frontend/app/agent_client.py, server.py).      *)
(* Other tabs of the same user list and delete while a turn streams; any   *)
(* call may fail, a stream may break or close early, the browser may leave *)
(* and the process may be replaced.                                        *)
(***************************************************************************)
EXTENDS AnswerEvents, FiniteSets, Functions

CONSTANTS
  Session, NoSession,
  Scripts,      \* what the engine answers with
  BodyTrunc,    \* _BODY_TRUNC in pieces of text: 2000 characters of a logged body
  TitleWindow,  \* how many missing titles a refresh fetches (40)
  MaxTurns,
  MaxAside,     \* listings, deletions and restarts beside the turns
  MaxAhead      \* how far the engine runs ahead of the BFF

ASSUME ConversationAssumption ==
  NoSession \notin Session /\ MaxTurns \in Nat /\ BodyTrunc \in Nat

\* What the steps of an answer may be: of the supervisor and its specialists, or of the
\* one model of the direct view.
Agents == {NoAgent} \cup UNION {{script[i].to : i \in DOMAIN script} : script \in Scripts}
AgentStep ==
  [kind : {"say", "tool", "fail"}, thoughts : Nat, words : Nat,
   rest : [thoughts : Nat, words : Nat], streamed : BOOLEAN, to : Agents]

\* A further part of a channel comes after a first one.
Parted(step) ==
  \A channel \in {"thoughts", "words"} :
    step.rest[channel] = 0 \/ step.rest[channel] < step[channel]

\* Gemini says the usage in every frame, so its answers have at least one.
ModelScript(script) ==
  /\ Len(script) = 1 /\ script[1].kind \in {"gemini", "anthropic"}
  /\ script[1].words \in Nat
  /\ script[1].kind = "gemini" => script[1].words > 0

ASSUME ScriptsAssumption ==
  \A script \in Scripts :
    \/ /\ script \in Seq(AgentStep) /\ script # <<>>
       /\ \A i \in DOMAIN script : Parted(script[i])
    \/ ModelScript(script)

\* What the comment of agent_turn_stream expects of the engine: the consolidated
\* event of a streamed message repeats each channel in one part.
Repeats(step) ==
  (step.kind = "say" /\ step.streamed) => step.rest = [thoughts |-> 0, words |-> 0]
RepeatedInOnePart == \A script \in Scripts : \A i \in DOMAIN script : Repeats(script[i])

VARIABLES
  sessions,  \* in the engine: state, the turn that made it, the events stored
  engine,    \* what the engine has yet to send
  wire,      \* sent and not yet arrived whole ...
  half,      \* ... of which the first object has half arrived
  buf,       \* the text _stream_events holds, not decoded yet
  turn,      \* the turn in flight
  log,       \* the turns in front-ai-logs
  cache,     \* _TITLE_CACHE
  fills,     \* _fill_title calls in flight: the title they have read
  delete,    \* the delete_session call in flight
  left,      \* how much of MaxAside is left
  mixed      \* history: sessions whose deletion met another call, or was not answered

vars == <<sessions, engine, wire, half, buf, turn, log, cache, fills, delete, left, mixed>>
body == <<wire, half, buf>>
turnVars == <<engine, body, turn, log>>
sidebarVars == <<cache, fills, delete, left>>

NoTitle == <<>>
NoDelete == [pc |-> "idle", session |-> NoSession]
NoTurn == [n |-> 0, pc |-> "idle", session |-> NoSession, buffered |-> FALSE,
           script |-> <<>>, seen |-> Unseen, cut |-> FALSE]

Live(s) == s # NoSession /\ sessions[s].state = "live"

Init ==
  /\ sessions = [s \in Session |-> [state |-> "none", opener |-> NoTitle, events |-> <<>>]]
  /\ engine = <<>> /\ wire = <<>> /\ half = FALSE /\ buf = <<>>
  /\ turn = NoTurn
  /\ log = <<>>
  /\ cache = <<>>
  /\ fills = <<>>
  /\ delete = NoDelete
  /\ left = MaxAside
  /\ mixed = {}

With(f, x, v) == [y \in DOMAIN f \cup {x} |-> IF y = x THEN v ELSE f[y]]
Without(f, x) == Restrict(f, DOMAIN f \ {x})

\* _cache_title: the first title stays.
Titled(s, title) ==
  IF title = NoTitle \/ s \in DOMAIN cache THEN cache ELSE With(cache, s, title)

-----------------------------------------------------------------------------
(* A turn.                                                                 *)

StartTurn ==
  /\ turn.pc = "idle" /\ turn.n < MaxTurns
  /\ \E script \in Scripts, buffered \in BOOLEAN,
        s \in {NoSession} \cup {x \in Session : sessions[x].state # "none"} :
       /\ Direct(script) => s = NoSession
       /\ turn' = [NoTurn EXCEPT !.n = turn.n + 1, !.script = script, !.buffered = buffered,
                                 !.session = s,
                                 !.pc = IF Direct(script) \/ s # NoSession THEN "asking"
                                        ELSE "creating"]
  /\ UNCHANGED <<sessions, engine, body, log, sidebarVars>>

CreateServed ==
  /\ turn.pc = "creating"
  /\ \E s \in Session :
       /\ sessions[s].state = "none"
       /\ sessions' = [sessions EXCEPT ![s].state = "live", ![s].opener = <<<<turn.n>>>>]
       /\ turn' = [turn EXCEPT !.pc = "created", !.session = s]
  /\ UNCHANGED <<engine, body, log, sidebarVars>>

CreateAnswered ==
  /\ turn.pc = "created"
  /\ cache' = Titled(turn.session, <<<<turn.n>>>>)
  /\ turn' = [turn EXCEPT !.pc = "asking"]
  /\ UNCHANGED <<sessions, engine, body, log, fills, delete, left>>

\* The engine takes the message: it is the first thing it stores.
Asked ==
  /\ turn.pc = "asking"
  /\ Direct(turn.script) \/ Live(turn.session)
  /\ engine' = Sent(turn.n, turn.script, ~turn.buffered)
  /\ sessions' = IF Direct(turn.script) THEN sessions
                 ELSE [sessions EXCEPT ![turn.session].events = Append(@, UserEvent(turn.n))]
  /\ turn' = [turn EXCEPT !.pc = "reading"]
  /\ UNCHANGED <<body, log, sidebarVars>>

\* The engine stores consolidated events; it cannot once the session is gone.
Produce ==
  /\ turn.pc = "reading" /\ engine # <<>>
  /\ turn.buffered \/ Len(wire) < MaxAhead
  /\ LET ev == Head(engine)
         stored == ~Direct(turn.script) /\ ~ev.partial /\ ~ev.error
     IN IF stored /\ ~Live(turn.session)
        THEN /\ engine' = <<>>
             /\ wire' = Append(wire, ErrorEvent(turn.n))
             /\ UNCHANGED sessions
        ELSE /\ engine' = Tail(engine)
             /\ wire' = Append(wire, ev)
             /\ sessions' = IF stored
                            THEN [sessions EXCEPT ![turn.session].events = Append(@, ev)]
                            ELSE sessions
  /\ UNCHANGED <<half, buf, turn, log, sidebarVars>>

NoBody == wire' = <<>> /\ half' = FALSE /\ buf' = <<>>

Ended(seen, cut) ==
  turn' = [turn EXCEPT !.pc = "ended", !.seen = seen, !.cut = cut]

\* The text of n objects, and of the front of one more.
Halves(n, more) == 2 * n + (IF more THEN 1 ELSE 0)

\* A chunk ends anywhere: the objects that are whole by now are decoded and
\* shown, the rest waits in the buffer.
Receive ==
  /\ turn.pc = "reading" /\ ~turn.buffered
  /\ \E n \in 0..Len(wire), rest \in BOOLEAN :
       /\ rest => n < Len(wire)
       /\ n > 0 \/ (rest /\ ~half)
       /\ LET chunk == SubSeq(Text(wire), Halves(0, half) + 1, Halves(n, rest))
              drained == Drain(buf \o chunk)
              seen == RelayAll(turn.seen, turn.script, drained.objs)
          IN IF seen.end = "none"
             THEN /\ turn' = [turn EXCEPT !.seen = seen]
                  /\ wire' = SubSeq(wire, n + 1, Len(wire))
                  /\ half' = rest
                  /\ buf' = drained.rest
                  /\ UNCHANGED engine
             ELSE Ended(seen, FALSE) /\ NoBody /\ engine' = <<>>
  /\ UNCHANGED <<sessions, log, sidebarVars>>

\* The end of the body: one more look at what the buffer holds.
Drained ==
  LET seen == RelayAll(turn.seen, turn.script, Drain(buf).objs)
  IN IF seen.end = "none" THEN Done(seen) ELSE seen

\* What the turn comes to when the body ends here.
Answer ==
  CASE ~turn.buffered -> Drained
    [] turn.buffered /\ Direct(turn.script) -> Done(RelayAll(Unseen, turn.script, wire))
    [] OTHER -> Aggregate(wire)

BodyEnds ==
  /\ turn.pc = "reading" /\ engine = <<>>
  /\ turn.buffered \/ wire = <<>>
  /\ Ended(Answer, FALSE)
  /\ NoBody
  /\ UNCHANGED <<sessions, engine, log, sidebarVars>>

\* Something in between closes the body early and cleanly: what had not
\* arrived whole is dropped, and the turn is `done`.
BodyCutShort ==
  /\ turn.pc = "reading"
  /\ engine # <<>> \/ (~turn.buffered /\ wire # <<>>)
  /\ Ended(Answer, TRUE)
  /\ engine' = <<>> /\ NoBody
  /\ UNCHANGED <<sessions, log, sidebarVars>>

\* Mutant of CallFails: the connection stays open.
CallFailsStillOpen ==
  /\ turn.pc \in {"creating", "created", "asking", "reading"}
  /\ Ended([turn.seen EXCEPT !.end = "error"], FALSE)
  /\ UNCHANGED <<sessions, engine, body, log, sidebarVars>>

\* A call raises, or is refused: the generator yields the error and ends.
CallFails ==
  /\ turn.pc \in {"creating", "created", "asking", "reading"}
  /\ Ended([turn.seen EXCEPT !.end = "error"], FALSE)
  /\ engine' = <<>> /\ NoBody
  /\ UNCHANGED <<sessions, log, sidebarVars>>

\* The streaming endpoints log every turn that ends; /api/chat one that
\* succeeds, /api/agent none.
LoggedView ==
  \/ ~turn.buffered
  \/ Direct(turn.script) /\ turn.seen.end = "done"

\* Mutant of Trunc: what is cut is not counted.
TruncSilently(words) ==
  IF Len(words) <= BodyTrunc THEN [words |-> words, more |-> 0]
  ELSE [words |-> SubSeq(words, 1, BodyTrunc), more |-> 0]

\* _trunc: the head of a long text, and how much more of it there was.
Trunc(words) ==
  IF Len(words) <= BodyTrunc THEN [words |-> words, more |-> 0]
  ELSE [words |-> SubSeq(words, 1, BodyTrunc), more |-> Len(words) - BodyTrunc]

Log ==
  /\ turn.pc = "ended"
  /\ log' = IF LoggedView
            THEN With(log, turn.n, [session |-> turn.session, response |-> Trunc(turn.seen.words),
                                    chips |-> turn.seen.chips, usage |-> turn.seen.usage,
                                    sound |-> turn.seen.end = "done" /\ ~turn.cut])
            ELSE log
  /\ turn' = [NoTurn EXCEPT !.n = turn.n]
  /\ UNCHANGED <<sessions, engine, body, sidebarVars>>

\* The browser leaves: the generator is closed where it stands.
Leave ==
  /\ turn.pc # "idle" /\ ~turn.buffered
  /\ turn' = [NoTurn EXCEPT !.n = turn.n]
  /\ engine' = <<>> /\ NoBody
  /\ UNCHANGED <<sessions, log, sidebarVars>>

-----------------------------------------------------------------------------
(* The sidebar.                                                            *)

\* list_sessions: the listing carries no events; the titles that are not
\* cached are fetched, for a window of them.  Which sessions are the newest
\* is not kept.
List ==
  /\ left > 0 /\ fills = <<>>
  /\ left' = left - 1
  /\ LET missing == {s \in Session : Live(s) /\ s \notin DOMAIN cache}
     IN \E asked \in SUBSET missing :
          /\ Cardinality(asked) = IF Cardinality(missing) < TitleWindow
                                  THEN Cardinality(missing) ELSE TitleWindow
          /\ fills' = [s \in asked |-> [read |-> FALSE, title |-> NoTitle]]
  /\ UNCHANGED <<sessions, turnVars, cache, delete>>

FillServed(s) ==
  /\ ~fills[s].read /\ Live(s)
  /\ fills' = [fills EXCEPT ![s] = [read |-> TRUE, title |-> FirstUserText(sessions[s].events)]]
  /\ UNCHANGED <<sessions, turnVars, cache, delete, left>>

FillAnswered(s) ==
  /\ fills[s].read
  /\ cache' = Titled(s, fills[s].title)
  /\ fills' = Without(fills, s)
  /\ UNCHANGED <<sessions, turnVars, delete, left>>

\* An AgentError leaves the row untitled, any other exception fails the whole
\* listing: the other fetches run on either way.
FillFails(s) ==
  /\ fills' = Without(fills, s)
  /\ UNCHANGED <<sessions, turnVars, cache, delete, left>>

DeleteAsked ==
  /\ left > 0 /\ delete.pc = "idle"
  /\ left' = left - 1
  /\ \E s \in Session :
       /\ sessions[s].state # "none"
       /\ delete' = [pc |-> "asked", session |-> s]
  /\ UNCHANGED <<sessions, turnVars, cache, fills>>

DeleteServed ==
  /\ delete.pc = "asked" /\ Live(delete.session)
  /\ sessions' = [sessions EXCEPT ![delete.session].state = "deleted",
                                  ![delete.session].events = <<>>]
  /\ delete' = [delete EXCEPT !.pc = "served"]
  /\ UNCHANGED <<turnVars, cache, fills, left>>

\* Mutant of DeleteAnswered: the title is not dropped.
DeleteAnsweredKeepingTitle ==
  /\ delete.pc = "served"
  /\ delete' = NoDelete
  /\ UNCHANGED <<sessions, turnVars, cache, fills, left>>

DeleteAnswered ==
  /\ delete.pc = "served"
  /\ cache' = Without(cache, delete.session)
  /\ delete' = NoDelete
  /\ UNCHANGED <<sessions, turnVars, fills, left>>

\* Refused (a session deleted before is), or the answer is lost: no pop.
DeleteFails ==
  /\ delete.pc # "idle"
  /\ delete' = NoDelete
  /\ UNCHANGED <<sessions, turnVars, cache, fills, left>>

\* Cloud Run replaces the instance.
Restart ==
  /\ left > 0
  /\ left' = left - 1
  /\ turn' = [NoTurn EXCEPT !.n = turn.n]
  /\ engine' = <<>> /\ NoBody
  /\ cache' = <<>> /\ fills' = <<>> /\ delete' = NoDelete
  /\ UNCHANGED <<sessions, log>>

-----------------------------------------------------------------------------

TurnStep ==
  \/ StartTurn \/ CreateServed \/ CreateAnswered \/ Asked \/ Produce \/ Receive
  \/ BodyEnds \/ BodyCutShort \/ CallFails \/ Log \/ Leave

SidebarStep ==
  \/ List
  \/ \E s \in DOMAIN fills : FillServed(s) \/ FillAnswered(s) \/ FillFails(s)
  \/ DeleteAsked \/ DeleteServed \/ DeleteAnswered

Meets(s) ==
  /\ delete.session = s
  /\ s \in DOMAIN fills \/ (turn.pc = "created" /\ turn.session = s)

History ==
  mixed' = mixed \cup {s \in Session : Meets(s)'}

Next ==
  \/ (TurnStep \/ SidebarStep \/ Restart) /\ History
  \/ /\ DeleteFails
     /\ mixed' = IF delete.pc = "served" THEN mixed \cup {delete.session} ELSE mixed

Spec == Init /\ [][Next]_vars
-----------------------------------------------------------------------------
(* Properties.                                                             *)

\* The variables keep their types; what streams belongs to the turn in
\* flight, and nothing is left of it when the turn has ended.
TypeOK ==
  /\ \A s \in Session : /\ sessions[s].state \in {"none", "live", "deleted"}
                        /\ sessions[s].state # "live" => sessions[s].events = <<>>
  /\ turn.pc \in {"idle", "creating", "created", "asking", "reading", "ended"}
  /\ turn.n \in 0..MaxTurns /\ DOMAIN log \subseteq 1..turn.n
  /\ turn.pc # "reading" => engine = <<>> /\ wire = <<>> /\ ~half
  /\ half => wire # <<>>
  /\ buf = IF half THEN <<[obj |-> wire[1], part |-> "front"]>> ELSE <<>>
  /\ (turn.pc = "ended") <=> (turn.seen.end # "none")
  /\ DOMAIN cache \subseteq Session /\ DOMAIN fills \subseteq Session
  /\ delete.pc \in {"idle", "asked", "served"}

\* The model turn that get_session_history makes of message n.
ReplayOf(s, n) ==
  LET turns == EventsToTurns(sessions[s].events)
      asked == CHOOSE i \in DOMAIN turns : turns[i] = Turn("user", <<>>, <<<<n>>>>, <<>>)
  IN IF asked < Len(turns) /\ turns[asked + 1].role = "model" THEN turns[asked + 1] ELSE Silent

CallsOf(s, n) == {i \in DOMAIN sessions[s].events :
                    sessions[s].events[i].turn = n /\ sessions[s].events[i].usage > 0}

\* What the browser was shown when the turn ended is what the history shows
\* ever after ("so replayed history matches what was shown live"), with every
\* model call paid for once.
LiveIsReplay ==
  LET seen == turn.seen
      shown == Turn("model", seen.thoughts, seen.words, seen.chips)
  IN (turn.pc = "ended" /\ seen.end = "done" /\ ~turn.cut) =>
       IF Direct(turn.script)
       THEN seen.usage = 1 + turn.script[1].words /\ Len(seen.words) = turn.script[1].words
       ELSE Live(turn.session) =>
              /\ shown = ReplayOf(turn.session, turn.n)
              /\ seen.usage = Cardinality(CallsOf(turn.session, turn.n))

\* A long answer is logged up to the cut.
LogIsReplay ==
  \A n \in DOMAIN log :
    LET entry == log[n]
        replayed == ReplayOf(entry.session, n).words
        head == entry.response.words
    IN (entry.sound /\ Live(entry.session)) =>
         /\ head = SubSeq(replayed, 1, Len(head))
         /\ Len(head) + entry.response.more = Len(replayed)
         /\ entry.chips = ReplayOf(entry.session, n).chips
         /\ entry.usage = Cardinality(CallsOf(entry.session, n))

\* However the body is cut into chunks, however messages are streamed, and
\* whatever the sidebar does meanwhile, a turn that ends well was shown as the
\* stored session replays it and logged as that up to the cut of _trunc, if
\* consolidated events repeat what was streamed in one part
\* (agent_turn_stream, _drain_json, _aggregate, _events_to_turns, the
\* generators of server.py).
AnswersReplay == LiveIsReplay /\ LogIsReplay

\* A title is the message that opened its session, or the first one stored
\* (they differ when the opening turn failed); it outlives its session only
\* if the deletion was not answered or met a fetch or a creation in flight
\* (_cache_title, _title_for, delete_session).
TitlesBelong ==
  \A s \in DOMAIN cache :
    CASE sessions[s].state = "none" -> FALSE
      [] sessions[s].state = "live" ->
           cache[s] \in {sessions[s].opener, FirstUserText(sessions[s].events)}
      [] sessions[s].state = "deleted" ->
           s \in mixed \/ delete = [pc |-> "served", session |-> s]
=============================================================================
