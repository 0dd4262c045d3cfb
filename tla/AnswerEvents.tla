---------------------------- MODULE AnswerEvents ----------------------------
(***************************************************************************)
(* The events of one answer and everyone who reads them: the stream the    *)
(* browser watches, the buffered answer, and the replay of a stored        *)
(* session (frontend/app/agent_client.py, llm_client.py).                  *)
(*                                                                         *)
(* What the engine and the models send is external, as the comments of     *)
(* agent_turn_stream describe it: a streamed message is a run of partial   *)
(* events of one piece each, a last partial that already carries the       *)
(* transfer and the usage, and the consolidated event that repeats it all. *)
(* Only consolidated events are stored.  A piece of text is <<turn, step,  *)
(* number>>, a user message <<turn>>.  A consolidated event may hold a     *)
(* channel in several parts: `rest` is how many pieces come after the      *)
(* first part of it.                                                       *)
(***************************************************************************)
EXTENDS Naturals, Sequences, SequencesExt

CONSTANT NoAgent

Blank(turn) ==
  [turn |-> turn, role |-> "model", partial |-> FALSE, thoughts |-> <<>>, words |-> <<>>,
   rest |-> [thoughts |-> 0, words |-> 0],
   toolResult |-> FALSE, to |-> NoAgent, usage |-> 0, error |-> FALSE]

UserEvent(turn) == [Blank(turn) EXCEPT !.role = "user", !.words = <<<<turn>>>>]
ToolEvent(turn) == [Blank(turn) EXCEPT !.role = "user", !.toolResult = TRUE]
ErrorEvent(turn) == [Blank(turn) EXCEPT !.error = TRUE]

Pieces(turn, i, n) == [k \in 1..n |-> <<turn, i, k>>]

Whole(turn, i, step) ==
  [Blank(turn) EXCEPT !.thoughts = Pieces(turn, i, step.thoughts),
                      !.words = Pieces(turn, i, step.words),
                      !.rest = step.rest,
                      !.to = step.to, !.usage = 1]

Partials(turn, i, step) ==
  LET whole == Whole(turn, i, step)
      piece == [Blank(turn) EXCEPT !.partial = TRUE]
  IN [k \in 1..step.thoughts |-> [piece EXCEPT !.thoughts = <<whole.thoughts[k]>>]]
     \o [k \in 1..step.words |-> [piece EXCEPT !.words = <<whole.words[k]>>]]
     \o <<[piece EXCEPT !.to = step.to, !.usage = 1]>>

EventsOf(turn, i, step, streaming) ==
  CASE step.kind = "say" ->
         (IF step.streamed /\ streaming THEN Partials(turn, i, step) ELSE <<>>)
         \o <<Whole(turn, i, step)>>
    [] step.kind = "tool" -> <<ToolEvent(turn)>>
    [] step.kind = "fail" -> <<ErrorEvent(turn)>>

\* The SSE frames of a model: Gemini repeats the usage so far in every one,
\* Anthropic says what went in first and what came out last.
Frame(words, usage, in, out) ==
  [words |-> words, usage |-> usage, in |-> in, out |-> out]

FramesOf(turn, step) ==
  LET piece(k) == <<<<turn, 1, k>>>>
  IN IF step.kind = "gemini"
     THEN [k \in 1..step.words |-> Frame(piece(k), 1 + k, 0, 0)]
     ELSE <<Frame(<<>>, 0, 1, 0)>>
          \o [k \in 1..step.words |-> Frame(piece(k), 0, 0, 0)]
          \o <<Frame(<<>>, 0, 0, step.words)>>

Direct(script) == script[1].kind \in {"gemini", "anthropic"}

Sent(turn, script, streaming) ==
  IF Direct(script) THEN FramesOf(turn, script[1])
  ELSE FlattenSeq([i \in DOMAIN script |-> EventsOf(turn, i, script[i], streaming)])

-----------------------------------------------------------------------------
(* The body as text: every object is two pieces of it, and a chunk ends    *)
(* after any of them.                                                      *)

Text(objs) ==
  [k \in 1..2 * Len(objs) |->
     IF k % 2 = 1 THEN [obj |-> objs[(k + 1) \div 2], part |-> "front"]
     ELSE [obj |-> objs[k \div 2], part |-> "back"]]

\* The first n objects can be decoded from the front of the buffer.
Decodes(buf, n) ==
  /\ 2 * n <= Len(buf)
  /\ \A k \in 1..n : /\ buf[2 * k - 1] = [obj |-> buf[2 * k].obj, part |-> "front"]
                     /\ buf[2 * k].part = "back"

\* Mutant of Drain: what is left of the chunk is dropped.
DrainDropping(buf) ==
  LET n == Max({k \in 0..Len(buf) : Decodes(buf, k)})
  IN [objs |-> [k \in 1..n |-> buf[2 * k].obj], rest |-> <<>>]

\* _drain_json: decode greedily, keep the trailing partial for next time.
Drain(buf) ==
  LET n == Max({k \in 0..Len(buf) : Decodes(buf, k)})
  IN [objs |-> [k \in 1..n |-> buf[2 * k].obj], rest |-> SubSeq(buf, 2 * n + 1, Len(buf))]

-----------------------------------------------------------------------------
(* Live: agent_turn_stream and chat_stream, one parsed object at a time.   *)

Unseen ==
  [thoughts |-> <<>>, words |-> <<>>, chips |-> <<>>, usage |-> 0, in |-> 0, out |-> 0,
   sawText |-> FALSE, sawThought |-> FALSE, end |-> "none"]

Chip(ev) == IF ev.to = NoAgent THEN <<>> ELSE <<ev.to>>

\* Mutant of Show: the skip is never reset.
ShowNothingMore(seen, channel, saw, pieces, rest, partial) ==
  IF pieces = <<>> THEN seen
  ELSE [seen EXCEPT ![channel] = IF ~partial /\ seen[saw] THEN @ ELSE @ \o pieces,
                    ![saw] = @ \/ partial]

\* A consolidated part after partial ones repeats them: skip it, once.  The flag
\* is reset at the first part, so the parts after it are shown.
Show(seen, channel, saw, pieces, rest, partial) ==
  LET further == SubSeq(pieces, Len(pieces) - rest + 1, Len(pieces))
  IN IF pieces = <<>> THEN seen
     ELSE [seen EXCEPT ![channel] = @ \o (IF ~partial /\ seen[saw] THEN further ELSE pieces),
                       ![saw] = partial]

Relay(seen, ev) ==
  LET thought == Show(seen, "thoughts", "sawThought", ev.thoughts, ev.rest.thoughts, ev.partial)
      told == Show(thought, "words", "sawText", ev.words, ev.rest.words, ev.partial)
  IN IF seen.end # "none" THEN seen
     ELSE IF ev.error THEN [seen EXCEPT !.end = "error"]
     ELSE IF ev.partial THEN told
     ELSE [told EXCEPT !.chips = @ \o Chip(ev), !.usage = @ + ev.usage]

RelayFrame(seen, frame) ==
  LET latest(old, new) == IF new = 0 THEN old ELSE new
  IN [seen EXCEPT !.words = @ \o frame.words,
                  !.usage = latest(@, frame.usage),
                  !.in = latest(@, frame.in),
                  !.out = latest(@, frame.out)]

RelayAll(seen, script, objs) ==
  IF Direct(script) THEN FoldLeft(RelayFrame, seen, objs) ELSE FoldLeft(Relay, seen, objs)

\* The end of the stream, told as `done`.
Done(seen) ==
  [seen EXCEPT !.end = "done",
               !.usage = IF seen.in # 0 \/ seen.out # 0 THEN seen.in + seen.out ELSE @]

\* _aggregate: the buffered answer takes every event at its word.
Aggregate(events) ==
  IF \E i \in DOMAIN events : events[i].error THEN [Unseen EXCEPT !.end = "error"]
  ELSE LET all(f(_)) == FlattenSeq([i \in DOMAIN events |-> f(events[i])])
           thoughts(ev) == ev.thoughts
           words(ev) == ev.words
       IN [Unseen EXCEPT !.thoughts = all(thoughts), !.words = all(words), !.chips = all(Chip),
                         !.usage = FoldLeft(LAMBDA sum, ev : sum + ev.usage, 0, events),
                         !.end = "done"]

-----------------------------------------------------------------------------
(* Replay: _events_to_turns on the events a session has stored.            *)

Turn(role, thoughts, words, chips) ==
  [role |-> role, thoughts |-> thoughts, words |-> words, chips |-> chips]
Silent == Turn("model", <<>>, <<>>, <<>>)

Flush(acc) ==
  [turns |-> IF acc.pending = Silent THEN acc.turns ELSE Append(acc.turns, acc.pending),
   pending |-> Silent]

\* A tool's result has the user's role, too.
IsMessage(ev) == ev.role = "user" /\ ev.words # <<>> /\ ~ev.toolResult

Replayed(acc, ev) ==
  IF IsMessage(ev)
  THEN LET flushed == Flush(acc)
       IN [flushed EXCEPT !.turns = Append(@, Turn("user", <<>>, ev.words, <<>>))]
  ELSE [acc EXCEPT !.pending = Turn("model", @.thoughts \o ev.thoughts,
                                    @.words \o ev.words, @.chips \o Chip(ev))]

EventsToTurns(events) ==
  Flush(FoldLeft(Replayed, [turns |-> <<>>, pending |-> Silent], events)).turns

\* get_session_history, then the first user turn of it: the title.  Every message of
\* the user is a turn of its own.
FirstUserText(events) ==
  LET messages == {i \in DOMAIN events : IsMessage(events[i])}
  IN IF messages = {} THEN <<>> ELSE events[Min(messages)].words
=============================================================================
