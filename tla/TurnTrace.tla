------------------------------ MODULE TurnTrace ------------------------------
(***************************************************************************)
(* One turn runs through the BFF, the gateway, the agents and a service,   *)
(* each of which writes its record when it is through; the trace explorer  *)
(* then has to say where the time went from the records alone.             *)
(*                                                                         *)
(* A turn is a program of nested hops.  Time passes anywhere; `spent`      *)
(* keeps, for every layer, the time that really passed in it.              *)
(***************************************************************************)
EXTENDS TraceExplorer, Sequences

CONSTANTS
  Programs,  \* what the turn calls
  MaxClock,  \* how long it takes at most, in milliseconds
  MaxOdd     \* records lost, calls logged twice or refused

VARIABLES
  program,  \* what is still to be done
  stack,    \* the hops in progress, the outermost first
  clock,
  spent,    \* history: time by layer
  records,  \* what the four logs hold of the trace
  lost,     \* history: whether a record was lost
  odd       \* how much of MaxOdd is left

vars == <<program, stack, clock, spent, records, lost, odd>>

Layers == {"model", "backend", "gateway", "agent", "a2a transport", "other"}

Enter(hop) == [do |-> "enter", hop |-> hop]
Send == [do |-> "send", hop |-> "any"]
Receive == [do |-> "receive", hop |-> "any"]
Leave == [do |-> "leave", hop |-> "any"]

Hop(hop, inner) == <<Enter(hop)>> \o inner \o <<Leave>>
Proxy(hop, inner) == Hop(hop, <<Send>> \o inner \o <<Receive>>)
Turn(inner) == <<Enter("bff")>> \o inner \o <<Receive, Leave>>
ModelCall == Hop("model_call", Proxy("llm", <<>>))

Top == stack[Len(stack)]
Below == SubSeq(stack, 1, Len(stack) - 1)

\* What a hop does itself while nothing it called is at work.
Own(frame) ==
  CASE frame.hop \in {"agent_turn", "model_call"} -> "agent"
    [] frame.hop \in {"tool_call", "service"} -> "backend"
    [] frame.hop = "a2a_call" -> "a2a transport"
    [] frame.hop \in Proxies ->
         IF frame.sent = NoTime \/ frame.received # NoTime THEN "gateway"
         ELSE IF frame.hop \in LlmNodes THEN "model"
         ELSE IF frame.hop \in EcomNodes THEN "backend"
         ELSE "none"
    [] OTHER -> "other"

\* The way from a proxy to the agent or the tool it waits for is its caller's.
Layer == IF Own(Top) = "none" THEN Own(stack[Len(stack) - 1]) ELSE Own(Top)

Init ==
  /\ program \in Programs
  /\ stack = <<>>
  /\ clock = 0
  /\ spent = [layer \in Layers |-> 0]
  /\ records = {}
  /\ lost = FALSE
  /\ odd = MaxOdd

Tick ==
  /\ stack # <<>> /\ clock < MaxClock
  /\ clock' = clock + 1
  /\ spent' = [spent EXCEPT ![Layer] = @ + 1]
  /\ UNCHANGED <<program, stack, records, lost, odd>>

Comes(do) == program # <<>> /\ program[1].do = do
Done == program' = Tail(program)

\* before_agent_log, before_a2a_log, before_tool_log, the model callback, the
\* start of a request.
Begin ==
  /\ Comes("enter") /\ Done
  /\ stack' = Append(stack, [hop |-> program[1].hop, start |-> clock,
                             sent |-> NoTime, received |-> NoTime])
  /\ UNCHANGED <<clock, spent, records, lost, odd>>

Forward ==
  /\ Comes("send") /\ Done
  /\ stack' = [stack EXCEPT ![Len(stack)].sent = clock]
  /\ UNCHANGED <<clock, spent, records, lost, odd>>

\* A key, a quota or a spike arrest stops the call at the gateway.
Refuse ==
  /\ Comes("send") /\ odd > 0
  /\ Top.hop \in LlmNodes
  /\ program' = Tail(Tail(program))
  /\ odd' = odd - 1
  /\ UNCHANGED <<stack, clock, spent, records, lost>>

\* The backend's answer is complete; for the BFF, `done`, where it measures
\* its latency.
Answered ==
  /\ Comes("receive") /\ Done
  /\ stack' = [stack EXCEPT ![Len(stack)].received = clock]
  /\ UNCHANGED <<clock, spent, records, lost, odd>>

\* Mutant of RecordOf: the backend times the wrong way round.
RecordOfSwapped(frame) ==
  [hop |-> frame.hop, end |-> clock, sent |-> frame.received, received |-> frame.sent,
   start |-> frame.start]

\* _log_turn: the BFF derives its start from the end and the latency that was
\* measured before.
BffStart(frame) == clock - (frame.received - frame.start)

\* _latency_metrics and its likes; a service's record is no layer of its own.
RecordOf(frame) ==
  [hop |-> frame.hop, end |-> clock, sent |-> frame.sent,
   received |-> IF frame.hop = "bff" THEN NoTime ELSE frame.received,
   start |-> IF frame.hop = "bff" THEN BffStart(frame) ELSE frame.start]

Finish(new) ==
  /\ Comes("leave") /\ Done
  /\ stack' = Below
  /\ records' = records \cup new
  /\ UNCHANGED <<clock, spent>>

Logged == Finish({RecordOf(Top)}) /\ UNCHANGED <<lost, odd>>

\* Logging never breaks a component: what cannot be written is lost.
Unlogged ==
  /\ odd > 0 /\ odd' = odd - 1
  /\ Finish({}) /\ lost' = TRUE

\* The callback runs for the last partial answer and, later, for the whole one.
LoggedEarly ==
  /\ odd > 0 /\ odd' = odd - 1
  /\ stack # <<>> /\ Top.hop = "model_call" /\ Comes("leave")
  /\ records' = records \cup {RecordOf(Top)}
  /\ UNCHANGED <<program, stack, clock, spent, lost>>

Next == Tick \/ Begin \/ Forward \/ Refuse \/ Answered \/ Logged \/ Unlogged \/ LoggedEarly

Spec == Init /\ [][Next]_vars

-----------------------------------------------------------------------------
(* Properties.                                                             *)

\* Records and frames are spans of the turn, and time is spent exactly once.
TypeOK ==
  /\ clock \in 0..MaxClock /\ odd \in 0..MaxOdd
  /\ MapThenSumSet(LAMBDA layer : spent[layer], Layers) = clock
  /\ \A i \in DOMAIN stack :
       /\ stack[i].start \in 0..clock
       /\ i > 1 => stack[i].start >= stack[i-1].start
  /\ \A r \in records :
       /\ 0 <= r.start /\ r.start <= r.end /\ r.end <= clock
       /\ r.received # NoTime => r.start <= r.sent /\ r.sent <= r.received /\ r.received <= r.end
  /\ (program = <<>>) => stack = <<>>

\* Two calls of different layers took the very same time: the agent's run and
\* the delegation it answers, with no transport in between.
Tie ==
  \E c, d \in Containers(records) : c.from = d.from /\ c.to = d.to /\ c.layer # d.layer

Pie == Attribution(records)

\* With all records, the pie says what happened.
TimeIsWhereItWent ==
  (~lost /\ ~Tie) =>
    \A layer \in Layers \ {"other"} : Pie[layer] = spent[layer]

\* With one missing, time goes to the layer around it, never to a model, nor
\* to the gateway, that did not spend it.
MeasuredWorkIsNotInvented ==
  Pie["model"] <= spent["model"] /\ Pie["gateway"] <= spent["gateway"]

\* However hops nest, however long each takes, and with calls refused or
\* logged twice, "every millisecond [is] assigned to the innermost thing
\* actually happening" (_attribution, from the records of every component).
AttributionIsTrue ==
  (program = <<>> /\ records # {}) => TimeIsWhereItWent /\ MeasuredWorkIsNotInvented
=============================================================================
