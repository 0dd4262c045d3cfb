---------------------------- MODULE TraceExplorer ----------------------------
(***************************************************************************)
(* The latency pie of the trace explorer: _attribution of                  *)
(* frontend/app/trace_explorer.py, over the records of one trace.          *)
(*                                                                         *)
(* A record has the latency block every component writes: received and     *)
(* responded, and for a gateway proxy the time it sent to its backend and  *)
(* the time the backend's answer was complete (NoTime when it refused the  *)
(* call itself).  Times are whole milliseconds: the sweep over the         *)
(* boundaries is one over every millisecond, which is in a span when it    *)
(* starts in it.                                                           *)
(***************************************************************************)
EXTENDS Integers, FiniteSets, FiniteSetsExt

NoTime == -1

LlmNodes == {"llm", "llm-stream"}
EcomNodes == {"order-management"}
Proxies == LlmNodes \cup EcomNodes \cup {"ai-agents", "mcp"}
Ops == {"agent_turn", "tool_call", "a2a_call"}

Span(from, to, layer) == [from |-> from, to |-> to, layer |-> layer]
Covers(span, m) == span.from <= m /\ m < span.to

\* Measured work.  What a proxy of agents or of tools waits for is measured
\* further in.
LeavesOf(r) ==
  IF r.sent = NoTime \/ r.received = NoTime THEN {Span(r.start, r.end, "gateway")}
  ELSE {Span(r.start, r.sent, "gateway"), Span(r.received, r.end, "gateway")}
       \cup (IF r.hop \in LlmNodes THEN {Span(r.sent, r.received, "model")} ELSE {})
       \cup (IF r.hop \in EcomNodes THEN {Span(r.sent, r.received, "backend")} ELSE {})

Leaves(records) == UNION {LeavesOf(r) : r \in {x \in records : x.hop \in Proxies}}

ContainerLayer(hop) ==
  CASE hop = "tool_call" -> "backend"
    [] hop = "a2a_call" -> "a2a transport"
    [] OTHER -> "agent"

Containers(records) ==
  {Span(r.start, r.end, ContainerLayer(r.hop)) :
     r \in {x \in records : x.hop \in Ops \cup {"model_call"}}}

\* sorted((length, layer)): the shortest one; of equals, by the name.
Rank(layer) == CASE layer = "a2a transport" -> 1 [] layer = "agent" -> 2 [] OTHER -> 3

\* Mutant of Before: the widest first.
BeforeWidest(c, d) ==
  \/ c.to - c.from > d.to - d.from
  \/ c.to - c.from = d.to - d.from /\ Rank(c.layer) <= Rank(d.layer)

Before(c, d) ==
  \/ c.to - c.from < d.to - d.from
  \/ c.to - c.from = d.to - d.from /\ Rank(c.layer) <= Rank(d.layer)

LayerAt(m, leaves, containers) ==
  LET measured == {x \in leaves : Covers(x, m)}
      around == {x \in containers : Covers(x, m)}
  IN IF measured # {} THEN (CHOOSE x \in measured : TRUE).layer
     ELSE IF around # {} THEN (CHOOSE c \in around : \A d \in around : Before(c, d)).layer
     ELSE IF leaves \cup containers # {} /\ \A x \in leaves \cup containers : m < x.from
     THEN "startup" ELSE "streaming"

Window(records) == Min({r.start : r \in records}) .. (Max({r.end : r \in records}) - 1)

\* _attribution, called by reconstruct_flow with the window of all records.
Attribution(records) ==
  LET leaves == Leaves(records)
      containers == Containers(records)
  IN [layer \in {"model", "backend", "gateway", "agent", "a2a transport",
                 "startup", "streaming"} |->
        Cardinality({m \in Window(records) : LayerAt(m, leaves, containers) = layer})]
=============================================================================
