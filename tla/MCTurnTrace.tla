----------------------------- MODULE MCTurnTrace -----------------------------
(***************************************************************************)
(* The turns of TurnTrace, from a direct one to a delegation and a tool.   *)
(***************************************************************************)
EXTENDS TurnTrace

Agent(inner) == Hop("agent_turn", inner)
ToolCall == Hop("tool_call", Proxy("mcp", Proxy("order-management", Hop("service", <<>>))))

SmallPrograms ==
  {Turn(Proxy("llm-stream", <<>>)),
   Turn(Proxy("ai-agents", Agent(ModelCall))),
   Turn(Proxy("ai-agents", Agent(Hop("a2a_call", Agent(ModelCall))))),
   Turn(Proxy("ai-agents", Agent(ToolCall)))}
=============================================================================
