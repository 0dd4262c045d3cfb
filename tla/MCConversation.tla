--------------------------- MODULE MCConversation ---------------------------
(***************************************************************************)
(* A small conversation: two sessions, answers of every shape.             *)
(***************************************************************************)
EXTENDS Conversation, TLC

CONSTANTS OrderAgent

Parts(thoughts, words) == [thoughts |-> thoughts, words |-> words]
Say(thoughts, words, streamed, to) ==
  [kind |-> "say", thoughts |-> thoughts, words |-> words, rest |-> Parts(0, 0),
   streamed |-> streamed, to |-> to]
InParts(step, rest) == [step EXCEPT !.rest = rest]
Other(kind, words) == [Say(0, words, TRUE, NoAgent) EXCEPT !.kind = kind]

\* A delegation, whose transfer is a message without text, and the answer of
\* the specialist; a streamed message, thought about first, before one in two
\* parts that is not streamed; a failing hop; the two kinds of model of the
\* direct view.
SmallScripts ==
  {<<Say(0, 0, TRUE, OrderAgent), Other("tool", 0), Say(0, 2, TRUE, NoAgent)>>,
   <<Say(1, 1, TRUE, NoAgent), InParts(Say(0, 2, FALSE, NoAgent), Parts(0, 1))>>,
   <<Say(0, 1, TRUE, NoAgent), Other("fail", 0)>>,
   <<Other("gemini", 2)>>, <<Other("anthropic", 1)>>}

Sessions == Permutations(Session)
=============================================================================
