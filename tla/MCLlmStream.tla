---------------------------- MODULE MCLlmStream ----------------------------
(***************************************************************************)
(* Answers of the three providers: thinking, text, and two calls of one    *)
(* and two pieces, so that a piece may go to the wrong call; whole, and    *)
(* with an error in the place of some of their events.                     *)
(***************************************************************************)
EXTENDS LlmStream

B(kind, n) == [kind |-> kind, pieces |-> n]

Thinks == <<B("thinking", 1), B("text", 2), B("call", 2)>>
Calls  == <<B("text", 1), B("call", 1), B("call", 2)>>
Speaks == <<B("text", 2), B("call", 1)>>

Script(p, a, e) == [provider |-> p, answer |-> a, error |-> e]

\* An error after three events, or none.
MCScripts ==
  {Script(p, a, e) : p \in {"anthropic", "openai"}, a \in {Thinks, Calls}, e \in {3, 99}}
    \cup {Script("gemini", a, e) : a \in {Speaks, Calls}, e \in {3, 99}}
=============================================================================
