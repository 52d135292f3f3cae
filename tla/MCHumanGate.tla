---------------------------- MODULE MCHumanGate ----------------------------
(***************************************************************************)
(* Two clients and two questions, with the human gate alone as the library *)
(* offers it, and with the handlers in the order the web server and the    *)
(* command line register them.                                             *)
(***************************************************************************)
EXTENDS HumanGate

CONSTANTS c1, c2

GateOnly == <<"start", "exit", "conditional", "human_gate">>
Deployed == <<"start", "exit", "conditional", "codergen", "interviewer",
              "human_gate", "manager", "tool", "parallel">>
=============================================================================
