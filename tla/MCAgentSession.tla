--------------------------- MODULE MCAgentSession ---------------------------
(***************************************************************************)
(* One session with three tools, two inputs or an input and a steering     *)
(* message. The detector is scaled down to a window of four calls and two  *)
(* repetitions, so that patterns of one and of two calls fit; with three   *)
(* tools more than four calls need not repeat, and the window overflows.   *)
(***************************************************************************)
EXTENDS AgentSession

CONSTANTS t1, t2, t3
=============================================================================
