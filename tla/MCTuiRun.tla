------------------------------ MODULE MCTuiRun ------------------------------
(***************************************************************************)
(* A pipeline of one node that asks a human and one that asks nobody, the  *)
(* latter completed by an earlier process.                                 *)
(***************************************************************************)
EXTENDS TuiRun

MCNode     == {"gate", "work"}
MCGate     == {"gate"}
MCResumed  == {"work"}
MCTimeouts == BOOLEAN
=============================================================================
