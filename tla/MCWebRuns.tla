----------------------------- MODULE MCWebRuns -----------------------------
(***************************************************************************)
(* Either one run with an event log and a client that watch it through a   *)
(* channel of two places, or two runs that nobody watches, the second      *)
(* perhaps a resume of the first.                                          *)
(***************************************************************************)
EXTENDS WebRuns

CONSTANTS r1, r2, r3, c1

\* Bound: r1 runs on its own and reports one node; agents talk in it only, and
\* only it is watched.  What this withholds are choices of handlers, agents and
\* clients, whom no fairness condition obliges to act.
Apart ==
  /\ record[r1] # "none" => \A r \in {r2, r3} : record[r] = "none"
  /\ nodes[r1] <= 1
  /\ \A r \in {r2, r3} : talked[r] = 0
  /\ \A c \in Client : stream[c].run \notin {r2, r3}

ApartSpec == Init /\ [][Next /\ Apart']_vars /\ Fairness
=============================================================================
