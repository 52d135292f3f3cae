---------------------------- MODULE LoopDetector ----------------------------
(***************************************************************************)
(* The detector of repeating tool calls: a window over the signatures of   *)
(* the latest calls, searched for a pattern that repeats at its end.       *)
(***************************************************************************)
EXTENDS Naturals, Sequences

CONSTANTS
  WindowSize,     \* signatures the window holds: 20
  MinRepetitions  \* repetitions that make a loop: 3

ASSUME DetectorAssumption ==
  /\ WindowSize \in Nat \ {0}
  /\ MinRepetitions \in Nat \ {0}

\* A window that never drops a signature.
RecordedAll(h, sig) == Append(h, sig)

\* The window after one more call: the oldest signatures leave.
Recorded(h, sig) ==
  LET s == Append(h, sig)
  IN  IF Len(s) > WindowSize THEN SubSeq(s, Len(s) - WindowSize + 1, Len(s)) ELSE s

\* How often the last p signatures repeat at the end of the window; blocks[pos]
\* counts the repetitions that end at pos.
TrailingRepetitions(h, p) ==
  LET pattern == SubSeq(h, Len(h) - p + 1, Len(h))
      blocks[pos \in 0 .. Len(h)] ==
        IF pos >= p /\ SubSeq(h, pos - p + 1, pos) = pattern THEN 1 + blocks[pos - p] ELSE 0
  IN  IF p = 0 \/ Len(h) < p THEN 0 ELSE blocks[Len(h)]

\* A search that leaves out the longest pattern.
LoopsShort(h) ==
  \E p \in 1 .. (Len(h) \div MinRepetitions) - 1 : TrailingRepetitions(h, p) >= MinRepetitions

Loops(h) ==
  \E p \in 1 .. (Len(h) \div MinRepetitions) : TrailingRepetitions(h, p) >= MinRepetitions

(***************************************************************************)
(* What a loop is, without an algorithm: some pattern that fits            *)
(* MinRepetitions times into a window makes up the end of the calls.       *)
(***************************************************************************)

PeriodicEnd(s, p) ==
  LET from == Len(s) - p * MinRepetitions + 1
  IN  \A i \in from .. Len(s) - p : s[i] = s[i + p]

LoopAtEnd(s) ==
  \E p \in 1 .. WindowSize \div MinRepetitions :
    p * MinRepetitions <= Len(s) /\ PeriodicEnd(s, p)
=============================================================================
