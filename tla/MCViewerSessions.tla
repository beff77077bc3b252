------------------------- MODULE MCViewerSessions -------------------------
(* Small instances of ViewerSessions for TLC. *)
EXTENDS ViewerSessions

CONSTANTS a, b    \* sessions

TwoSessions == {a, b}

\* One session offers twice, so that a peer is replaced.
TwiceAndOnce == [s \in {a, b} |-> IF s = a THEN 2 ELSE 1]
=============================================================================
