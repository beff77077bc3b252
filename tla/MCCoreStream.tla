--------------------------- MODULE MCCoreStream ---------------------------
(* Small instances of CoreStream for TLC. *)
EXTENDS CoreStream

CONSTANTS w1, w2, s1, s2

OneWriter == {w1}
TwoWriters == {w1, w2}
OneSubscriber == {s1}
TwoSubscribers == {s1, s2}
=============================================================================
