------------------------- MODULE MCStreamLifecycle -------------------------
(* Small instances of StreamLifecycle for TLC. *)
EXTENDS StreamLifecycle, TLC

CONSTANTS u1, u2    \* camera URLs

OneSource == {u1}
TwoSources == {u1, u2}
SourceSymmetry == Permutations(TwoSources)
StreamApi == {"create", "update", "delete", "start", "rtsp"}
StartOnly == {"start"}

\* The row is on demand, so nothing but requests starts a client.
OnDemandSpec == Init /\ db.onDemand = TRUE /\ [][Next]_vars
=============================================================================
