----------------------------- MODULE Broadcast -----------------------------
(***************************************************************************)
(* What a stream promises to the goroutines around it, without saying how: *)
(* a lossy broadcast.  Writers publish numbered packets while the stream   *)
(* is open; a subscriber that has joined is handed some of the published   *)
(* packets, never one twice and never one older than the last it was       *)
(* handed from the same writer.  Nothing bounds what is lost.              *)
(* CoreStream.tla (core.Stream) implements this.                           *)
(***************************************************************************)
EXTENDS Naturals

CONSTANTS
    Writers,       \* goroutines that call WritePacket
    Subscribers,   \* subscriber identities
    MaxWrites      \* bound: packets per writer

VARIABLES
    open,      \* the stream accepts packets
    written,   \* written[w]: number of packets w has published
    joined,    \* subscribers that have ever joined
    seen       \* seen[s][w]: newest packet of w handed to s, 0 if none

bvars == <<open, written, joined, seen>>

BroadcastInit ==
    /\ open = TRUE
    /\ written = [w \in Writers |-> 0]
    /\ joined = {}
    /\ seen = [s \in Subscribers |-> [w \in Writers |-> 0]]

Publish(w) ==
    /\ open
    /\ written[w] < MaxWrites
    /\ written' = [written EXCEPT ![w] = @ + 1]
    /\ UNCHANGED <<open, joined, seen>>

Shut ==
    /\ open
    /\ open' = FALSE
    /\ UNCHANGED <<written, joined, seen>>

Join(s) ==
    /\ s \notin joined
    /\ joined' = joined \cup {s}
    /\ UNCHANGED <<open, written, seen>>

Hand(s, w, n) ==
    /\ s \in joined
    /\ seen[s][w] < n
    /\ n <= written[w]
    /\ seen' = [seen EXCEPT ![s][w] = n]
    /\ UNCHANGED <<open, written, joined>>

BroadcastNext ==
    \/ Shut
    \/ \E w \in Writers : Publish(w)
    \/ \E s \in Subscribers : Join(s)
    \/ \E s \in Subscribers, w \in Writers, n \in 1..MaxWrites : Hand(s, w, n)

BroadcastSpec == BroadcastInit /\ [][BroadcastNext]_bvars
=============================================================================
