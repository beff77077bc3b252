--------------------------- MODULE PeerLifecycle ---------------------------
(***************************************************************************)
(* Viewers of one stream id: webrtc.Manager and Peer of internal/webrtc,   *)
(* with handleWebRTCOffer and cleanupPeer of cmd/server/main.go, which tie *)
(* a peer to the stream it subscribes to.                                  *)
(*                                                                         *)
(* Four kinds of goroutine act on a peer: the one that answers its offer,  *)
(* the callback of pion that sees its connection fail, the one that the    *)
(* first Close starts (onPeerClosed, then RemovePeer), and Manager.Close.  *)
(* RemovePeer and Manager.Close hold Manager.mutex while they call Close;  *)
(* Close runs once, and a second caller waits for the first (sync.Once).   *)
(*                                                                         *)
(* Left out: Peer.connected and OnPacket (a subscriber's work is CoreStream's), *)
(* and the error of Subscribe, which a fresh uuid never meets.             *)
(***************************************************************************)
EXTENDS Integers, FiniteSets

CONSTANTS
    Peers,        \* uuids, one for each offer
    MaxPeers,     \* ManagerConfig.MaxPeers
    MaxStreams    \* bound: stream objects made under the id

ASSUME PeersAssumption == IsFiniteSet(Peers)
ASSUME LimitAssumption == MaxPeers \in Nat \ {0}
ASSUME StreamsAssumption == MaxStreams \in Nat \ {0}

Goroutines == {"offer", "event", "closer", "sweep"} \X Peers
Offer(p) == <<"offer", p>>
Event(p) == <<"event", p>>
Closer(p) == <<"closer", p>>
Sweep(p) == <<"sweep", p>>     \* Manager.Close, at p

None == 0
Objects == 1..MaxStreams

VARIABLES
    at,          \* where each goroutine is
    registered,  \* keys of Manager.peers
    locked,      \* Manager.mutex is held
    once,        \* closeOnce: "new", "closing", "closed"
    pc,          \* peers that have a PeerConnection
    stream,      \* the id's object in StreamManager.streams, or None
    made,        \* number of stream objects made
    found,       \* the object the offer works with
    sub,         \* the object the peer is a subscriber of
    mapped,      \* keys of peerStreams
    shutdown     \* Manager.Close: "no", "sweeping", "over"

vars == <<at, registered, locked, once, pc, stream, made, found, sub, mapped, shutdown>>

Places == {"none", "found", "create", "answer", "gather", "subscribe", "map", "cleanup",
           "unsubscribe", "remove", "close", "closing", "closed", "done", "refused"}

Init ==
    /\ at = [g \in Goroutines |-> "none"]
    /\ registered = {} /\ locked = FALSE
    /\ once = [p \in Peers |-> "new"]
    /\ pc = {}
    /\ stream = 1 /\ made = 1
    /\ found = [p \in Peers |-> None]
    /\ sub = [p \in Peers |-> None]
    /\ mapped = {}
    /\ shutdown = "no"

Goto(g, place) == at' = [at EXCEPT ![g] = place]

----------------------------------------------------------------------------
(* Peer.Close, called by goroutine g.                                      *)

CloseBegin(g, p) ==
    /\ at[g] = "close"
    /\ \/ once[p] = "new" /\ once' = [once EXCEPT ![p] = "closing"] /\ Goto(g, "closing")
       \/ once[p] = "closed" /\ Goto(g, "closed") /\ UNCHANGED once
    /\ UNCHANGED <<registered, locked, pc, stream, made, found, sub, mapped, shutdown>>

\* Mutant: onClose runs in the goroutine that closes.
CloseEndInline(g, p) ==
    /\ at[g] = "closing"
    /\ \/ at[Closer(p)] = "none" /\ Goto(Closer(p), "cleanup") /\ UNCHANGED once
       \/ at[Closer(p)] = "done" /\ Goto(g, "closed") /\ once' = [once EXCEPT ![p] = "closed"]
    /\ UNCHANGED <<registered, locked, pc, stream, made, found, sub, mapped, shutdown>>

\* The PeerConnection is closed and onClose starts the closer.
CloseEnd(g, p) ==
    /\ at[g] = "closing"
    /\ once' = [once EXCEPT ![p] = "closed"]
    /\ at' = [at EXCEPT ![g] = "closed", ![Closer(p)] = "cleanup"]
    /\ UNCHANGED <<registered, locked, pc, stream, made, found, sub, mapped, shutdown>>

----------------------------------------------------------------------------
(* Manager.RemovePeer, called by goroutine g, which then goes to `place`.  *)

RemoveLock(g, p, place) ==
    /\ at[g] = "remove"
    /\ ~locked
    /\ IF p \in registered
       THEN locked' = TRUE /\ Goto(g, "close")
       ELSE locked' = locked /\ Goto(g, place)
    /\ UNCHANGED <<registered, once, pc, stream, made, found, sub, mapped, shutdown>>

RemoveUnlock(g, p, place) ==
    /\ at[g] = "closed"
    /\ registered' = registered \ {p}
    /\ locked' = FALSE
    /\ Goto(g, place)
    /\ UNCHANGED <<once, pc, stream, made, found, sub, mapped, shutdown>>

Remove(g, p, place) ==
    RemoveLock(g, p, place) \/ CloseBegin(g, p) \/ CloseEnd(g, p) \/ RemoveUnlock(g, p, place)

----------------------------------------------------------------------------
(* handleWebRTCOffer.                                                      *)

GetStream(p) ==
    /\ at[Offer(p)] = "none"
    /\ found' = [found EXCEPT ![p] = stream]
    /\ Goto(Offer(p), IF stream = None THEN "refused" ELSE "found")
    /\ UNCHANGED <<registered, locked, once, pc, stream, made, sub, mapped, shutdown>>

\* The stream runs, or is started on demand, which may fail (StreamLifecycle).
StreamRuns(p) ==
    /\ at[Offer(p)] = "found"
    /\ at' \in {[at EXCEPT ![Offer(p)] = "create"], [at EXCEPT ![Offer(p)] = "refused"]}
    /\ UNCHANGED <<registered, locked, once, pc, stream, made, found, sub, mapped, shutdown>>

\* Mutant: off by one.
HasSlotPlusOne == Cardinality(registered) <= MaxPeers

HasSlot == Cardinality(registered) < MaxPeers

CreatePeer(p) ==
    /\ at[Offer(p)] = "create"
    /\ ~locked
    /\ IF HasSlot
       THEN registered' = registered \cup {p} /\ Goto(Offer(p), "answer")
       ELSE registered' = registered /\ Goto(Offer(p), "refused")
    /\ UNCHANGED <<locked, once, pc, stream, made, found, sub, mapped, shutdown>>

\* CreateOffer: the PeerConnection is made and its events may come; then the
\* answer is ready, or an error on the way makes the offer remove its peer.
MakeConnection(p) ==
    /\ at[Offer(p)] = "answer"
    /\ pc' = pc \cup {p}
    /\ Goto(Offer(p), "gather")
    /\ UNCHANGED <<registered, locked, once, stream, made, found, sub, mapped, shutdown>>

Answer(p) ==
    /\ at[Offer(p)] = "gather"
    /\ Goto(Offer(p), "subscribe")
    /\ UNCHANGED <<registered, locked, once, pc, stream, made, found, sub, mapped, shutdown>>

\* Mutant: the peer of a failed offer is not removed.
AnswerFailsOnly(p) ==
    /\ at[Offer(p)] \in {"answer", "gather"}
    /\ Goto(Offer(p), "refused")
    /\ UNCHANGED <<registered, locked, once, pc, stream, made, found, sub, mapped, shutdown>>

AnswerFails(p) ==
    /\ at[Offer(p)] \in {"answer", "gather"}
    /\ Goto(Offer(p), "remove")
    /\ UNCHANGED <<registered, locked, once, pc, stream, made, found, sub, mapped, shutdown>>

\* Stream.Subscribe on the object found at the start, removed since or not.
Subscribe(p) ==
    /\ at[Offer(p)] = "subscribe"
    /\ sub' = [sub EXCEPT ![p] = found[p]]
    /\ Goto(Offer(p), "map")
    /\ UNCHANGED <<registered, locked, once, pc, stream, made, found, mapped, shutdown>>

StoreMapping(p) ==
    /\ at[Offer(p)] = "map"
    /\ mapped' = mapped \cup {p}
    /\ Goto(Offer(p), "done")
    /\ UNCHANGED <<registered, locked, once, pc, stream, made, found, sub, shutdown>>

----------------------------------------------------------------------------
(* The closer: cleanupPeer, then RemovePeer.                               *)

\* Mutant: cleanupPeer forgets the mapping and does not unsubscribe.
TakeMappingOnly(p) ==
    /\ at[Closer(p)] = "cleanup"
    /\ mapped' = mapped \ {p}
    /\ Goto(Closer(p), "remove")
    /\ UNCHANGED <<registered, locked, once, pc, stream, made, found, sub, shutdown>>

TakeMapping(p) ==
    /\ at[Closer(p)] = "cleanup"
    /\ mapped' = mapped \ {p}
    /\ Goto(Closer(p), IF p \in mapped THEN "unsubscribe" ELSE "remove")
    /\ UNCHANGED <<registered, locked, once, pc, stream, made, found, sub, shutdown>>

\* Unsubscribe from the object that now has the id, if the peer is there.
Unsubscribe(p) ==
    /\ at[Closer(p)] = "unsubscribe"
    /\ sub' = IF sub[p] = stream THEN [sub EXCEPT ![p] = None] ELSE sub
    /\ Goto(Closer(p), "remove")
    /\ UNCHANGED <<registered, locked, once, pc, stream, made, found, mapped, shutdown>>

----------------------------------------------------------------------------
(* Events, shutdown, and the stream itself.                                *)

\* The ICE or the peer connection has failed or closed.
ConnectionFails(p) ==
    /\ p \in pc
    /\ at[Event(p)] = "none"
    /\ Goto(Event(p), "close")
    /\ UNCHANGED <<registered, locked, once, pc, stream, made, found, sub, mapped, shutdown>>

EventReturns(p) ==
    /\ at[Event(p)] = "closed"
    /\ Goto(Event(p), "done")
    /\ UNCHANGED <<registered, locked, once, pc, stream, made, found, sub, mapped, shutdown>>

\* Manager.Close: closes and deletes every peer under the lock.
ShutdownLock ==
    /\ shutdown = "no"
    /\ ~locked
    /\ shutdown' = "sweeping" /\ locked' = TRUE
    /\ UNCHANGED <<at, registered, once, pc, stream, made, found, sub, mapped>>

SweepNext(p) ==
    /\ shutdown = "sweeping"
    /\ \A q \in Peers : at[Sweep(q)] \in {"none", "done"}
    /\ p \in registered
    /\ Goto(Sweep(p), "close")
    /\ UNCHANGED <<registered, locked, once, pc, stream, made, found, sub, mapped, shutdown>>

SweepDelete(p) ==
    /\ at[Sweep(p)] = "closed"
    /\ registered' = registered \ {p}
    /\ Goto(Sweep(p), "done")
    /\ UNCHANGED <<locked, once, pc, stream, made, found, sub, mapped, shutdown>>

ShutdownUnlock ==
    /\ shutdown = "sweeping"
    /\ registered = {}
    /\ shutdown' = "over" /\ locked' = FALSE
    /\ UNCHANGED <<at, registered, once, pc, stream, made, found, sub, mapped>>

\* StreamManager.RemoveStream and CreateStream, by the REST handlers.
RemoveStream ==
    /\ stream # None
    /\ stream' = None
    /\ UNCHANGED <<at, registered, locked, once, pc, made, found, sub, mapped, shutdown>>

CreateStream ==
    /\ stream = None
    /\ made < MaxStreams
    /\ made' = made + 1 /\ stream' = made'
    /\ UNCHANGED <<at, registered, locked, once, pc, found, sub, mapped, shutdown>>

----------------------------------------------------------------------------
AnswerOffer(p) ==
    \/ StreamRuns(p) \/ CreatePeer(p) \/ MakeConnection(p) \/ Answer(p) \/ AnswerFails(p)
    \/ Subscribe(p) \/ StoreMapping(p) \/ Remove(Offer(p), p, "refused")

CleanUp(p) == TakeMapping(p) \/ Unsubscribe(p) \/ Remove(Closer(p), p, "done")

HandleEvent(p) == CloseBegin(Event(p), p) \/ CloseEnd(Event(p), p) \/ EventReturns(p)

SweepPeer(p) ==
    SweepNext(p) \/ CloseBegin(Sweep(p), p) \/ CloseEnd(Sweep(p), p) \/ SweepDelete(p)

Work == ShutdownUnlock \/ \E p \in Peers : AnswerOffer(p) \/ CleanUp(p) \/ HandleEvent(p) \/ SweepPeer(p)

Environment ==
    \/ \E p \in Peers : GetStream(p) \/ ConnectionFails(p)
    \/ ShutdownLock \/ RemoveStream \/ CreateStream

Next == Work \/ Environment

Spec == Init /\ [][Next]_vars

(* Every goroutine that can go on does: each takes finitely many steps, so *)
(* weak fairness of their disjunction is weak fairness of each.  Offers,   *)
(* failures and requests need not come.                                    *)
FairSpec == Spec /\ WF_vars(Work)

----------------------------------------------------------------------------
(* Properties.                                                             *)

\* Also: Manager.peers never holds more than MaxPeers.
TypeOK ==
    /\ at \in [Goroutines -> Places]
    /\ registered \subseteq Peers /\ pc \subseteq Peers /\ mapped \subseteq Peers
    /\ locked \in BOOLEAN
    /\ once \in [Peers -> {"new", "closing", "closed"}]
    /\ made \in Objects /\ stream \in 0..made
    /\ found \in [Peers -> 0..made] /\ sub \in [Peers -> 0..made]
    /\ shutdown \in {"no", "sweeping", "over"}
    /\ Cardinality(registered) <= MaxPeers

\* No slot of max_peers is lost: a registered peer's offer has not been given
\* up, and if the peer is closed, the goroutine that removes it is under way.
NoLostSlot ==
    \A p \in registered :
        /\ at[Offer(p)] # "refused"
        /\ once[p] = "closed" => at[Closer(p)] \notin {"none", "done"}

\* Every closed peer is removed: no goroutine that holds Manager.mutex waits,
\* in Close, for one that needs it (the comment in CreatePeer).
ClosedPeerRemoved == \A p \in Peers : once[p] = "closing" ~> p \notin registered

\* A peer that is closed after its offer was answered is unsubscribed from its
\* stream, if the stream was not removed.
StopsReceiving ==
    \A p \in Peers :
        once[p] = "closing" /\ p \in mapped ~> sub[p] = None \/ sub[p] # stream

\* A closed peer is unsubscribed from its stream, if the stream was not
\* removed (the comment in CreatePeer: the callback unsubscribes, then the peer
\* is removed).
ClosedPeerUnsubscribed ==
    \A p \in Peers : once[p] = "closed" ~> sub[p] = None \/ sub[p] # stream
=============================================================================
