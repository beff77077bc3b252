--------------------------- MODULE ViewerSessions ---------------------------
(***************************************************************************)
(* The Kotlin server's viewers of one stream: the offers and the end of    *)
(* WebSocket sessions (SignalingController), the map of peers              *)
(* (WebRTCManager), each peer's start and close (WebRTCPeer), and the      *)
(* packets it collects from StreamFlow.                                    *)
(*                                                                         *)
(* The container handles the messages of a session one at a time, but may  *)
(* end a session from another thread while an offer is being handled       *)
(* (`raced` remembers it).  Threads are interrupted between any two        *)
(* accesses to shared state.  External, modelled from their use:           *)
(* MutableSharedFlow without replay and with DROP_OLDEST; a coroutine      *)
(* launched on a cancelled scope, or cancelled before it is dispatched,    *)
(* never runs; a Netty buffer with reference count 0 cannot be read.       *)
(*                                                                         *)
(* Left out: the RTSP side of createPeer, the messages sent back,          *)
(* candidates, and the content of packets.                                 *)
(***************************************************************************)
EXTENDS Naturals, FiniteSets

CONSTANTS
    Sessions,     \* WebSocket sessions
    MaxPeers,     \* config.settings.maxPeers
    MaxOffers,    \* bound: offers of each session
    MaxPackets    \* bound: packets the RTSP client publishes

ASSUME LimitAssumption == MaxPeers \in Nat \ {0}
ASSUME BoundsAssumption == MaxOffers \in [Sessions -> Nat] /\ MaxPackets \in Nat

None == 0
Peers == UNION {{s} \X (1..MaxOffers[s]) : s \in Sessions}

VARIABLES
    sess,        \* sess[s]: "open", "closing", "closed"
    raced,       \* sessions that ended while an offer was being handled
    hpc,         \* hpc[s]: where the thread with the messages of s is
    cpc,         \* cpc[s]: where afterConnectionClosed of s is
    made,        \* made[s]: peer objects made for s
    registered,  \* registered[s]: the peer under the key of s, or None
    old,         \* old[s]: the peer handleOffer of s replaces
    gone,        \* gone[s]: the peer afterConnectionClosed of s has found
    state,       \* state[p]: "new", "running", "closed" (`running` of WebRTCPeer)
    cancelled,   \* peers whose collecting coroutine is cancelled
    job,         \* job[p]: where the collecting coroutine is
    next,        \* next[p]: number of the next packet it collects
    taken,       \* taken[p]: number of the last packet it has collected, 0 if none
    published,   \* packets published; the n-th is packet n
    released     \* packets whose buffer was released

sessionVars == <<sess, raced, hpc, cpc, made, registered, old, gone>>
peerVars == <<state, cancelled>>
flowVars == <<job, next, taken, published, released>>
vars == <<sessionVars, peerVars, flowVars>>

Init ==
    /\ sess = [s \in Sessions |-> "open"] /\ raced = {}
    /\ hpc = [s \in Sessions |-> "idle"] /\ cpc = [s \in Sessions |-> "none"]
    /\ made = [s \in Sessions |-> 0]
    /\ registered = [s \in Sessions |-> None]
    /\ old = [s \in Sessions |-> None] /\ gone = [s \in Sessions |-> None]
    /\ state = [p \in Peers |-> "new"]
    /\ cancelled = {}
    /\ job = [p \in Peers |-> "none"]
    /\ next = [p \in Peers |-> 1] /\ taken = [p \in Peers |-> 0]
    /\ published = 0 /\ released = {}

Goto(s, place) == hpc' = [hpc EXCEPT ![s] = place]
CloserGoto(s, place) == cpc' = [cpc EXCEPT ![s] = place]

----------------------------------------------------------------------------
(* WebRTCPeer.close of peer p: `running` is taken down by one caller, who  *)
(* then cancels the subscription and the scope.                            *)

TakeDown(p) == state' = [state EXCEPT ![p] = IF @ = "running" THEN "closed" ELSE @]

\* Mutant: only subscriptionJob is cancelled, which subscribe has to return first.
CancelJobOnly(p) == cancelled' = IF job[p] # "none" THEN cancelled \cup {p} ELSE cancelled

Cancel(p) == cancelled' = cancelled \cup {p}

----------------------------------------------------------------------------
(* handleOffer and createPeer.                                             *)

Offer(s) ==
    /\ sess[s] = "open"
    /\ hpc[s] = "idle"
    /\ made[s] < MaxOffers[s]
    /\ registered' = [registered EXCEPT ![s] = None]
    /\ old' = [old EXCEPT ![s] = registered[s]]
    /\ Goto(s, IF registered[s] = None THEN "limit" ELSE "closeOld")
    /\ UNCHANGED <<sess, raced, cpc, made, gone, peerVars, flowVars>>

\* Mutant: the peer that is replaced is not closed.
ForgetOld(s) ==
    /\ hpc[s] = "closeOld"
    /\ Goto(s, "limit")
    /\ UNCHANGED <<sess, raced, cpc, made, registered, old, gone, peerVars, flowVars>>

CloseOld(s) ==
    /\ hpc[s] = "closeOld"
    /\ TakeDown(<<s, old[s]>>)
    /\ Goto(s, IF state[<<s, old[s]>>] = "running" THEN "cancelOld" ELSE "limit")
    /\ UNCHANGED <<sess, raced, cpc, made, registered, old, gone, cancelled, flowVars>>

CancelOld(s) ==
    /\ hpc[s] = "cancelOld"
    /\ Cancel(<<s, old[s]>>)
    /\ Goto(s, "limit")
    /\ UNCHANGED <<sess, raced, cpc, made, registered, old, gone, state, flowVars>>

PeerCount == Cardinality({s \in Sessions : registered[s] # None})

\* The size of the map is read here and the peer is put into it later.
CheckLimit(s) ==
    /\ hpc[s] = "limit"
    /\ Goto(s, IF PeerCount >= MaxPeers THEN "idle" ELSE "register")
    /\ UNCHANGED <<sess, raced, cpc, made, registered, old, gone, peerVars, flowVars>>

Register(s) ==
    /\ hpc[s] = "register"
    /\ made' = [made EXCEPT ![s] = @ + 1]
    /\ registered' = [registered EXCEPT ![s] = made'[s]]
    /\ Goto(s, "process")
    /\ UNCHANGED <<sess, raced, cpc, old, gone, peerVars, flowVars>>

\* processOffer: an exception leaves the peer in the map.
ProcessOffer(s) ==
    /\ hpc[s] = "process"
    /\ \E place \in {"start", "idle"} : Goto(s, place)
    /\ UNCHANGED <<sess, raced, cpc, made, registered, old, gone, peerVars, flowVars>>

\* start: `running` is set, then the stream is subscribed to.
StartPeer(s) ==
    /\ hpc[s] = "start"
    /\ state' = [state EXCEPT ![<<s, made[s]>>] = "running"]
    /\ Goto(s, "subscribe")
    /\ UNCHANGED <<sess, raced, cpc, made, registered, old, gone, cancelled, flowVars>>

Subscribe(s) ==
    /\ hpc[s] = "subscribe"
    /\ job' = [job EXCEPT ![<<s, made[s]>>] = "launched"]
    /\ Goto(s, "idle")
    /\ UNCHANGED <<sess, raced, cpc, made, registered, old, gone, peerVars, next, taken, published, released>>

HandleOffer(s) ==
    \/ CloseOld(s) \/ CancelOld(s) \/ CheckLimit(s) \/ Register(s)
    \/ ProcessOffer(s) \/ StartPeer(s) \/ Subscribe(s)

----------------------------------------------------------------------------
(* afterConnectionClosed and removePeersBySession.                         *)

EndSession(s) ==
    /\ sess[s] = "open"
    /\ sess' = [sess EXCEPT ![s] = "closing"]
    /\ raced' = IF hpc[s] = "idle" THEN raced ELSE raced \cup {s}
    /\ CloserGoto(s, "list")
    /\ UNCHANGED <<hpc, made, registered, old, gone, peerVars, flowVars>>

ListPeers(s) ==
    /\ cpc[s] = "list"
    /\ gone' = [gone EXCEPT ![s] = registered[s]]
    /\ sess' = [sess EXCEPT ![s] = IF registered[s] = None THEN "closed" ELSE @]
    /\ CloserGoto(s, IF registered[s] = None THEN "done" ELSE "remove")
    /\ UNCHANGED <<raced, hpc, made, registered, old, peerVars, flowVars>>

\* peers.remove(key): whichever peer is there now.
RemovePeer(s) ==
    /\ cpc[s] = "remove"
    /\ registered' = [registered EXCEPT ![s] = None]
    /\ CloserGoto(s, "close")
    /\ UNCHANGED <<sess, raced, hpc, made, old, gone, peerVars, flowVars>>

\* Mutant: the peer is taken off the map and not closed.
ForgetPeer(s) ==
    /\ cpc[s] = "close"
    /\ sess' = [sess EXCEPT ![s] = "closed"]
    /\ CloserGoto(s, "done")
    /\ UNCHANGED <<raced, hpc, made, registered, old, gone, peerVars, flowVars>>

ClosePeer(s) ==
    /\ cpc[s] = "close"
    /\ TakeDown(<<s, gone[s]>>)
    /\ CloserGoto(s, IF state[<<s, gone[s]>>] = "running" THEN "cancel" ELSE "done")
    /\ sess' = [sess EXCEPT ![s] = IF state[<<s, gone[s]>>] = "running" THEN @ ELSE "closed"]
    /\ UNCHANGED <<raced, hpc, made, registered, old, gone, cancelled, flowVars>>

CancelPeer(s) ==
    /\ cpc[s] = "cancel"
    /\ Cancel(<<s, gone[s]>>)
    /\ sess' = [sess EXCEPT ![s] = "closed"]
    /\ CloserGoto(s, "done")
    /\ UNCHANGED <<raced, hpc, made, registered, old, gone, state, flowVars>>

CloseSession(s) == ListPeers(s) \/ RemovePeer(s) \/ ClosePeer(s) \/ CancelPeer(s)

----------------------------------------------------------------------------
(* The collecting coroutine of a peer, and the packets.                    *)

\* RTSPClient publishes a copy with reference count 1; nobody gets it if
\* nobody collects.
Publish ==
    /\ published < MaxPackets
    /\ published' = published + 1
    /\ UNCHANGED <<sessionVars, peerVars, job, next, taken, released>>

StartCollecting(p) ==
    /\ job[p] = "launched"
    /\ IF p \in cancelled
       THEN job' = [job EXCEPT ![p] = "ended"] /\ UNCHANGED next
       ELSE /\ job' = [job EXCEPT ![p] = "waiting"]
            /\ next' = [next EXCEPT ![p] = published + 1]
    /\ UNCHANGED <<sessionVars, peerVars, taken, published, released>>

\* DROP_OLDEST: a collector that is too slow loses packets.
Collect(p) ==
    /\ job[p] = "waiting"
    /\ p \notin cancelled
    /\ \E n \in next[p]..published :
          /\ taken' = [taken EXCEPT ![p] = n]
          /\ next' = [next EXCEPT ![p] = n + 1]
    /\ job' = [job EXCEPT ![p] = "handling"]
    /\ UNCHANGED <<sessionVars, peerVars, published, released>>

\* sendRTPPacket: without a connection the packet is dropped; with one it is
\* read and sent.  A buffer that another peer has released throws, which is
\* only logged.
DropPacket(p) ==
    /\ job[p] = "handling"
    /\ job' = [job EXCEPT ![p] = "releasing"]
    /\ UNCHANGED <<sessionVars, peerVars, next, taken, published, released>>

FindConnected(p) ==
    /\ job[p] = "handling"
    /\ job' = [job EXCEPT ![p] = "reading"]
    /\ UNCHANGED <<sessionVars, peerVars, next, taken, published, released>>

ReadPacket(p) ==
    /\ job[p] = "reading"
    /\ job' = [job EXCEPT ![p] = "releasing"]
    /\ UNCHANGED <<sessionVars, peerVars, next, taken, published, released>>

\* The finally of sendRTPPacket; losing the race to the same release throws,
\* which the handler of the subscription catches.
ReleasePacket(p) ==
    /\ job[p] = "releasing"
    /\ released' = released \cup {taken[p]}
    /\ job' = [job EXCEPT ![p] = "waiting"]
    /\ UNCHANGED <<sessionVars, peerVars, next, taken, published>>

StopCollecting(p) ==
    /\ job[p] = "waiting"
    /\ p \in cancelled
    /\ job' = [job EXCEPT ![p] = "ended"]
    /\ UNCHANGED <<sessionVars, peerVars, next, taken, published, released>>

CollectPackets(p) ==
    \/ StartCollecting(p) \/ Collect(p) \/ DropPacket(p) \/ FindConnected(p) \/ ReadPacket(p)
    \/ ReleasePacket(p) \/ StopCollecting(p)

----------------------------------------------------------------------------
Next ==
    \/ \E s \in Sessions : Offer(s) \/ HandleOffer(s) \/ EndSession(s) \/ CloseSession(s)
    \/ \E p \in Peers : CollectPackets(p)
    \/ Publish

Spec == Init /\ [][Next]_vars

(* Threads and coroutines are scheduled; sessions need not offer or end,   *)
(* connections need not come up, cameras need not send.                    *)
FairSpec ==
    /\ Spec
    /\ \A s \in Sessions : WF_vars(HandleOffer(s)) /\ WF_vars(CloseSession(s))
    /\ \A p \in Peers : WF_vars(CollectPackets(p))

----------------------------------------------------------------------------
(* Properties.                                                             *)

\* (also: no packet is released that was not published)
TypeOK ==
    /\ sess \in [Sessions -> {"open", "closing", "closed"}]
    /\ raced \subseteq Sessions
    /\ hpc \in [Sessions -> {"idle", "closeOld", "cancelOld", "limit", "register", "process",
                             "start", "subscribe"}]
    /\ cpc \in [Sessions -> {"none", "list", "remove", "close", "cancel", "done"}]
    /\ DOMAIN made = Sessions /\ DOMAIN registered = Sessions
    /\ DOMAIN old = Sessions /\ DOMAIN gone = Sessions
    /\ \A s \in Sessions : made[s] \in 0..MaxOffers[s] /\ {registered[s], old[s], gone[s]} \subseteq 0..made[s]
    /\ state \in [Peers -> {"new", "running", "closed"}]
    /\ cancelled \subseteq Peers
    /\ job \in [Peers -> {"none", "launched", "waiting", "handling", "reading", "releasing",
                         "ended"}]
    /\ next \in [Peers -> 1..MaxPackets + 1] /\ taken \in [Peers -> 0..MaxPackets]
    /\ published \in 0..MaxPackets /\ released \subseteq 1..published

\* A running peer is never lost: it is under its session's key in the map, or
\* the thread that took it out is about to close it (createPeer replacing it,
\* removePeersBySession), unless the session ended in the middle of an offer.
RunningPeerIsFound ==
    \A p \in Peers : state[p] = "running" =>
        \/ registered[p[1]] = p[2]
        \/ hpc[p[1]] = "closeOld" /\ old[p[1]] = p[2]
        \/ cpc[p[1]] = "close" /\ gone[p[1]] = p[2]
        \/ p[1] \in raced

\* A peer that is closed stops collecting packets, also when close meets start
\* before subscriptionJob is assigned: the scope is cancelled as well.
ClosedPeerEnds == \A p \in Peers : state[p] = "closed" ~> [](job[p] \in {"none", "ended"})

\* Once a session has ended, none of its peers runs, unless it ended in the
\* middle of an offer: with ClosedPeerEnds, all of them stop collecting.
EndedSessionLeaves ==
    \A p \in Peers : sess[p[1]] = "closed" /\ p[1] \notin raced => state[p] # "running"

\* Every viewer gets the packets of the stream, however many there are: none
\* reads a packet that another one has released (StreamFlow: broadcast to
\* several subscribers; subscribe: a handler must not release the packet).
ReadsLivePacket ==
    \A p \in Peers : job[p] = "reading" => taken[p] \notin released
=============================================================================
