------------------------- MODULE KotlinServerProofs -------------------------
(***************************************************************************)
(* Proofs about the Kotlin server, for any number of sessions, offers,     *)
(* packets and peers: in ViewerSessions, type correctness, that no running *)
(* peer is lost, and that an ended session leaves none running.            *)
(***************************************************************************)
EXTENDS ViewerSessions, TLAPS

----------------------------------------------------------------------------
(* Types of ViewerSessions.                                                *)

SessionPlaces ==
    {"idle", "closeOld", "cancelOld", "limit", "register", "process", "start", "subscribe"}
CloserPlaces == {"none", "list", "remove", "close", "cancel", "done"}
Holding == {"handling", "reading", "releasing"}

\* Before the peer of an offer is registered, and after.
Making == {"closeOld", "cancelOld", "limit", "register"}
Using == {"process", "start", "subscribe"}

SessionTypes ==
    /\ sess \in [Sessions -> {"open", "closing", "closed"}]
    /\ raced \subseteq Sessions
    /\ hpc \in [Sessions -> SessionPlaces] /\ cpc \in [Sessions -> CloserPlaces]
    /\ made \in [Sessions -> Nat] /\ registered \in [Sessions -> Nat]
    /\ old \in [Sessions -> Nat] /\ gone \in [Sessions -> Nat]
    /\ \A s \in Sessions :
         /\ made[s] <= MaxOffers[s]
         /\ registered[s] <= made[s] /\ old[s] <= made[s] /\ gone[s] <= made[s]
         /\ hpc[s] \in Making => made[s] < MaxOffers[s]

PeerTypes ==
    /\ state \in [Peers -> {"new", "running", "closed"}]
    /\ cancelled \subseteq Peers

FlowTypes ==
    /\ job \in [Peers -> {"none", "launched", "waiting", "ended"} \cup Holding]
    /\ next \in [Peers -> Nat] /\ taken \in [Peers -> Nat]
    /\ published \in 0..MaxPackets /\ released \subseteq 1..published
    /\ \A p \in Peers :
         /\ next[p] \in 1..published + 1 /\ taken[p] \in 0..published
         /\ job[p] \in Holding => taken[p] # 0

\* Which peers old, gone and made name when a step closes or starts them.
Named ==
    \A s \in Sessions :
        /\ hpc[s] \in {"closeOld", "cancelOld"} => old[s] # None
        /\ hpc[s] \in Using => made[s] # 0
        /\ cpc[s] \in {"remove", "close", "cancel"} => gone[s] # None

Types == SessionTypes /\ PeerTypes /\ FlowTypes /\ Named

LEMMA PeerNames ==
    /\ \A p \in Peers : p[1] \in Sessions /\ p[2] \in 1..MaxOffers[p[1]] /\ p = <<p[1], p[2]>>
    /\ \A s \in Sessions : \A n \in 1..MaxOffers[s] : <<s, n>> \in Peers
    /\ \A s \in Sessions : MaxOffers[s] \in Nat
  BY BoundsAssumption DEF Peers

LEMMA TypesInit == Init => Types
<1> SUFFICES ASSUME Init PROVE Types
  OBVIOUS
<1>1. SessionTypes /\ Named
  BY PeerNames DEF Init, SessionTypes, Named, SessionPlaces, CloserPlaces, Making, Using, None
<1>2. PeerTypes
  BY DEF Init, PeerTypes
<1>3. FlowTypes
  BY BoundsAssumption DEF Init, FlowTypes, Holding
<1> QED
  BY <1>1, <1>2, <1>3 DEF Types

LEMMA TypesNext == Types /\ [Next]_vars => Types'
<1> SUFFICES ASSUME Types, [Next]_vars PROVE Types'
  OBVIOUS
<1> USE PeerNames DEF Types
<1>1. ASSUME NEW s \in Sessions, Offer(s) PROVE Types'
  <2>1. SessionTypes' /\ Named'
    BY <1>1 DEF Offer, Goto, SessionTypes, SessionPlaces, Named, Making, Using, None
  <2> QED
    BY <1>1, <2>1 DEF Offer, peerVars, flowVars, PeerTypes, FlowTypes
<1>2. ASSUME NEW s \in Sessions, CloseOld(s) \/ CancelOld(s) PROVE Types'
  <2>1. SessionTypes' /\ Named'
    BY <1>2 DEF CloseOld, CancelOld, Goto, SessionTypes, SessionPlaces, Named, Making, Using
  <2>2. <<s, old[s]>> \in Peers
    BY <1>2 DEF CloseOld, CancelOld, SessionTypes, Named, None
  <2>3. PeerTypes'
    BY <1>2, <2>2 DEF CloseOld, CancelOld, TakeDown, Cancel, PeerTypes
  <2> QED
    BY <1>2, <2>1, <2>3 DEF CloseOld, CancelOld, flowVars, FlowTypes
<1>3. ASSUME NEW s \in Sessions, CheckLimit(s) \/ ProcessOffer(s) PROVE Types'
  <2>1. SessionTypes' /\ Named'
    BY <1>3 DEF CheckLimit, ProcessOffer, Goto, SessionTypes, SessionPlaces, Named, Making, Using
  <2> QED
    BY <1>3, <2>1 DEF CheckLimit, ProcessOffer, peerVars, flowVars, PeerTypes, FlowTypes
<1>4. ASSUME NEW s \in Sessions, Register(s) PROVE Types'
  <2>1. SessionTypes' /\ Named'
    BY <1>4 DEF Register, Goto, SessionTypes, SessionPlaces, Named, Making, Using, None
  <2> QED
    BY <1>4, <2>1 DEF Register, peerVars, flowVars, PeerTypes, FlowTypes
<1>5. ASSUME NEW s \in Sessions, StartPeer(s) PROVE Types'
  <2>1. SessionTypes' /\ Named'
    BY <1>5 DEF StartPeer, Goto, SessionTypes, SessionPlaces, Named, Making, Using
  <2> QED
    BY <1>5, <2>1 DEF StartPeer, flowVars, PeerTypes, FlowTypes
<1>6. ASSUME NEW s \in Sessions, Subscribe(s) PROVE Types'
  <2>1. SessionTypes' /\ Named'
    BY <1>6 DEF Subscribe, Goto, SessionTypes, SessionPlaces, Named, Making, Using
  <2> QED
    BY <1>6, <2>1 DEF Subscribe, peerVars, PeerTypes, FlowTypes, Holding
<1>7. ASSUME NEW s \in Sessions, EndSession(s) PROVE Types'
  <2>1. SessionTypes' /\ Named'
    BY <1>7 DEF EndSession, CloserGoto, SessionTypes, CloserPlaces, Named
  <2> QED
    BY <1>7, <2>1 DEF EndSession, peerVars, flowVars, PeerTypes, FlowTypes
<1>8. ASSUME NEW s \in Sessions, ListPeers(s) PROVE Types'
  <2>1. SessionTypes' /\ Named'
    BY <1>8 DEF ListPeers, CloserGoto, SessionTypes, CloserPlaces, Named
  <2> QED
    BY <1>8, <2>1 DEF ListPeers, peerVars, flowVars, PeerTypes, FlowTypes
<1>9. ASSUME NEW s \in Sessions, RemovePeer(s) PROVE Types'
  <2>1. SessionTypes' /\ Named'
    BY <1>9 DEF RemovePeer, CloserGoto, SessionTypes, CloserPlaces, Named, None
  <2> QED
    BY <1>9, <2>1 DEF RemovePeer, peerVars, flowVars, PeerTypes, FlowTypes
<1>10. ASSUME NEW s \in Sessions, ClosePeer(s) \/ CancelPeer(s) PROVE Types'
  <2>1. SessionTypes' /\ Named'
    BY <1>10 DEF ClosePeer, CancelPeer, CloserGoto, SessionTypes, CloserPlaces, Named
  <2>2. <<s, gone[s]>> \in Peers
    BY <1>10 DEF ClosePeer, CancelPeer, SessionTypes, Named, None
  <2>3. PeerTypes'
    BY <1>10, <2>2 DEF ClosePeer, CancelPeer, TakeDown, Cancel, PeerTypes
  <2> QED
    BY <1>10, <2>1, <2>3 DEF ClosePeer, CancelPeer, flowVars, FlowTypes
<1>11. ASSUME NEW p \in Peers, CollectPackets(p) PROVE Types'
  <2>1. sessionVars' = sessionVars /\ peerVars' = peerVars /\ published' = published
    BY <1>11 DEF CollectPackets, StartCollecting, Collect, DropPacket, FindConnected, ReadPacket,
                 ReleasePacket, StopCollecting
  <2>2. SessionTypes' /\ Named' /\ PeerTypes'
    BY <2>1 DEF sessionVars, peerVars, SessionTypes, Named, PeerTypes
  <2>3. CASE StartCollecting(p)
    BY <2>2, <2>3, BoundsAssumption DEF StartCollecting, FlowTypes, Holding
  <2>4. CASE Collect(p)
    <3>1. PICK n \in next[p]..published : /\ taken' = [taken EXCEPT ![p] = n]
                                          /\ next' = [next EXCEPT ![p] = n + 1]
      BY <2>4 DEF Collect
    <3>2. n \in Nat /\ n # 0 /\ n <= published
      BY <3>1, BoundsAssumption DEF FlowTypes
    <3> QED
      BY <2>2, <2>4, <3>1, <3>2, BoundsAssumption DEF Collect, FlowTypes, Holding
  <2>5. CASE DropPacket(p) \/ FindConnected(p) \/ ReadPacket(p) \/ StopCollecting(p)
    BY <2>2, <2>5 DEF DropPacket, FindConnected, ReadPacket, StopCollecting, FlowTypes, Holding
  <2>6. CASE ReleasePacket(p)
    BY <2>2, <2>6, BoundsAssumption DEF ReleasePacket, FlowTypes, Holding
  <2> QED
    BY <1>11, <2>3, <2>4, <2>5, <2>6 DEF CollectPackets
<1>12. CASE Publish
  <2>1. SessionTypes' /\ Named' /\ PeerTypes'
    BY <1>12 DEF Publish, sessionVars, peerVars, SessionTypes, Named, PeerTypes
  <2>2. FlowTypes'
    BY <1>12, BoundsAssumption DEF Publish, FlowTypes
  <2> QED
    BY <2>1, <2>2
<1>13. CASE UNCHANGED vars
  BY <1>13 DEF vars, sessionVars, peerVars, flowVars, SessionTypes, Named, PeerTypes, FlowTypes
<1> QED
  BY <1>1, <1>2, <1>3, <1>4, <1>5, <1>6, <1>7, <1>8, <1>9, <1>10, <1>11, <1>12, <1>13
  DEF Next, HandleOffer, CloseSession

LEMMA TypesHold == Spec => []Types
  BY TypesInit, TypesNext, PTL DEF Spec

\* The variables of ViewerSessions keep their types; a packet that is released was published
\* (SignalingController, WebRTCManager, WebRTCPeer, StreamFlow).
THEOREM ViewersTypeCorrect == Spec => []TypeOK
<1>1. Types => TypeOK
  BY PeerNames, BoundsAssumption
  DEF Types, TypeOK, SessionTypes, PeerTypes, FlowTypes, SessionPlaces, CloserPlaces, Holding
<1> QED
  BY <1>1, TypesHold, PTL

----------------------------------------------------------------------------
(* Running peers of ViewerSessions.                                        *)

\* Without a race the thread of the offers and the closer of a session do not meet, so the map
\* holds at each place of either what that place relies on.
Session(s) ==
    /\ sess[s] = "open" <=> cpc[s] = "none"
    /\ sess[s] = "closed" <=> cpc[s] = "done"
    /\ hpc[s] # "idle" /\ cpc[s] # "none" => s \in raced
    /\ hpc[s] \in Making => registered[s] = None
    /\ s \notin raced =>
         /\ hpc[s] \in Using => registered[s] = made[s]
         /\ cpc[s] = "remove" => registered[s] = gone[s]
         /\ cpc[s] \in {"close", "cancel", "done"} => registered[s] = None

Found(p) ==
    state[p] = "running" =>
        \/ registered[p[1]] = p[2]
        \/ hpc[p[1]] = "closeOld" /\ old[p[1]] = p[2]
        \/ cpc[p[1]] = "close" /\ gone[p[1]] = p[2]
        \/ p[1] \in raced

ViewersInv == Types /\ (\A s \in Sessions : Session(s)) /\ (\A p \in Peers : Found(p))

LEMMA ViewersInit == Init => ViewersInv
<1> SUFFICES ASSUME Init PROVE ViewersInv
  OBVIOUS
<1>1. \A s \in Sessions : Session(s)
  BY DEF Init, Session, Making, Using
<1>2. \A p \in Peers : Found(p)
  BY DEF Init, Found
<1> QED
  BY <1>1, <1>2, TypesInit DEF ViewersInv

\* A step of one session need only be looked at for that session and its peers.
LEMMA OtherSessionsStay ==
    ASSUME ViewersInv, Types', NEW s \in Sessions, Session(s)', raced \subseteq raced',
           raced' \subseteq raced \cup {s},
           \A t \in Sessions \ {s} :
               /\ sess'[t] = sess[t] /\ hpc'[t] = hpc[t] /\ cpc'[t] = cpc[t] /\ made'[t] = made[t]
               /\ registered'[t] = registered[t] /\ old'[t] = old[t] /\ gone'[t] = gone[t],
           \A p \in Peers : p[1] # s => state'[p] = state[p],
           \A p \in Peers : p[1] = s => Found(p)'
    PROVE  ViewersInv'
<1>1. ASSUME NEW t \in Sessions PROVE Session(t)'
  BY DEF ViewersInv, Session
<1>2. ASSUME NEW p \in Peers PROVE Found(p)'
  BY PeerNames DEF ViewersInv, Found
<1> QED
  BY <1>1, <1>2 DEF ViewersInv

LEMMA ViewersNext == ViewersInv /\ [Next]_vars => ViewersInv'
<1> SUFFICES ASSUME ViewersInv, [Next]_vars PROVE ViewersInv'
  OBVIOUS
<1> USE PeerNames
<1>1. Types /\ Types'
  BY TypesNext DEF ViewersInv
<1>2. /\ \A s \in Sessions : Session(s) /\ \A p \in Peers : Found(p)
  BY DEF ViewersInv
<1>3. SessionTypes /\ PeerTypes /\ Named
  BY <1>1 DEF Types
<1>4. ASSUME NEW s \in Sessions, Offer(s) PROVE ViewersInv'
  <2>1. Session(s)'
    BY <1>2, <1>3, <1>4 DEF Offer, Goto, Session, SessionTypes, Making, Using
  <2>2. ASSUME NEW p \in Peers, p[1] = s PROVE Found(p)'
    BY <1>2, <1>3, <1>4, <2>2 DEF Offer, Goto, Found, Session, SessionTypes, peerVars, None
  <2>3. \A t \in Sessions \ {s} : hpc'[t] = hpc[t] /\ registered'[t] = registered[t] /\ old'[t] = old[t]
    BY <1>3, <1>4 DEF Offer, Goto, SessionTypes
  <2> QED
    BY <1>1, <1>4, <2>1, <2>2, <2>3, OtherSessionsStay DEF Offer, peerVars
<1>5. ASSUME NEW s \in Sessions, CloseOld(s) PROVE ViewersInv'
  <2>1. Session(s)'
    BY <1>2, <1>3, <1>5 DEF CloseOld, Goto, Session, SessionTypes, Making, Using
  <2>2. ASSUME NEW p \in Peers, p[1] = s PROVE Found(p)'
    BY <1>2, <1>3, <1>5, <2>2 DEF CloseOld, TakeDown, Goto, Found, SessionTypes, PeerTypes
  <2>3. \A p \in Peers : p[1] # s => state'[p] = state[p]
    BY <1>3, <1>5 DEF CloseOld, TakeDown, PeerTypes
  <2>4. \A t \in Sessions \ {s} : hpc'[t] = hpc[t]
    BY <1>3, <1>5 DEF CloseOld, Goto, SessionTypes
  <2> QED
    BY <1>1, <1>5, <2>1, <2>2, <2>3, <2>4, OtherSessionsStay DEF CloseOld
<1>6. ASSUME NEW s \in Sessions, CancelOld(s) \/ CheckLimit(s) \/ ProcessOffer(s) \/ Subscribe(s)
      PROVE  ViewersInv'
  <2>1. /\ sess' = sess /\ raced' = raced /\ cpc' = cpc /\ made' = made /\ registered' = registered
        /\ old' = old /\ gone' = gone /\ state' = state
        /\ \A t \in Sessions \ {s} : hpc'[t] = hpc[t]
        /\ hpc[s] # "idle" /\ hpc[s] # "closeOld"
        /\ hpc'[s] \in Making => hpc[s] \in Making
        /\ hpc'[s] \in Using => hpc[s] \in Using
    BY <1>3, <1>6 DEF CancelOld, CheckLimit, ProcessOffer, Subscribe, Goto, SessionTypes, peerVars,
                      Making, Using
  <2>2. Session(s)'
    BY <1>2, <2>1 DEF Session
  <2>3. ASSUME NEW p \in Peers, p[1] = s PROVE Found(p)'
    BY <1>2, <2>1, <2>3 DEF Found
  <2> QED
    BY <1>1, <2>1, <2>2, <2>3, OtherSessionsStay
<1>7. ASSUME NEW s \in Sessions, Register(s) PROVE ViewersInv'
  <2>1. Session(s)'
    BY <1>2, <1>3, <1>7 DEF Register, Goto, Session, SessionTypes, Making, Using
  <2>2. ASSUME NEW p \in Peers, p[1] = s PROVE Found(p)'
    BY <1>2, <1>3, <1>7, <2>2 DEF Register, Goto, Found, Session, SessionTypes, peerVars, Making, None
  <2>3. \A t \in Sessions \ {s} :
            hpc'[t] = hpc[t] /\ made'[t] = made[t] /\ registered'[t] = registered[t]
    BY <1>3, <1>7 DEF Register, Goto, SessionTypes
  <2> QED
    BY <1>1, <1>7, <2>1, <2>2, <2>3, OtherSessionsStay DEF Register, peerVars
<1>8. ASSUME NEW s \in Sessions, StartPeer(s) PROVE ViewersInv'
  <2>1. Session(s)'
    BY <1>2, <1>3, <1>8 DEF StartPeer, Goto, Session, SessionTypes, Making, Using
  <2>2. ASSUME NEW p \in Peers, p[1] = s PROVE Found(p)'
    <3>1. CASE p[2] = made[s]
      BY <1>2, <1>3, <1>8, <2>2, <3>1 DEF StartPeer, Found, Session, Using
    <3>2. CASE p[2] # made[s]
      <4>1. state'[p] = state[p]
        BY <1>3, <1>8, <2>2, <3>2 DEF StartPeer, PeerTypes
      <4> QED
        BY <1>2, <1>3, <1>8, <2>2, <4>1 DEF StartPeer, Goto, Found, SessionTypes
    <3> QED
      BY <3>1, <3>2
  <2>3. \A p \in Peers : p[1] # s => state'[p] = state[p]
    BY <1>3, <1>8 DEF StartPeer, PeerTypes
  <2>4. \A t \in Sessions \ {s} : hpc'[t] = hpc[t]
    BY <1>3, <1>8 DEF StartPeer, Goto, SessionTypes
  <2> QED
    BY <1>1, <1>8, <2>1, <2>2, <2>3, <2>4, OtherSessionsStay DEF StartPeer
<1>9. ASSUME NEW s \in Sessions, EndSession(s) PROVE ViewersInv'
  <2>1. Session(s)'
    BY <1>2, <1>3, <1>9 DEF EndSession, CloserGoto, Session, SessionTypes
  <2>2. ASSUME NEW p \in Peers, p[1] = s PROVE Found(p)'
    BY <1>2, <1>3, <1>9, <2>2 DEF EndSession, CloserGoto, Found, Session, SessionTypes, peerVars
  <2>3. \A t \in Sessions \ {s} : sess'[t] = sess[t] /\ cpc'[t] = cpc[t]
    BY <1>3, <1>9 DEF EndSession, CloserGoto, SessionTypes
  <2> QED
    BY <1>1, <1>9, <2>1, <2>2, <2>3, OtherSessionsStay DEF EndSession, peerVars
<1>10. ASSUME NEW s \in Sessions, ListPeers(s) PROVE ViewersInv'
  <2>1. Session(s)'
    BY <1>2, <1>3, <1>10 DEF ListPeers, CloserGoto, Session, SessionTypes, Making, Using
  <2>2. ASSUME NEW p \in Peers, p[1] = s PROVE Found(p)'
    BY <1>2, <1>3, <1>10, <2>2 DEF ListPeers, CloserGoto, Found, SessionTypes, peerVars
  <2>3. \A t \in Sessions \ {s} : sess'[t] = sess[t] /\ cpc'[t] = cpc[t] /\ gone'[t] = gone[t]
    BY <1>3, <1>10 DEF ListPeers, CloserGoto, SessionTypes
  <2> QED
    BY <1>1, <1>10, <2>1, <2>2, <2>3, OtherSessionsStay DEF ListPeers, peerVars
<1>11. ASSUME NEW s \in Sessions, RemovePeer(s) PROVE ViewersInv'
  <2>1. Session(s)'
    BY <1>2, <1>3, <1>11 DEF RemovePeer, CloserGoto, Session, SessionTypes, Making, Using
  <2>2. ASSUME NEW p \in Peers, p[1] = s PROVE Found(p)'
    BY <1>2, <1>3, <1>11, <2>2 DEF RemovePeer, CloserGoto, Found, Session, SessionTypes, peerVars
  <2>3. \A t \in Sessions \ {s} : cpc'[t] = cpc[t] /\ registered'[t] = registered[t]
    BY <1>3, <1>11 DEF RemovePeer, CloserGoto, SessionTypes
  <2> QED
    BY <1>1, <1>11, <2>1, <2>2, <2>3, OtherSessionsStay DEF RemovePeer, peerVars
<1>12. ASSUME NEW s \in Sessions, ClosePeer(s) PROVE ViewersInv'
  <2>1. Session(s)'
    BY <1>2, <1>3, <1>12 DEF ClosePeer, CloserGoto, Session, SessionTypes, Making, Using
  <2>2. ASSUME NEW p \in Peers, p[1] = s PROVE Found(p)'
    BY <1>2, <1>3, <1>12, <2>2 DEF ClosePeer, TakeDown, CloserGoto, Found, SessionTypes, PeerTypes
  <2>3. \A p \in Peers : p[1] # s => state'[p] = state[p]
    BY <1>3, <1>12 DEF ClosePeer, TakeDown, PeerTypes
  <2>4. \A t \in Sessions \ {s} : sess'[t] = sess[t] /\ cpc'[t] = cpc[t]
    BY <1>3, <1>12 DEF ClosePeer, CloserGoto, SessionTypes
  <2> QED
    BY <1>1, <1>12, <2>1, <2>2, <2>3, <2>4, OtherSessionsStay DEF ClosePeer
<1>13. ASSUME NEW s \in Sessions, CancelPeer(s) PROVE ViewersInv'
  <2>1. Session(s)'
    BY <1>2, <1>3, <1>13 DEF CancelPeer, CloserGoto, Session, SessionTypes
  <2>2. ASSUME NEW p \in Peers, p[1] = s PROVE Found(p)'
    BY <1>2, <1>3, <1>13, <2>2 DEF CancelPeer, CloserGoto, Found, SessionTypes
  <2>3. \A t \in Sessions \ {s} : sess'[t] = sess[t] /\ cpc'[t] = cpc[t]
    BY <1>3, <1>13 DEF CancelPeer, CloserGoto, SessionTypes
  <2> QED
    BY <1>1, <1>13, <2>1, <2>2, <2>3, OtherSessionsStay DEF CancelPeer
<1>14. ASSUME UNCHANGED <<sessionVars, state>> PROVE ViewersInv'
  BY <1>1, <1>2, <1>14 DEF ViewersInv, Session, Found, sessionVars
<1>15. ASSUME NEW p \in Peers, CollectPackets(p) PROVE ViewersInv'
  BY <1>14, <1>15 DEF CollectPackets, StartCollecting, Collect, DropPacket, FindConnected, ReadPacket,
                      ReleasePacket, StopCollecting, peerVars
<1>16. CASE Publish \/ UNCHANGED vars
  BY <1>14, <1>16 DEF Publish, vars, peerVars
<1> QED
  BY <1>4, <1>5, <1>6, <1>7, <1>8, <1>9, <1>10, <1>11, <1>12, <1>13, <1>15, <1>16
  DEF Next, HandleOffer, CloseSession

LEMMA ViewersInvHolds == Spec => []ViewersInv
  BY ViewersInit, ViewersNext, PTL DEF Spec

\* No running peer is lost (WebRTCManager.createPeer and removePeersBySession, which take a peer off
\* the map before they close it), unless its session ended in the middle of an offer.
THEOREM RunningPeerIsFoundHolds == Spec => []RunningPeerIsFound
<1>1. ViewersInv => RunningPeerIsFound
  BY DEF ViewersInv, Found, RunningPeerIsFound
<1> QED
  BY <1>1, ViewersInvHolds, PTL

\* Once afterConnectionClosed has come to its end, none of the session's peers runs, unless the
\* session ended in the middle of an offer.
THEOREM EndedSessionLeavesHolds == Spec => []EndedSessionLeaves
<1>1. ViewersInv => EndedSessionLeaves
  BY PeerNames
  DEF ViewersInv, Types, SessionTypes, Found, Session, EndedSessionLeaves, None
<1> QED
  BY <1>1, ViewersInvHolds, PTL
=============================================================================
