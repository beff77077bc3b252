------------------------ MODULE PeerLifecycleProofs ------------------------
(***************************************************************************)
(* Proofs about PeerLifecycle, for any number of peers and any limit: type *)
(* correctness with the limit of Manager.peers, and that no slot is lost.  *)
(***************************************************************************)
EXTENDS PeerLifecycle, FiniteSetTheorems, TLAPS

Types ==
    /\ at \in [Goroutines -> Places]
    /\ registered \subseteq Peers /\ pc \subseteq Peers /\ mapped \subseteq Peers
    /\ locked \in BOOLEAN
    /\ once \in [Peers -> {"new", "closing", "closed"}]
    /\ made \in Objects /\ stream \in 0..made
    /\ found \in [Peers -> 0..made] /\ sub \in [Peers -> 0..made]
    /\ shutdown \in {"no", "sweeping", "over"}

\* The four goroutines of a peer are four, and not those of another peer.
LEMMA Names ==
    ASSUME NEW p \in Peers, NEW q \in Peers
    PROVE  /\ Offer(p) \in Goroutines /\ Event(p) \in Goroutines
           /\ Closer(p) \in Goroutines /\ Sweep(p) \in Goroutines
           /\ Offer(p) # Event(q) /\ Offer(p) # Closer(q) /\ Offer(p) # Sweep(q)
           /\ Event(p) # Closer(q) /\ Event(p) # Sweep(q) /\ Closer(p) # Sweep(q)
           /\ Offer(p) = Offer(q) => p = q
           /\ Event(p) = Event(q) => p = q
           /\ Closer(p) = Closer(q) => p = q
           /\ Sweep(p) = Sweep(q) => p = q
  BY DEF Goroutines, Offer, Event, Closer, Sweep

----------------------------------------------------------------------------
(* Type correctness.                                                       *)

LEMMA TypesInit == Init => Types
<1> SUFFICES ASSUME Init PROVE Types
  OBVIOUS
<1>1. made \in Objects /\ stream \in 0..made /\ None \in 0..made
  BY StreamsAssumption DEF Init, Objects, None
<1>2. found \in [Peers -> 0..made] /\ sub \in [Peers -> 0..made]
  BY <1>1 DEF Init
<1>3. at \in [Goroutines -> Places] /\ once \in [Peers -> {"new", "closing", "closed"}]
  BY DEF Init, Places
<1> QED
  BY <1>1, <1>2, <1>3 DEF Init, Types

\* The stream's number never goes down, so what was found stays found.
LEMMA TypesNext == Types /\ [Next]_vars => Types'
<1> SUFFICES ASSUME Types, [Next]_vars PROVE Types'
  OBVIOUS
<1> USE DEF Types, Places
<1>1. ASSUME NEW g \in Goroutines, NEW p \in Peers, NEW place \in {"refused", "done"},
             Remove(g, p, place)
      PROVE  Types'
  <2>1. Closer(p) \in Goroutines
    BY Names
  <2> QED
    BY <1>1, <2>1 DEF Remove, RemoveLock, CloseBegin, CloseEnd, RemoveUnlock, Goto
<1>2. ASSUME NEW g \in Goroutines, NEW p \in Peers, CloseBegin(g, p) \/ CloseEnd(g, p)
      PROVE  Types'
  <2>1. Closer(p) \in Goroutines
    BY Names
  <2> QED
    BY <1>2, <2>1 DEF CloseBegin, CloseEnd, Goto
<1>3. ASSUME NEW p \in Peers, AnswerOffer(p) PROVE Types'
  <2>1. Offer(p) \in Goroutines
    BY Names
  <2>2. CASE StreamRuns(p) \/ CreatePeer(p) \/ MakeConnection(p) \/ Answer(p) \/ AnswerFails(p)
    BY <2>1, <2>2 DEF StreamRuns, CreatePeer, MakeConnection, Answer, AnswerFails, Goto
  <2>3. CASE Subscribe(p) \/ StoreMapping(p)
    BY <2>1, <2>3 DEF Subscribe, StoreMapping, Goto
  <2>4. CASE Remove(Offer(p), p, "refused")
    BY <2>1, <2>4, <1>1
  <2> QED
    BY <1>3, <2>2, <2>3, <2>4 DEF AnswerOffer
<1>4. ASSUME NEW p \in Peers, CleanUp(p) PROVE Types'
  <2>1. Closer(p) \in Goroutines
    BY Names
  <2>2. CASE TakeMapping(p)
    BY <2>1, <2>2 DEF TakeMapping, Goto
  <2>3. CASE Unsubscribe(p)
    BY <2>1, <2>3, StreamsAssumption DEF Unsubscribe, Goto, None, Objects
  <2>4. CASE Remove(Closer(p), p, "done")
    BY <2>1, <2>4, <1>1
  <2> QED
    BY <1>4, <2>2, <2>3, <2>4 DEF CleanUp
<1>5. ASSUME NEW p \in Peers, HandleEvent(p) \/ SweepPeer(p) PROVE Types'
  <2>1. Event(p) \in Goroutines /\ Sweep(p) \in Goroutines
    BY Names
  <2>2. CASE EventReturns(p) \/ SweepNext(p) \/ SweepDelete(p)
    BY <2>1, <2>2 DEF EventReturns, SweepNext, SweepDelete, Goto
  <2> QED
    BY <1>5, <2>1, <2>2, <1>2 DEF HandleEvent, SweepPeer
<1>6. CASE ShutdownUnlock \/ ShutdownLock
  BY <1>6 DEF ShutdownUnlock, ShutdownLock
<1>7. ASSUME NEW p \in Peers, GetStream(p) \/ ConnectionFails(p) PROVE Types'
  <2>1. Event(p) \in Goroutines /\ Offer(p) \in Goroutines
    BY Names
  <2> QED
    BY <1>7, <2>1 DEF GetStream, ConnectionFails, Goto
<1>8. CASE RemoveStream
  BY <1>8, StreamsAssumption DEF RemoveStream, None, Objects
<1>9. CASE CreateStream
  <2>1. made' = made + 1 /\ made' \in Objects /\ 0..made \subseteq 0..made'
    BY <1>9, StreamsAssumption DEF CreateStream, Objects
  <2>2. stream' \in 0..made'
    BY <1>9, <2>1, StreamsAssumption DEF CreateStream, Objects
  <2> QED
    BY <1>9, <2>1, <2>2 DEF CreateStream
<1>10. CASE UNCHANGED vars
  BY <1>10 DEF vars
<1> QED
  BY <1>3, <1>4, <1>5, <1>6, <1>7, <1>8, <1>9, <1>10 DEF Next, Work, Environment

----------------------------------------------------------------------------
(* The limit.                                                              *)

Limit == IsFiniteSet(registered) /\ Cardinality(registered) <= MaxPeers

\* A step removes peers from the map, or adds one when there is room.
LEMMA RegisteredStep ==
    ASSUME [Next]_vars
    PROVE  \/ registered' \subseteq registered
           \/ HasSlot /\ \E p \in Peers : registered' = registered \cup {p}
<1>1. ASSUME NEW g, NEW p, NEW place, Remove(g, p, place)
      PROVE  registered' \subseteq registered
  BY <1>1 DEF Remove, RemoveLock, CloseBegin, CloseEnd, RemoveUnlock
<1>2. ASSUME NEW p \in Peers, AnswerOffer(p)
      PROVE  \/ registered' \subseteq registered
             \/ HasSlot /\ registered' = registered \cup {p}
  <2>1. CASE CreatePeer(p)
    BY <2>1 DEF CreatePeer
  <2>2. CASE StreamRuns(p) \/ MakeConnection(p) \/ Answer(p) \/ AnswerFails(p)
    BY <2>2 DEF StreamRuns, MakeConnection, Answer, AnswerFails
  <2>3. CASE Subscribe(p) \/ StoreMapping(p)
    BY <2>3 DEF Subscribe, StoreMapping
  <2> QED
    BY <1>1, <1>2, <2>1, <2>2, <2>3 DEF AnswerOffer
<1>3. ASSUME NEW p \in Peers, CleanUp(p) PROVE registered' \subseteq registered
  BY <1>1, <1>3 DEF CleanUp, TakeMapping, Unsubscribe
<1>4. ASSUME NEW p \in Peers, HandleEvent(p) \/ SweepPeer(p) PROVE registered' \subseteq registered
  BY <1>4 DEF HandleEvent, SweepPeer, CloseBegin, CloseEnd, EventReturns, SweepNext, SweepDelete
<1>5. CASE ShutdownUnlock \/ ShutdownLock \/ RemoveStream \/ CreateStream
  BY <1>5 DEF ShutdownUnlock, ShutdownLock, RemoveStream, CreateStream
<1>6. ASSUME NEW p \in Peers, GetStream(p) \/ ConnectionFails(p)
      PROVE  registered' \subseteq registered
  BY <1>6 DEF GetStream, ConnectionFails
<1>7. CASE UNCHANGED vars
  BY <1>7 DEF vars
<1> QED
  BY <1>2, <1>3, <1>4, <1>5, <1>6, <1>7 DEF Next, Work, Environment

LEMMA LimitNext == Limit /\ [Next]_vars => Limit'
<1> SUFFICES ASSUME Limit, [Next]_vars PROVE Limit'
  OBVIOUS
<1>1. Cardinality(registered) \in Nat
  BY FS_CardinalityType DEF Limit
<1>2. CASE registered' \subseteq registered
  <2>1. IsFiniteSet(registered') /\ Cardinality(registered') <= Cardinality(registered)
    BY <1>2, FS_Subset DEF Limit
  <2>2. Cardinality(registered') \in Nat
    BY <2>1, FS_CardinalityType
  <2> QED
    BY <1>1, <2>1, <2>2, LimitAssumption DEF Limit
<1>3. CASE HasSlot /\ \E p \in Peers : registered' = registered \cup {p}
  <2>1. PICK p \in Peers : registered' = registered \cup {p}
    BY <1>3
  <2>2. /\ IsFiniteSet(registered')
        /\ Cardinality(registered') \in {Cardinality(registered), Cardinality(registered) + 1}
    BY <2>1, FS_AddElement DEF Limit
  <2> QED
    BY <1>1, <1>3, <2>2, LimitAssumption DEF Limit, HasSlot
<1> QED
  BY <1>2, <1>3, RegisteredStep

\* Type correctness, and never more than max_peers peers, for any number of
\* offers answered, failing, closing and being cleaned up at once.
THEOREM TypeCorrect == Spec => []TypeOK
<1>1. Init => Types /\ Limit
  <2>1. Init => registered = {}
    BY DEF Init
  <2>2. IsFiniteSet({}) /\ Cardinality({}) = 0
    BY FS_EmptySet
  <2> QED
    BY <2>1, <2>2, TypesInit, LimitAssumption DEF Limit
<1>2. Types /\ Limit /\ [Next]_vars => (Types /\ Limit)'
  BY TypesNext, LimitNext
<1>3. Types /\ Limit => TypeOK
  BY DEF Types, Limit, TypeOK
<1> QED
  BY <1>1, <1>2, <1>3, PTL DEF Spec

----------------------------------------------------------------------------
(* No slot is lost.  Close runs once, so the closer starts once, after the *)
(* peer was registered and not before: it cannot be over while the peer is *)
(* still in the map.                                                       *)

\* Nothing happens to a peer before its offer has registered it.
NotYet(p) ==
    at[Offer(p)] \in {"none", "found", "create"} =>
        /\ p \notin registered /\ p \notin pc
        /\ at[Event(p)] = "none" /\ at[Closer(p)] = "none" /\ at[Sweep(p)] = "none"

\* The closer has started exactly when Close has ended.
CloserStarted(p) == once[p] = "closed" <=> at[Closer(p)] # "none"

\* A goroutine in the middle of Close is the only one, and Close is under way.
ClosesOnce(p) ==
    \A g \in Goroutines : g[2] = p /\ at[g] = "closing" =>
        /\ once[p] = "closing"
        /\ \A h \in Goroutines : h[2] = p /\ at[h] = "closing" => h = g

\* Whoever is done with RemovePeer leaves no peer in the map.
Removed(p) ==
    at[Closer(p)] = "done" \/ at[Offer(p)] = "refused" => p \notin registered

Slots(p) == NotYet(p) /\ CloserStarted(p) /\ ClosesOnce(p) /\ Removed(p)

LEMMA SlotsInit == Init => \A p \in Peers : Slots(p)
<1> SUFFICES ASSUME Init, NEW p \in Peers PROVE Slots(p)
  OBVIOUS
<1>1. \A g \in Goroutines : at[g] = "none"
  BY DEF Init
<1>2. at[Offer(p)] = "none" /\ at[Event(p)] = "none" /\ at[Closer(p)] = "none" /\ at[Sweep(p)] = "none"
  BY <1>1, Names
<1> QED
  BY <1>1, <1>2 DEF Init, Slots, NotYet, CloserStarted, ClosesOnce, Removed

\* Goroutine g goes to `place` and leaves Close alone; whatever it does to q
\* is done in this order.
Step(q, g, place) ==
    /\ Goto(g, place) /\ once' = once /\ place # "closing"
    /\ q \in registered' => q \in registered \/ (g = Offer(q) /\ at[g] = "create" /\ place = "answer")
    /\ q \in pc' => q \in pc \/ (g = Offer(q) /\ place = "gather")
    /\ g = Closer(q) => place # "none" /\ at[g] # "none"
    /\ g = Offer(q) /\ place \in {"none", "found", "create"} => at[g] \in {"none", "found", "create"}
    /\ g = Offer(q) /\ place = "refused" => q \notin registered'
    /\ g = Closer(q) /\ place = "done" => q \notin registered'
    /\ g = Event(q) => at[g] # "none" \/ q \in pc
    /\ g = Sweep(q) => at[g] # "none" \/ q \in registered

LEMMA SlotsGo ==
    ASSUME Types, NEW q \in Peers, Slots(q), NEW g \in Goroutines, NEW place \in Places,
           Step(q, g, place)
    PROVE  Slots(q)'
<1>1. /\ Offer(q) \in Goroutines /\ Event(q) \in Goroutines /\ Closer(q) \in Goroutines
      /\ Sweep(q) \in Goroutines
      /\ Offer(q)[2] = q /\ Event(q)[2] = q /\ Closer(q)[2] = q /\ Sweep(q)[2] = q
  BY Names DEF Offer, Event, Closer, Sweep
<1>2. \A h \in Goroutines : at'[h] = IF h = g THEN place ELSE at[h]
  BY DEF Types, Step, Goto
<1>3. NotYet(q)'
  BY <1>1, <1>2, Names DEF Slots, NotYet, Step
<1>4. CloserStarted(q)'
  BY <1>1, <1>2 DEF Slots, CloserStarted, Step
<1>5. ClosesOnce(q)'
  BY <1>1, <1>2 DEF Slots, ClosesOnce, Step
<1>6. Removed(q)'
  BY <1>1, <1>2, Names DEF Slots, Removed, NotYet, Step
<1> QED
  BY <1>3, <1>4, <1>5, <1>6 DEF Slots

\* A step that moves no goroutine and adds no peer.
LEMMA SlotsStay ==
    ASSUME NEW q \in Peers, Slots(q), UNCHANGED <<at, registered, once, pc>>
    PROVE  Slots(q)'
  BY DEF Slots, NotYet, CloserStarted, ClosesOnce, Removed

\* Close(p) by one of p's goroutines.
LEMMA SlotsClose ==
    ASSUME Types, NEW p \in Peers, NEW q \in Peers, Slots(p), Slots(q),
           NEW g \in {Offer(p), Event(p), Closer(p), Sweep(p)},
           CloseBegin(g, p) \/ CloseEnd(g, p)
    PROVE  Slots(q)'
<1>1. /\ Offer(q) \in Goroutines /\ Event(q) \in Goroutines /\ Closer(q) \in Goroutines
      /\ Sweep(q) \in Goroutines /\ g \in Goroutines /\ Closer(p) \in Goroutines
      /\ Offer(q)[2] = q /\ Event(q)[2] = q /\ Closer(q)[2] = q /\ Sweep(q)[2] = q
      /\ g[2] = p /\ Closer(p)[2] = p
  <2>1. g \in Goroutines /\ g[2] = p
    BY Names DEF Offer, Event, Closer, Sweep, Goroutines
  <2> QED
    BY <2>1, Names DEF Offer, Event, Closer, Sweep
<1>2. CASE CloseBegin(g, p) /\ once[p] = "new"
  <2>1. /\ \A h \in Goroutines : at'[h] = IF h = g THEN "closing" ELSE at[h]
        /\ \A r \in Peers : once'[r] = IF r = p THEN "closing" ELSE once[r]
        /\ registered' = registered /\ pc' = pc /\ at[g] = "close"
    BY <1>2, <1>1 DEF CloseBegin, Types, Goto
  <2>2. at[Closer(p)] = "none"
    BY <1>2 DEF Slots, CloserStarted
  <2>3. g # Closer(p)
    BY <2>1, <2>2
  <2>4. NotYet(q)'
    BY <1>1, <2>1, Names DEF Slots, NotYet
  <2>5. CloserStarted(q)'
    BY <1>1, <1>2, <2>1, <2>3 DEF Slots, CloserStarted
  <2>6. ClosesOnce(q)'
    BY <1>1, <1>2, <2>1 DEF Slots, ClosesOnce
  <2>7. Removed(q)'
    BY <1>1, <2>1, Names DEF Slots, Removed
  <2> QED
    BY <2>4, <2>5, <2>6, <2>7 DEF Slots
<1>3. CASE CloseBegin(g, p) /\ once[p] # "new"
  <2>1. Step(q, g, "closed")
    <3>1. Goto(g, "closed") /\ once' = once /\ at[g] = "close"
      BY <1>3 DEF CloseBegin
    <3>2. registered' = registered /\ pc' = pc
      BY <1>3 DEF CloseBegin
    <3> QED
      BY <3>1, <3>2 DEF Step
  <2>2. "closed" \in Places
    BY DEF Places
  <2> QED
    BY <1>1, <2>1, <2>2, SlotsGo
<1>4. CASE CloseEnd(g, p)
  <2>1. /\ \A h \in Goroutines :
              at'[h] = IF h = Closer(p) THEN "cleanup" ELSE IF h = g THEN "closed" ELSE at[h]
        /\ \A r \in Peers : once'[r] = IF r = p THEN "closed" ELSE once[r]
        /\ registered' = registered /\ pc' = pc /\ at[g] = "closing"
    BY <1>4, <1>1 DEF CloseEnd, Types
  <2>2. /\ once[p] = "closing" /\ at[Closer(p)] = "none" /\ g # Closer(p)
        /\ \A h \in Goroutines : h[2] = p /\ at[h] = "closing" => h = g
    BY <1>1, <2>1 DEF Slots, ClosesOnce, CloserStarted
  <2>3. at[Offer(p)] \notin {"none", "found", "create"}
    BY <2>1, <2>2, Names DEF Slots, NotYet
  <2>4. NotYet(q)'
    BY <1>1, <2>1, <2>2, <2>3, Names DEF Slots, NotYet
  <2>5. CloserStarted(q)'
    BY <1>1, <2>1, <2>2, Names DEF Slots, CloserStarted
  <2>6. ClosesOnce(q)'
    BY <1>1, <2>1, <2>2 DEF Slots, ClosesOnce
  <2>7. Removed(q)'
    BY <1>1, <2>1, <2>2, Names DEF Slots, Removed
  <2> QED
    BY <2>4, <2>5, <2>6, <2>7 DEF Slots
<1> QED
  BY <1>2, <1>3, <1>4

\* RemovePeer(p) by one of p's goroutines, which goes on to `place`.
LEMMA SlotsRemove ==
    ASSUME Types, NEW p \in Peers, NEW q \in Peers, Slots(p), Slots(q), NEW g, NEW place,
           \/ g = Offer(p) /\ place = "refused"
           \/ g = Closer(p) /\ place = "done",
           Remove(g, p, place)
    PROVE  Slots(q)'
<1>1. /\ g \in Goroutines /\ place \in Places /\ "close" \in Places
      /\ place \notin {"none", "found", "create", "answer", "gather", "closing"}
  BY Names DEF Places
<1>2. CASE CloseBegin(g, p) \/ CloseEnd(g, p)
  BY <1>2, SlotsClose
<1>3. CASE RemoveLock(g, p, place)
  <2>1. /\ at[g] = "remove" /\ once' = once /\ registered' = registered /\ pc' = pc
        /\ \/ Goto(g, "close")
           \/ p \notin registered /\ Goto(g, place)
    BY <1>3 DEF RemoveLock
  <2>2. Step(q, g, "close") \/ Step(q, g, place)
    BY <1>1, <2>1, Names DEF Step
  <2> QED
    BY <1>1, <2>2, SlotsGo
<1>4. CASE RemoveUnlock(g, p, place)
  <2>1. /\ at[g] = "closed" /\ once' = once /\ registered' = registered \ {p} /\ pc' = pc
        /\ Goto(g, place)
    BY <1>4 DEF RemoveUnlock
  <2>2. Step(q, g, place)
    BY <1>1, <2>1, Names DEF Step
  <2> QED
    BY <1>1, <2>2, SlotsGo
<1> QED
  BY <1>2, <1>3, <1>4 DEF Remove

LEMMA SlotsOffer ==
    ASSUME Types, NEW p \in Peers, NEW q \in Peers, Slots(p), Slots(q),
           GetStream(p) \/ AnswerOffer(p)
    PROVE  Slots(q)'
<1>1. Offer(p) \in Goroutines
  BY Names
<1>2. /\ "found" \in Places /\ "create" \in Places /\ "answer" \in Places /\ "gather" \in Places
      /\ "refused" \in Places /\ "remove" \in Places /\ "subscribe" \in Places
      /\ "map" \in Places /\ "done" \in Places
  BY DEF Places
<1>3. CASE GetStream(p) \/ StreamRuns(p)
  <2>1. /\ at[Offer(p)] \in {"none", "found"} /\ once' = once
        /\ registered' = registered /\ pc' = pc
        /\ Goto(Offer(p), "found") \/ Goto(Offer(p), "create") \/ Goto(Offer(p), "refused")
    BY <1>3 DEF GetStream, StreamRuns, Goto
  <2>2. p \notin registered
    BY <2>1 DEF Slots, NotYet
  <2>3. Step(q, Offer(p), "found") \/ Step(q, Offer(p), "create") \/ Step(q, Offer(p), "refused")
    BY <2>1, <2>2, Names DEF Step
  <2> QED
    BY <1>1, <1>2, <2>3, SlotsGo
<1>4. CASE CreatePeer(p)
  <2>1. /\ at[Offer(p)] = "create" /\ once' = once /\ pc' = pc
        /\ \/ registered' = registered \cup {p} /\ Goto(Offer(p), "answer")
           \/ registered' = registered /\ Goto(Offer(p), "refused")
    BY <1>4 DEF CreatePeer
  <2>2. p \notin registered
    BY <2>1 DEF Slots, NotYet
  <2>3. Step(q, Offer(p), "answer") \/ Step(q, Offer(p), "refused")
    BY <2>1, <2>2, Names DEF Step
  <2> QED
    BY <1>1, <1>2, <2>3, SlotsGo
<1>5. CASE MakeConnection(p)
  <2>1. /\ at[Offer(p)] = "answer" /\ once' = once /\ registered' = registered
        /\ pc' = pc \cup {p} /\ Goto(Offer(p), "gather")
    BY <1>5 DEF MakeConnection
  <2>2. Step(q, Offer(p), "gather")
    BY <2>1, Names DEF Step
  <2> QED
    BY <1>1, <1>2, <2>2, SlotsGo
<1>6. CASE Answer(p) \/ AnswerFails(p) \/ Subscribe(p) \/ StoreMapping(p)
  <2>1. /\ once' = once /\ registered' = registered /\ pc' = pc
        /\ \/ Goto(Offer(p), "subscribe") \/ Goto(Offer(p), "remove")
           \/ Goto(Offer(p), "map") \/ Goto(Offer(p), "done")
    BY <1>6 DEF Answer, AnswerFails, Subscribe, StoreMapping
  <2>2. \/ Step(q, Offer(p), "subscribe") \/ Step(q, Offer(p), "remove")
        \/ Step(q, Offer(p), "map") \/ Step(q, Offer(p), "done")
    BY <2>1, Names DEF Step
  <2> QED
    BY <1>1, <1>2, <2>2, SlotsGo
<1>7. CASE Remove(Offer(p), p, "refused")
  BY <1>7, SlotsRemove
<1> QED
  BY <1>3, <1>4, <1>5, <1>6, <1>7 DEF AnswerOffer

LEMMA SlotsCleanUp ==
    ASSUME Types, NEW p \in Peers, NEW q \in Peers, Slots(p), Slots(q), CleanUp(p)
    PROVE  Slots(q)'
<1>1. Closer(p) \in Goroutines /\ "unsubscribe" \in Places /\ "remove" \in Places
  BY Names DEF Places
<1>2. CASE TakeMapping(p) \/ Unsubscribe(p)
  <2>1. /\ at[Closer(p)] # "none" /\ once' = once /\ registered' = registered /\ pc' = pc
        /\ Goto(Closer(p), "unsubscribe") \/ Goto(Closer(p), "remove")
    BY <1>2 DEF TakeMapping, Unsubscribe
  <2>2. Step(q, Closer(p), "unsubscribe") \/ Step(q, Closer(p), "remove")
    BY <2>1, Names DEF Step
  <2> QED
    BY <1>1, <2>2, SlotsGo
<1>3. CASE Remove(Closer(p), p, "done")
  BY <1>3, SlotsRemove
<1> QED
  BY <1>2, <1>3 DEF CleanUp

LEMMA SlotsEvent ==
    ASSUME Types, NEW p \in Peers, NEW q \in Peers, Slots(p), Slots(q),
           ConnectionFails(p) \/ HandleEvent(p)
    PROVE  Slots(q)'
<1>1. Event(p) \in Goroutines /\ "close" \in Places /\ "done" \in Places
  BY Names DEF Places
<1>2. CASE ConnectionFails(p) \/ EventReturns(p)
  <2>1. /\ p \in pc \/ at[Event(p)] # "none"
        /\ once' = once /\ registered' = registered /\ pc' = pc
        /\ Goto(Event(p), "close") \/ Goto(Event(p), "done")
    BY <1>2 DEF ConnectionFails, EventReturns
  <2>2. Step(q, Event(p), "close") \/ Step(q, Event(p), "done")
    BY <2>1, Names DEF Step
  <2> QED
    BY <1>1, <2>2, SlotsGo
<1>3. CASE CloseBegin(Event(p), p) \/ CloseEnd(Event(p), p)
  BY <1>3, SlotsClose
<1> QED
  BY <1>2, <1>3 DEF HandleEvent

LEMMA SlotsSweep ==
    ASSUME Types, NEW p \in Peers, NEW q \in Peers, Slots(p), Slots(q), SweepPeer(p)
    PROVE  Slots(q)'
<1>1. Sweep(p) \in Goroutines /\ "close" \in Places /\ "done" \in Places
  BY Names DEF Places
<1>2. CASE SweepNext(p) \/ SweepDelete(p)
  <2>1. /\ p \in registered \/ at[Sweep(p)] # "none"
        /\ once' = once /\ registered' \subseteq registered /\ pc' = pc
        /\ Goto(Sweep(p), "close") \/ Goto(Sweep(p), "done")
    BY <1>2 DEF SweepNext, SweepDelete
  <2>2. Step(q, Sweep(p), "close") \/ Step(q, Sweep(p), "done")
    BY <2>1, Names DEF Step
  <2> QED
    BY <1>1, <2>2, SlotsGo
<1>3. CASE CloseBegin(Sweep(p), p) \/ CloseEnd(Sweep(p), p)
  BY <1>3, SlotsClose
<1> QED
  BY <1>2, <1>3 DEF SweepPeer

LEMMA SlotsNext ==
    ASSUME Types, \A p \in Peers : Slots(p), [Next]_vars
    PROVE  \A q \in Peers : Slots(q)'
<1> SUFFICES ASSUME NEW q \in Peers PROVE Slots(q)'
  OBVIOUS
<1>1. ASSUME NEW p \in Peers,
             \/ GetStream(p) \/ AnswerOffer(p) \/ CleanUp(p) \/ ConnectionFails(p)
             \/ HandleEvent(p) \/ SweepPeer(p)
      PROVE  Slots(q)'
  BY <1>1, SlotsOffer, SlotsCleanUp, SlotsEvent, SlotsSweep
<1>2. CASE ShutdownUnlock \/ ShutdownLock \/ RemoveStream \/ CreateStream \/ UNCHANGED vars
  <2>1. UNCHANGED <<at, registered, once, pc>>
    BY <1>2 DEF ShutdownUnlock, ShutdownLock, RemoveStream, CreateStream, vars
  <2> QED
    BY <2>1, SlotsStay
<1> QED
  BY <1>1, <1>2 DEF Next, Work, Environment

\* No slot of max_peers is lost, however offers, failing connections, cleanups
\* and Manager.Close interleave: a closed peer in the map has a goroutine
\* under way that removes it.
THEOREM NoSlotLost == Spec => []NoLostSlot
<1>1. Init => Types /\ \A p \in Peers : Slots(p)
  BY TypesInit, SlotsInit
<1>2. Types /\ (\A p \in Peers : Slots(p)) /\ [Next]_vars => (Types /\ \A p \in Peers : Slots(p))'
  BY TypesNext, SlotsNext
<1>3. Types /\ (\A p \in Peers : Slots(p)) => NoLostSlot
  <2> SUFFICES ASSUME Types, \A p \in Peers : Slots(p), NEW p \in registered
               PROVE  /\ at[Offer(p)] # "refused"
                      /\ once[p] = "closed" => at[Closer(p)] \notin {"none", "done"}
    BY DEF NoLostSlot
  <2>1. p \in Peers /\ Slots(p)
    BY DEF Types
  <2> QED
    BY <2>1 DEF Slots, CloserStarted, Removed
<1> QED
  BY <1>1, <1>2, <1>3, PTL DEF Spec
=============================================================================
