-------------------------- MODULE CoreStreamProofs --------------------------
(***************************************************************************)
(* Proofs about CoreStream, for any number of writers, subscribers and     *)
(* packets and any capacities: type correctness, the order of packets on   *)
(* their way to every subscriber, the lossy broadcast of Broadcast.tla,    *)
(* and that no packet is missed as long as no queue can fill.              *)
(***************************************************************************)
EXTENDS CoreStream, FiniteSets, FiniteSetTheorems, TLAPS

\* Taking the oldest packet off a queue keeps what is said of its packets.
LEMMA TailOf ==
    ASSUME NEW q \in Seq(Packet), q # <<>>
    PROVE  /\ Tail(q) \in Seq(Packet)
           /\ Head(q) \in Packet
           /\ Head(q) = q[1]
           /\ Len(q) \in Nat \ {0}
           /\ Len(Tail(q)) = Len(q) - 1
           /\ \A i \in 1..Len(Tail(q)) : i + 1 \in 1..Len(q) /\ Tail(q)[i] = q[i + 1]
  OBVIOUS

LEMMA AppendOf ==
    ASSUME NEW q \in Seq(Packet), NEW p \in Packet
    PROVE  /\ Append(q, p) \in Seq(Packet)
           /\ Len(q) \in Nat
           /\ Len(Append(q, p)) = Len(q) + 1
           /\ Append(q, p)[Len(q) + 1] = p
           /\ \A i \in 1..Len(q) : Append(q, p)[i] = q[i]
  OBVIOUS

LEMMA EmptyPackets == <<>> \in Seq(Packet) /\ Len(<<>>) = 0
  OBVIOUS

LEMMA TailOrdered ==
    ASSUME NEW q \in Seq(Packet), q # <<>>, Ordered(q)
    PROVE  Ordered(Tail(q)) /\ AllPrecede(<<Head(q)>>, Tail(q))
  <1>1. Ordered(Tail(q))
    BY TailOf DEF Ordered
  <1>2. AllPrecede(<<Head(q)>>, Tail(q))
    BY TailOf DEF Ordered, AllPrecede
  <1> QED BY <1>1, <1>2

LEMMA TailAllPrecede ==
    ASSUME NEW q \in Seq(Packet), q # <<>>, NEW p \in Seq(Packet), AllPrecede(p, q)
    PROVE  AllPrecede(p, Tail(q)) /\ AllPrecede(p, <<Head(q)>>)
  BY TailOf DEF AllPrecede

LEMMA PrecedeOfTail ==
    ASSUME NEW q \in Seq(Packet), q # <<>>, NEW p \in Seq(Packet), AllPrecede(q, p)
    PROVE  AllPrecede(Tail(q), p) /\ AllPrecede(<<Head(q)>>, p)
  BY TailOf DEF AllPrecede

LEMMA TailUpTo ==
    ASSUME NEW q \in Seq(Packet), q # <<>>, NEW m, UpTo(q, m)
    PROVE  UpTo(Tail(q), m) /\ UpTo(<<Head(q)>>, m)
  BY TailOf DEF UpTo

LEMMA TailNewerThan ==
    ASSUME NEW q \in Seq(Packet), q # <<>>, NEW m, NewerThan(q, m)
    PROVE  NewerThan(Tail(q), m) /\ NewerThan(<<Head(q)>>, m)
  BY TailOf DEF NewerThan

LEMMA AppendOrdered ==
    ASSUME NEW q \in Seq(Packet), NEW p \in Packet, Ordered(q),
           \A i \in 1..Len(q) : Precedes(q[i], p)
    PROVE  Ordered(Append(q, p))
  <1> SUFFICES ASSUME NEW i \in 1..Len(Append(q, p)), NEW j \in 1..Len(Append(q, p)), i < j
               PROVE  Precedes(Append(q, p)[i], Append(q, p)[j])
    BY DEF Ordered
  <1>1. i \in 1..Len(q)
    BY AppendOf
  <1>2. CASE j \in 1..Len(q)
    BY <1>1, <1>2, AppendOf DEF Ordered
  <1>3. CASE j = Len(q) + 1
    BY <1>1, <1>3, AppendOf
  <1> QED BY <1>2, <1>3, AppendOf

LEMMA AppendAllPrecede ==
    ASSUME NEW q \in Seq(Packet), NEW p \in Packet, NEW r \in Seq(Packet),
           AllPrecede(r, q), \A i \in 1..Len(r) : Precedes(r[i], p)
    PROVE  AllPrecede(r, Append(q, p))
  <1> SUFFICES ASSUME NEW i \in 1..Len(r), NEW j \in 1..Len(Append(q, p))
               PROVE  Precedes(r[i], Append(q, p)[j])
    BY DEF AllPrecede
  <1>1. CASE j \in 1..Len(q)
    BY <1>1, AppendOf DEF AllPrecede
  <1>2. CASE j = Len(q) + 1
    BY <1>2, AppendOf
  <1> QED BY <1>1, <1>2, AppendOf

LEMMA PrecedeOfAppend ==
    ASSUME NEW q \in Seq(Packet), NEW p \in Packet, NEW r \in Seq(Packet),
           AllPrecede(q, r), \A j \in 1..Len(r) : Precedes(p, r[j])
    PROVE  AllPrecede(Append(q, p), r)
  <1> SUFFICES ASSUME NEW i \in 1..Len(Append(q, p)), NEW j \in 1..Len(r)
               PROVE  Precedes(Append(q, p)[i], r[j])
    BY DEF AllPrecede
  <1>1. CASE i \in 1..Len(q)
    BY <1>1, AppendOf DEF AllPrecede
  <1>2. CASE i = Len(q) + 1
    BY <1>2, AppendOf
  <1> QED BY <1>1, <1>2, AppendOf

LEMMA AppendUpTo ==
    ASSUME NEW q \in Seq(Packet), NEW p \in Packet, NEW m, UpTo(q, m), p.n <= m[p.w]
    PROVE  UpTo(Append(q, p), m)
  <1> SUFFICES ASSUME NEW i \in 1..Len(Append(q, p))
               PROVE  Append(q, p)[i].n <= m[Append(q, p)[i].w]
    BY DEF UpTo
  <1>1. CASE i \in 1..Len(q)
    BY <1>1, AppendOf DEF UpTo
  <1>2. CASE i = Len(q) + 1
    BY <1>2, AppendOf
  <1> QED BY <1>1, <1>2, AppendOf

LEMMA AppendNewerThan ==
    ASSUME NEW q \in Seq(Packet), NEW p \in Packet, NEW m, NewerThan(q, m), m[p.w] < p.n
    PROVE  NewerThan(Append(q, p), m)
  <1> SUFFICES ASSUME NEW i \in 1..Len(Append(q, p))
               PROVE  m[Append(q, p)[i].w] < Append(q, p)[i].n
    BY DEF NewerThan
  <1>1. CASE i \in 1..Len(q)
    BY <1>1, AppendOf DEF NewerThan
  <1>2. CASE i = Len(q) + 1
    BY <1>2, AppendOf
  <1> QED BY <1>1, <1>2, AppendOf

----------------------------------------------------------------------------
(* Type correctness.                                                       *)

\* One step per action.  What a goroutine appends to a channel is a packet:
\* the writer's current one, or the one the distributor holds.
LEMMA CurrentIsPacket ==
    ASSUME TypeOK, NEW w \in Writers, Writing(w)
    PROVE  Current(w) \in Packet
  BY MaxWritesAssumption DEF TypeOK, Current, Packet, Writing

LEMMA HeldIsPacket ==
    ASSUME TypeOK, dpc \in {"received", "sending"}
    PROVE  Head(held) \in Packet /\ Head(held) = held[1] /\ Len(held) = 1
  <1>1. held \in Seq(Packet) /\ Len(held) = 1
    BY DEF TypeOK
  <1>2. held # <<>>
    BY <1>1
  <1> QED BY <1>1, <1>2, TailOf

LEMMA ManagerType == ASSUME TypeOK, Manager PROVE TypeOK'
  BY DEF TypeOK, Manager, RemoveMark, RemoveCloseBuffer, CloseCancel, CloseBuffer,
         Writing, hubVars, writerVars, distVars, subVars

LEMMA WriterType == ASSUME TypeOK, NEW w \in Writers, WritePacket(w) PROVE TypeOK'
  <1> USE MaxWritesAssumption, BufferSizeAssumption
  <1>1. CASE CheckOpen(w)
    BY <1>1 DEF TypeOK, CheckOpen, Writing, hubVars, distVars, subVars
  <1>2. CASE TrySend(w)
    <2>1. Current(w) \in Packet
      BY <1>2, CurrentIsPacket DEF TrySend, Writing
    <2>2. buffer' \in Seq(Packet) /\ Len(buffer') <= BufferSize
      <3>1. CASE HasRoom(buffer, BufferSize)
        <4>1. buffer' = Append(buffer, Current(w))
          BY <1>2, <3>1 DEF TrySend
        <4> QED BY <2>1, <3>1, <4>1, AppendOf DEF TypeOK, HasRoom
      <3>2. CASE ~HasRoom(buffer, BufferSize)
        BY <1>2, <3>2 DEF TypeOK, TrySend
      <3> QED BY <3>1, <3>2
    <2> QED BY <1>2, <2>2 DEF TypeOK, TrySend, Writing, hubVars, distVars, subVars
  <1>3. CASE DropOldest(w)
    <2>1. buffer' \in Seq(Packet) /\ Len(buffer') <= BufferSize
      BY <1>3, TailOf DEF TypeOK, DropOldest
    <2> QED BY <1>3, <2>1 DEF TypeOK, DropOldest, Writing, hubVars, distVars, subVars
  <1>4. CASE Recheck(w)
    BY <1>4 DEF TypeOK, Recheck, Writing, hubVars, distVars, subVars
  <1>5. CASE BlockingSend(w)
    <2>1. Current(w) \in Packet
      BY <1>5, CurrentIsPacket DEF BlockingSend, Writing
    <2>2. buffer' \in Seq(Packet) /\ Len(buffer') <= BufferSize
      BY <1>5, <2>1, AppendOf DEF TypeOK, BlockingSend, HasRoom
    <2> QED BY <1>5, <2>2 DEF TypeOK, BlockingSend, Writing, hubVars, distVars, subVars
  <1>6. CASE SendOnClosedBuffer(w)
    BY <1>6 DEF TypeOK, SendOnClosedBuffer, Writing, hubVars, writerVars, distVars, subVars
  <1> QED BY <1>1, <1>2, <1>3, <1>4, <1>5, <1>6 DEF WritePacket

LEMMA DistributeType == ASSUME TypeOK, Distribute PROVE TypeOK'
  <1> USE DEF hubVars, writerVars, subVars, Writing
  <1>1. CASE Receive
    <2>1. /\ buffer' \in Seq(Packet) /\ Len(buffer') <= BufferSize
          /\ held' \in Seq(Packet) /\ Len(held') = 1
      BY <1>1, TailOf, BufferSizeAssumption DEF TypeOK, Receive
    <2> QED BY <1>1, <2>1 DEF TypeOK, Receive
  <1>2. CASE DistributorReturn
    BY <1>2 DEF TypeOK, DistributorReturn
  <1>3. CASE CopyWorkers
    <2>1. CASE subs = {}
      BY <1>3, <2>1, EmptyPackets DEF TypeOK, CopyWorkers, NextRound
    <2>2. CASE subs # {}
      BY <1>3, <2>2 DEF TypeOK, CopyWorkers, NextRound
    <2> QED BY <2>1, <2>2
  <1>4. ASSUME NEW s \in Subscribers, SendToWorker(s) PROVE TypeOK'
    <2>1. Head(held) \in Packet
      BY <1>4, HeldIsPacket DEF SendToWorker
    <2>2. chan' \in [Subscribers -> Seq(Packet)]
      BY <1>4, <2>1, AppendOf DEF TypeOK, SendToWorker
    <2>3. ASSUME NEW t \in Subscribers PROVE Len(chan'[t]) <= ChanSize
      BY <1>4, <2>1, AppendOf, ChanSizeAssumption DEF TypeOK, SendToWorker, HasRoom
    <2>4. /\ targets' \in SUBSET Subscribers
          /\ dpc' \in {"wait", "sending"} /\ (dpc' # "sending" => targets' = {})
          /\ held' \in Seq(Packet) /\ Len(held') = IF dpc' = "sending" THEN 1 ELSE 0
      <3>1. CASE targets \ {s} = {}
        BY <1>4, <3>1, EmptyPackets DEF TypeOK, SendToWorker, NextRound
      <3>2. CASE targets \ {s} # {}
        BY <1>4, <3>2 DEF TypeOK, SendToWorker, NextRound
      <3> QED BY <3>1, <3>2
    <2> QED BY <1>4, <2>2, <2>3, <2>4 DEF TypeOK, SendToWorker
  <1>5. ASSUME NEW s \in Subscribers, SendToStoppedWorker(s) PROVE TypeOK'
    BY <1>5 DEF TypeOK, SendToStoppedWorker, distVars
  <1> QED BY <1>1, <1>2, <1>3, <1>4, <1>5 DEF Distribute

LEMMA SubscriberType ==
    ASSUME TypeOK, NEW s \in Subscribers, Subscribe(s) \/ Unsubscribe(s) \/ Worker(s)
    PROVE  TypeOK'
  <1> USE DEF hubVars, writerVars, distVars, Writing
  <1>1. CASE Subscribe(s)
    BY <1>1 DEF TypeOK, Subscribe
  <1>2. CASE Unsubscribe(s)
    BY <1>2 DEF TypeOK, Unsubscribe
  <1>3. CASE WorkerReceive(s)
    <2>1. Head(chan[s]) \in Packet /\ chan' \in [Subscribers -> Seq(Packet)]
      BY <1>3, TailOf DEF TypeOK, WorkerReceive
    <2>2. ASSUME NEW t \in Subscribers PROVE Len(chan'[t]) <= ChanSize
      BY <1>3, TailOf, ChanSizeAssumption DEF TypeOK, WorkerReceive
    <2>3. last' \in [Subscribers -> [Writers -> 0..MaxWrites]]
      BY <1>3, <2>1, SMTT(30) DEF TypeOK, WorkerReceive, Packet
    <2> QED BY <1>3, <2>1, <2>2, <2>3 DEF TypeOK, WorkerReceive
  <1>4. CASE OnPacketReturn(s)
    BY <1>4 DEF TypeOK, OnPacketReturn
  <1>5. CASE WorkerReturn(s)
    BY <1>5 DEF TypeOK, WorkerReturn
  <1> QED BY <1>1, <1>2, <1>3, <1>4, <1>5 DEF Worker

\* The state of a stream has its type in every reachable state, and no channel
\* holds more than its capacity.
THEOREM TypeCorrect == Spec => []TypeOK
  <1>1. Init => TypeOK
    <2> SUFFICES ASSUME Init PROVE TypeOK
      OBVIOUS
    <2>1. /\ buffer \in Seq(Packet) /\ Len(buffer) <= BufferSize
          /\ held \in Seq(Packet) /\ Len(held) = 0
      BY EmptyPackets, BufferSizeAssumption DEF Init
    <2>2. /\ chan \in [Subscribers -> Seq(Packet)]
          /\ \A s \in Subscribers : Len(chan[s]) <= ChanSize
      BY EmptyPackets, ChanSizeAssumption DEF Init
    <2>3. /\ seq \in [Writers -> 0..MaxWrites]
          /\ last \in [Subscribers -> [Writers -> 0..MaxWrites]]
      BY MaxWritesAssumption DEF Init
    <2>4. /\ \A w \in Writers : ~Writing(w)
          /\ wpc \in [Writers -> {"idle", "checked", "full", "dropped", "sending"}]
          /\ wkpc \in [Subscribers -> {"none", "wait", "onPacket", "returned"}]
      BY DEF Init, Writing
    <2>5. dpc = "wait" /\ dpc \notin {"received", "sending"} /\ targets = {}
      BY DEF Init
    <2>6. /\ entry = "present" /\ panicked = "none"
          /\ ctxDone \in BOOLEAN /\ closed \in BOOLEAN /\ bufOpen \in BOOLEAN
          /\ subs \in SUBSET Subscribers /\ stopped \in SUBSET Subscribers
      BY DEF Init
    <2> QED BY <2>1, <2>2, <2>3, <2>4, <2>5, <2>6 DEF TypeOK
  <1>2. TypeOK /\ [Next]_vars => TypeOK'
    <2> SUFFICES ASSUME TypeOK, [Next]_vars PROVE TypeOK'
      OBVIOUS
    <2>1. CASE Next
      BY <2>1, ManagerType, WriterType, DistributeType, SubscriberType DEF Next
    <2>2. CASE UNCHANGED vars
      BY <2>2 DEF TypeOK, vars, hubVars, writerVars, distVars, subVars, Writing
    <2> QED BY <2>1, <2>2
  <1> QED BY <1>1, <1>2, PTL DEF Spec

----------------------------------------------------------------------------
(* Order.                                                                  *)

LEMMA SentType ==
    ASSUME TypeOK
    PROVE  /\ Sent \in [Writers -> Nat]
           /\ \A w \in Writers : Writing(w) => Sent[w] = seq[w] - 1
           /\ \A w \in Writers : ~Writing(w) => Sent[w] = seq[w]
  BY MaxWritesAssumption DEF TypeOK, Sent

\* More may have been sent: what was up to the old bound is up to the new one.
LEMMA UpToGrows ==
    ASSUME NEW q \in Seq(Packet), NEW m \in [Writers -> Nat], NEW k \in [Writers -> Nat],
           UpTo(q, m), \A w \in Writers : m[w] <= k[w]
    PROVE  UpTo(q, k)
  <1> SUFFICES ASSUME NEW i \in 1..Len(q) PROVE q[i].n <= k[q[i].w]
    BY DEF UpTo
  <1>1. q[i] \in Packet
    OBVIOUS
  <1>2. q[i].w \in Writers /\ q[i].n \in Nat
    BY <1>1 DEF Packet
  <1>3. q[i].n <= m[q[i].w]
    BY DEF UpTo
  <1> QED BY <1>2, <1>3

\* Every packet on its way precedes the one a writer is about to send.
LEMMA BelowCurrent ==
    ASSUME TypeOK, NEW w \in Writers, Writing(w), NEW q \in Seq(Packet), UpTo(q, Sent)
    PROVE  \A i \in 1..Len(q) : Precedes(q[i], Current(w))
  <1> SUFFICES ASSUME NEW i \in 1..Len(q), q[i].w = w PROVE q[i].n < seq[w]
    BY DEF Precedes, Current
  <1>1. q[i] \in Packet
    OBVIOUS
  <1>2. q[i].n <= Sent[w]
    BY DEF UpTo
  <1>3. q[i].n \in Nat /\ seq[w] \in Nat
    BY <1>1, MaxWritesAssumption DEF Packet, TypeOK
  <1> QED BY <1>2, <1>3, SentType

\* The queues are untouched and no writer has taken a number back.
LEMMA SameQueues ==
    ASSUME TypeOK, TypeOK', InOrder,
           buffer' = buffer, held' = held, chan' = chan, last' = last,
           \A s \in Subscribers : Due(s)' = Due(s),
           \A w \in Writers : Sent[w] <= Sent'[w]
    PROVE  InOrder'
  <1>1. Sent \in [Writers -> Nat] /\ Sent' \in [Writers -> Nat]
    BY MaxWritesAssumption DEF TypeOK, Sent
  <1>2. ASSUME NEW q \in Seq(Packet), UpTo(q, Sent) PROVE UpTo(q, Sent')
    BY <1>1, <1>2, UpToGrows
  <1>3. BufferInOrder'
    BY <1>2 DEF InOrder, BufferInOrder, TypeOK
  <1>4. ASSUME NEW s \in Subscribers PROVE SubscriberInOrder(s)'
    <2>1. chan[s] \in Seq(Packet) /\ last[s] \in [Writers -> Nat]
      BY MaxWritesAssumption DEF TypeOK
    <2>2. UpTo(chan[s], Sent')
      BY <1>2, <2>1 DEF InOrder, SubscriberInOrder
    <2>3. \A w \in Writers : last[s][w] <= Sent'[w]
      BY <1>1, <2>1 DEF InOrder, SubscriberInOrder
    <2> QED BY <2>2, <2>3 DEF InOrder, SubscriberInOrder
  <1> QED BY <1>3, <1>4 DEF InOrder

\* A send that succeeds puts the writer's packet behind all the others.
LEMMA SendStep ==
    ASSUME TypeOK, TypeOK', InOrder, NEW w \in Writers, Writing(w),
           buffer' = Append(buffer, Current(w)),
           wpc' = [wpc EXCEPT ![w] = "idle"], UNCHANGED <<seq, held, chan, last, dpc, targets>>
    PROVE  InOrder'
  <1> DEFINE c == Current(w)
  <1>1. c \in Packet /\ c.w = w /\ c.n = seq[w] /\ buffer \in Seq(Packet)
    BY CurrentIsPacket DEF Current, TypeOK
  <1>2. Sent \in [Writers -> Nat] /\ Sent' \in [Writers -> Nat]
    BY MaxWritesAssumption DEF TypeOK, Sent
  <1>3. Sent'[w] = seq[w] /\ seq[w] \in Nat /\ Sent[w] = seq[w] - 1
    BY MaxWritesAssumption DEF TypeOK, Sent, Writing
  <1>4. \A v \in Writers : Sent[v] <= Sent'[v]
    BY MaxWritesAssumption DEF TypeOK, Sent, Writing
  <1>5. ASSUME NEW q \in Seq(Packet), UpTo(q, Sent)
        PROVE  UpTo(q, Sent') /\ \A i \in 1..Len(q) : Precedes(q[i], c)
    BY <1>2, <1>4, <1>5, UpToGrows, BelowCurrent
  <1> HIDE DEF c
  <1>6. buffer' = Append(buffer, c)
    BY DEF c
  <1>7. UpTo(buffer', Sent') /\ Ordered(buffer')
    <2>1. c.n <= Sent'[c.w]
      BY <1>1, <1>3
    <2> QED BY <1>1, <1>5, <1>6, <2>1, AppendUpTo, AppendOrdered DEF InOrder, BufferInOrder
  <1>8. UpTo(held', Sent') /\ AllPrecede(held', buffer')
    BY <1>1, <1>5, <1>6, AppendAllPrecede DEF InOrder, BufferInOrder, TypeOK
  <1>9. BufferInOrder'
    BY <1>7, <1>8 DEF BufferInOrder
  <1>10. ASSUME NEW s \in Subscribers PROVE SubscriberInOrder(s)'
    <2>1. SubscriberInOrder(s) /\ chan[s] \in Seq(Packet) /\ last[s] \in [Writers -> Nat]
      BY MaxWritesAssumption DEF InOrder, TypeOK
    <2>2. UpTo(chan[s], Sent') /\ AllPrecede(chan[s], buffer')
      BY <1>1, <1>5, <1>6, <2>1, AppendAllPrecede DEF SubscriberInOrder
    <2>3. last[s][w] < seq[w]
      BY <1>3, <2>1 DEF SubscriberInOrder
    <2>4. NewerThan(buffer', last[s])
      BY <1>1, <1>6, <2>1, <2>3, AppendNewerThan DEF SubscriberInOrder
    <2>5. \A v \in Writers : last[s][v] <= Sent'[v]
      BY <1>2, <1>4, <2>1 DEF SubscriberInOrder
    <2>6. Due(s)' = Due(s)
      BY DEF Due
    <2> QED BY <2>1, <2>2, <2>4, <2>5, <2>6 DEF SubscriberInOrder
  <1> QED BY <1>9, <1>10 DEF InOrder

LEMMA DropStep ==
    ASSUME TypeOK, TypeOK', InOrder, buffer # <<>>, buffer' = Tail(buffer),
           UNCHANGED <<held, chan, last, dpc, targets>>, Sent' = Sent
    PROVE  InOrder'
  <1>1. BufferInOrder'
    BY TailOrdered, TailUpTo, TailAllPrecede DEF TypeOK, InOrder, BufferInOrder
  <1>2. ASSUME NEW s \in Subscribers PROVE SubscriberInOrder(s)'
    <2>1. SubscriberInOrder(s) /\ chan[s] \in Seq(Packet) /\ buffer \in Seq(Packet)
      BY DEF InOrder, TypeOK
    <2>2. AllPrecede(chan[s], buffer') /\ NewerThan(buffer', last[s])
      BY <2>1, TailAllPrecede, TailNewerThan DEF SubscriberInOrder
    <2>3. Due(s)' = Due(s)
      BY DEF Due
    <2> QED BY <2>1, <2>2, <2>3 DEF SubscriberInOrder
  <1> QED BY <1>1, <1>2 DEF InOrder

LEMMA WriterOrder ==
    ASSUME TypeOK, TypeOK', InOrder, NEW w \in Writers, WritePacket(w) PROVE InOrder'
  <1> USE MaxWritesAssumption DEF hubVars, distVars, subVars
  <1>1. CASE CheckOpen(w)
    <2>1. \A v \in Writers : Sent[v] <= Sent'[v]
      BY <1>1 DEF TypeOK, Sent, Writing, CheckOpen
    <2> QED BY <1>1, <2>1, SameQueues DEF CheckOpen, Due
  <1>2. CASE TrySend(w) /\ HasRoom(buffer, BufferSize)
    BY <1>2, SendStep DEF TrySend, Writing
  <1>3. CASE TrySend(w) /\ ~HasRoom(buffer, BufferSize)
    <2>1. \A v \in Writers : Sent[v] <= Sent'[v]
      BY <1>3 DEF TypeOK, Sent, Writing, TrySend
    <2> QED BY <1>3, <2>1, SameQueues DEF TrySend, Due
  <1>4. CASE DropOldest(w)
    <2>1. Sent' = Sent
      BY <1>4 DEF TypeOK, Sent, Writing, DropOldest
    <2>2. CASE buffer = <<>>
      BY <1>4, <2>1, <2>2, SameQueues, SentType DEF DropOldest, Due
    <2>3. CASE buffer # <<>>
      BY <1>4, <2>1, <2>3, DropStep DEF DropOldest
    <2> QED BY <2>2, <2>3
  <1>5. CASE Recheck(w)
    <2>1. \A v \in Writers : Sent[v] <= Sent'[v]
      BY <1>5 DEF TypeOK, Sent, Writing, Recheck
    <2> QED BY <1>5, <2>1, SameQueues DEF Recheck, Due
  <1>6. CASE BlockingSend(w)
    BY <1>6, SendStep DEF BlockingSend, Writing
  <1>7. CASE SendOnClosedBuffer(w)
    <2>1. \A v \in Writers : Sent[v] <= Sent'[v]
      BY <1>7 DEF TypeOK, Sent, Writing, SendOnClosedBuffer, writerVars
    <2> QED BY <1>7, <2>1, SameQueues DEF SendOnClosedBuffer, Due
  <1> QED BY <1>1, <1>2, <1>3, <1>4, <1>5, <1>6, <1>7 DEF WritePacket

LEMMA ReceiveOrder == ASSUME TypeOK, TypeOK', InOrder, Receive PROVE InOrder'
  <1>1. /\ buffer \in Seq(Packet) /\ buffer # <<>>
        /\ held' = <<Head(buffer)>> /\ buffer' = Tail(buffer)
        /\ Sent' = Sent
    BY DEF TypeOK, Receive, Sent, Writing, writerVars
  <1>2. BufferInOrder'
    BY <1>1, TailOrdered, TailUpTo DEF InOrder, BufferInOrder
  <1>3. ASSUME NEW s \in Subscribers PROVE SubscriberInOrder(s)'
    <2>1. /\ SubscriberInOrder(s) /\ chan[s] \in Seq(Packet)
          /\ chan' = chan /\ last' = last
      BY DEF InOrder, TypeOK, Receive, subVars
    <2>2. AllPrecede(chan[s], buffer') /\ AllPrecede(chan[s], held')
      BY <1>1, <2>1, TailAllPrecede DEF SubscriberInOrder
    <2>3. NewerThan(buffer', last[s]) /\ NewerThan(held', last[s])
      BY <1>1, <2>1, TailNewerThan DEF SubscriberInOrder
    <2>4. Due(s)' = held'
      BY DEF Due, Receive
    <2> QED BY <1>1, <2>1, <2>2, <2>3, <2>4 DEF SubscriberInOrder
  <1> QED BY <1>2, <1>3 DEF InOrder

\* With nothing due there is nothing to order.
LEMMA NothingDue == \A q, m : AllPrecede(q, <<>>) /\ AllPrecede(<<>>, q)
                                /\ NewerThan(<<>>, m) /\ UpTo(<<>>, m)
  BY EmptyPackets DEF AllPrecede, NewerThan, UpTo

LEMMA CopyWorkersOrder == ASSUME TypeOK, TypeOK', InOrder, CopyWorkers PROVE InOrder'
  <1>1. /\ buffer' = buffer /\ chan' = chan /\ last' = last /\ Sent' = Sent
        /\ held' = held \/ held' = <<>>
    BY DEF CopyWorkers, NextRound, Sent, Writing, writerVars, subVars
  <1>2. BufferInOrder'
    BY <1>1, NothingDue DEF InOrder, BufferInOrder
  <1>3. ASSUME NEW s \in Subscribers PROVE SubscriberInOrder(s)'
    <2>1. Due(s)' = Due(s) \/ Due(s)' = <<>>
      BY <1>1 DEF Due, CopyWorkers
    <2> QED BY <1>1, <2>1, NothingDue DEF InOrder, SubscriberInOrder
  <1> QED BY <1>2, <1>3 DEF InOrder

LEMMA SendToWorkerOrder ==
    ASSUME TypeOK, TypeOK', InOrder, NEW s \in Subscribers, SendToWorker(s) PROVE InOrder'
  <1> DEFINE h == Head(held)
  <1>1. h \in Packet /\ h = held[1] /\ Len(held) = 1
    BY HeldIsPacket DEF SendToWorker
  <1>2. /\ buffer' = buffer /\ last' = last /\ Sent' = Sent
        /\ held' = held \/ held' = <<>>
        /\ chan' = [chan EXCEPT ![s] = Append(@, h)] \/ chan' = chan
    BY DEF SendToWorker, NextRound, Sent, Writing, writerVars
  <1>3. Due(s) = held /\ Due(s)' = <<>>
    BY DEF TypeOK, SendToWorker, NextRound, Due
  <1> HIDE DEF h
  <1>4. BufferInOrder'
    BY <1>2, NothingDue DEF InOrder, BufferInOrder
  <1>5. SubscriberInOrder(s)'
    <2>1. SubscriberInOrder(s) /\ chan[s] \in Seq(Packet) /\ buffer \in Seq(Packet)
      BY DEF InOrder, TypeOK
    <2>2. /\ \A i \in 1..Len(chan[s]) : Precedes(chan[s][i], h)
          /\ last[s][h.w] < h.n /\ h.n <= Sent[h.w]
          /\ \A j \in 1..Len(buffer) : Precedes(h, buffer[j])
      <3>1. /\ AllPrecede(chan[s], held) /\ NewerThan(held, last[s])
            /\ UpTo(held, Sent) /\ AllPrecede(held, buffer)
        BY <1>3, <2>1 DEF InOrder, BufferInOrder, SubscriberInOrder
      <3>2. 1 \in 1..Len(held) /\ held[1] = h
        BY <1>1
      <3> QED BY <3>1, <3>2 DEF AllPrecede, NewerThan, UpTo
    <2>3. CASE chan' = [chan EXCEPT ![s] = Append(@, h)]
      <3>1. chan'[s] = Append(chan[s], h)
        BY <2>3 DEF TypeOK
      <3>2. Ordered(chan'[s]) /\ UpTo(chan'[s], Sent) /\ NewerThan(chan'[s], last[s])
        BY <1>1, <2>1, <2>2, <3>1, AppendOrdered, AppendUpTo, AppendNewerThan
        DEF SubscriberInOrder
      <3>3. AllPrecede(chan'[s], buffer)
        BY <1>1, <2>1, <2>2, <3>1, PrecedeOfAppend DEF SubscriberInOrder
      <3> QED BY <1>2, <1>3, <2>1, <3>2, <3>3, NothingDue DEF SubscriberInOrder
    <2>4. CASE chan' = chan
      BY <1>2, <1>3, <2>1, <2>4, NothingDue DEF SubscriberInOrder
    <2> QED BY <1>2, <2>3, <2>4
  <1>6. ASSUME NEW t \in Subscribers \ {s} PROVE SubscriberInOrder(t)'
    <2>1. chan'[t] = chan[t]
      BY <1>2 DEF TypeOK
    <2>2. Due(t)' = Due(t) \/ Due(t)' = <<>>
      BY <1>2 DEF Due, SendToWorker, NextRound
    <2> QED BY <1>2, <2>1, <2>2, NothingDue DEF InOrder, SubscriberInOrder
  <1> QED BY <1>4, <1>5, <1>6 DEF InOrder

LEMMA DistributeOrder == ASSUME TypeOK, TypeOK', InOrder, Distribute PROVE InOrder'
  <1>1. CASE DistributorReturn
    BY <1>1, SameQueues, SentType
    DEF DistributorReturn, TypeOK, Due, Sent, Writing, writerVars, subVars, hubVars
  <1>2. ASSUME NEW s \in Subscribers, SendToStoppedWorker(s) PROVE InOrder'
    BY <1>2, SameQueues, SentType
    DEF SendToStoppedWorker, Due, Sent, Writing, writerVars, subVars, distVars
  <1> QED BY <1>1, <1>2, ReceiveOrder, CopyWorkersOrder, SendToWorkerOrder DEF Distribute

LEMMA WorkerReceiveOrder ==
    ASSUME TypeOK, TypeOK', InOrder, NEW s \in Subscribers, WorkerReceive(s) PROVE InOrder'
  <1> DEFINE h == Head(chan[s])
  <1>1. /\ chan[s] \in Seq(Packet) /\ chan[s] # <<>> /\ buffer \in Seq(Packet)
        /\ held \in Seq(Packet) /\ h \in Packet /\ h.w \in Writers /\ h.n \in Nat
    <2>1. /\ chan[s] \in Seq(Packet) /\ chan[s] # <<>> /\ buffer \in Seq(Packet)
          /\ held \in Seq(Packet)
      BY DEF TypeOK, WorkerReceive
    <2>2. h \in Packet
      BY <2>1, TailOf
    <2>3. h.w \in Writers /\ h.n \in Nat
      BY <2>2, MaxWritesAssumption DEF Packet
    <2> QED BY <2>1, <2>2, <2>3
  <1>2. /\ buffer' = buffer /\ held' = held /\ Sent' = Sent /\ \A t \in Subscribers : Due(t)' = Due(t)
        /\ chan'[s] = Tail(chan[s]) /\ \A t \in Subscribers \ {s} : chan'[t] = chan[t]
    BY DEF TypeOK, WorkerReceive, Sent, Writing, Due, writerVars, distVars
  <1>3. /\ last'[s] = [last[s] EXCEPT ![h.w] = h.n]
        /\ \A t \in Subscribers \ {s} : last'[t] = last[t]
    BY DEF TypeOK, WorkerReceive
  <1>4. last[s] \in [Writers -> Nat] /\ Due(s) \in Seq(Packet)
    BY MaxWritesAssumption, EmptyPackets DEF TypeOK, Due
  <1>5. SubscriberInOrder(s)
    BY DEF InOrder
  <1> HIDE DEF h
  <1>6. ASSUME NEW q \in Seq(Packet), NewerThan(q, last[s]), AllPrecede(<<h>>, q)
        PROVE  NewerThan(q, last'[s])
    <2> SUFFICES ASSUME NEW i \in 1..Len(q) PROVE last'[s][q[i].w] < q[i].n
      BY DEF NewerThan
    <2>1. q[i].w \in Writers /\ last[s][q[i].w] < q[i].n
      <3>1. q[i] \in Packet
        OBVIOUS
      <3> QED BY <1>6, <3>1 DEF Packet, NewerThan
    <2>2. Precedes(h, q[i])
      BY <1>6 DEF AllPrecede
    <2> QED BY <1>3, <1>4, <2>1, <2>2 DEF Precedes
  <1>7. SubscriberInOrder(s)'
    <2>1. Ordered(chan'[s]) /\ UpTo(chan'[s], Sent)
      BY <1>1, <1>2, <1>5, TailOrdered, TailUpTo DEF SubscriberInOrder
    <2>2. AllPrecede(chan'[s], Due(s)) /\ AllPrecede(chan'[s], buffer)
      BY <1>1, <1>2, <1>4, <1>5, PrecedeOfTail DEF SubscriberInOrder
    <2>3. AllPrecede(<<h>>, Tail(chan[s])) /\ AllPrecede(<<h>>, Due(s)) /\ AllPrecede(<<h>>, buffer)
      BY <1>1, <1>4, <1>5, TailOrdered, PrecedeOfTail DEF SubscriberInOrder, h
    <2>4. NewerThan(chan'[s], last'[s])
      BY <1>1, <1>2, <1>5, <1>6, <2>3, TailNewerThan, TailOf DEF SubscriberInOrder
    <2>5. NewerThan(Due(s), last'[s]) /\ NewerThan(buffer, last'[s])
      BY <1>1, <1>4, <1>5, <1>6, <2>3 DEF SubscriberInOrder
    <2>6. h.n <= Sent[h.w]
      BY <1>1, <1>5, TailOf, SMTT(30) DEF SubscriberInOrder, UpTo, h
    <2>7. \A w \in Writers : last'[s][w] <= Sent[w]
      BY <1>3, <1>4, <1>5, <2>6 DEF SubscriberInOrder
    <2> QED BY <1>2, <2>1, <2>2, <2>4, <2>5, <2>7 DEF SubscriberInOrder
  <1>8. ASSUME NEW t \in Subscribers \ {s} PROVE SubscriberInOrder(t)'
    BY <1>2, <1>3 DEF InOrder, SubscriberInOrder
  <1>9. BufferInOrder'
    BY <1>2 DEF InOrder, BufferInOrder
  <1> QED BY <1>7, <1>8, <1>9 DEF InOrder

\* The steps that touch neither a queue nor a call of WritePacket.
LEMMA QuietOrder ==
    ASSUME TypeOK, TypeOK', InOrder,
           UNCHANGED <<buffer, writerVars, distVars, chan, last>>
    PROVE  InOrder'
  BY SameQueues, SentType DEF Due, Sent, Writing, writerVars, distVars

LEMMA SubscriberOrder ==
    ASSUME TypeOK, TypeOK', InOrder, NEW s \in Subscribers,
           Subscribe(s) \/ Unsubscribe(s) \/ Worker(s)
    PROVE  InOrder'
  <1>1. CASE WorkerReceive(s)
    BY <1>1, WorkerReceiveOrder
  <1>2. CASE Subscribe(s) \/ Unsubscribe(s) \/ OnPacketReturn(s) \/ WorkerReturn(s)
    BY <1>2, QuietOrder DEF Subscribe, Unsubscribe, OnPacketReturn, WorkerReturn
  <1> QED BY <1>1, <1>2 DEF Worker

LEMMA ManagerOrder == ASSUME TypeOK, TypeOK', InOrder, Manager PROVE InOrder'
  BY QuietOrder DEF Manager, RemoveMark, RemoveCloseBuffer, CloseCancel, CloseBuffer, subVars

\* No packet is duplicated or overtaken between WritePacket and OnPacket, for
\* any number of writers, subscribers and packets.
THEOREM OrderKept == Spec => []InOrder
  <1>1. Init => InOrder
    <2> SUFFICES ASSUME Init PROVE InOrder
      OBVIOUS
    <2>1. Ordered(<<>>)
      BY EmptyPackets DEF Ordered
    <2>2. BufferInOrder
      BY <2>1, NothingDue DEF Init, BufferInOrder
    <2>3. ASSUME NEW s \in Subscribers PROVE SubscriberInOrder(s)
      <3>1. Due(s) = <<>> /\ chan[s] = <<>> /\ buffer = <<>>
        BY DEF Init, Due
      <3>2. \A w \in Writers : last[s][w] = 0 /\ Sent[w] = 0
        BY DEF Init, Sent, Writing
      <3> QED BY <2>1, <3>1, <3>2, NothingDue DEF SubscriberInOrder
    <2> QED BY <2>2, <2>3 DEF InOrder
  <1>2. TypeOK /\ TypeOK' /\ InOrder /\ [Next]_vars => InOrder'
    <2> SUFFICES ASSUME TypeOK, TypeOK', InOrder, [Next]_vars PROVE InOrder'
      OBVIOUS
    <2>1. CASE Next
      BY <2>1, ManagerOrder, WriterOrder, DistributeOrder, SubscriberOrder DEF Next
    <2>2. CASE UNCHANGED vars
      BY <2>2, QuietOrder DEF vars, subVars
    <2> QED BY <2>1, <2>2
  <1> QED BY <1>1, <1>2, TypeCorrect, PTL DEF Spec

----------------------------------------------------------------------------
(* What OnPacket is handed, and the lossy broadcast.                       *)

\* Only WorkerReceive changes `last`, to a newer packet that has been sent.
LEMMA HandedNewer ==
    ASSUME TypeOK, InOrder, NEW s \in Subscribers, WorkerReceive(s)
    PROVE  \E w \in Writers, n \in 1..MaxWrites :
             /\ last' = [last EXCEPT ![s] = [last[s] EXCEPT ![w] = n]]
             /\ last[s][w] < n /\ n <= seq[w]
  <1> DEFINE h == Head(chan[s])
  <1>1. chan[s] \in Seq(Packet) /\ chan[s] # <<>>
    BY DEF TypeOK, WorkerReceive
  <1>2. h \in Packet /\ h = chan[s][1] /\ 1 \in 1..Len(chan[s])
    BY <1>1, TailOf
  <1>3. NewerThan(chan[s], last[s]) /\ UpTo(chan[s], Sent)
    BY DEF InOrder, SubscriberInOrder
  <1>4. last[s][h.w] < h.n /\ h.n <= Sent[h.w]
    BY <1>2, <1>3 DEF NewerThan, UpTo
  <1>5. h.w \in Writers /\ h.n \in 1..MaxWrites
    BY <1>2 DEF Packet
  <1>6. Sent[h.w] <= seq[h.w] /\ Sent[h.w] \in Nat /\ seq[h.w] \in Nat
    BY <1>5, MaxWritesAssumption DEF TypeOK, Sent, Writing
  <1>7. h.n <= seq[h.w]
    BY <1>4, <1>5, <1>6
  <1>8. last' = [last EXCEPT ![s] = [last[s] EXCEPT ![h.w] = h.n]]
    BY DEF WorkerReceive
  <1> QED BY <1>4, <1>5, <1>7, <1>8

\* Every other step leaves `last` alone and starts no OnPacket.
LEMMA OthersHandNothing ==
    ASSUME TypeOK, [Next]_vars, \A s \in Subscribers : ~WorkerReceive(s)
    PROVE  /\ last' = last
           /\ \A s \in Subscribers : ~(wkpc[s] = "wait" /\ wkpc'[s] = "onPacket")
  <1> USE DEF TypeOK, subVars
  <1>1. CASE Manager
    BY <1>1 DEF Manager, RemoveMark, RemoveCloseBuffer, CloseCancel, CloseBuffer
  <1>2. CASE \E w \in Writers : WritePacket(w)
    BY <1>2 DEF WritePacket, CheckOpen, TrySend, DropOldest, Recheck, BlockingSend, SendOnClosedBuffer
  <1>3. CASE Distribute
    BY <1>3 DEF Distribute, Receive, DistributorReturn, CopyWorkers, SendToWorker, SendToStoppedWorker
  <1>4. CASE \E s \in Subscribers : Subscribe(s) \/ Unsubscribe(s) \/ Worker(s)
    BY <1>4 DEF Subscribe, Unsubscribe, Worker, OnPacketReturn, WorkerReturn
  <1>5. CASE UNCHANGED vars
    BY <1>5 DEF vars
  <1> QED BY <1>1, <1>2, <1>3, <1>4, <1>5 DEF Next

\* OnPacket never gets a packet again or an older one, for any number of
\* writers, subscribers and packets.
THEOREM HandedInOrderHolds == Spec => HandedInOrder
  <1>1. TypeOK /\ InOrder /\ [Next]_vars =>
          [\A s \in Subscribers, w \in Writers : last[s][w] <= last'[s][w]
                /\ (wkpc[s] = "wait" /\ wkpc'[s] = "onPacket" => last'[s] # last[s])]_vars
    <2> SUFFICES ASSUME TypeOK, InOrder, [Next]_vars, NEW s \in Subscribers, NEW w \in Writers
                 PROVE  /\ last[s][w] <= last'[s][w]
                        /\ (wkpc[s] = "wait" /\ wkpc'[s] = "onPacket" => last'[s] # last[s])
      OBVIOUS
    <2>1. last \in [Subscribers -> [Writers -> Nat]]
      BY MaxWritesAssumption DEF TypeOK
    <2>2. CASE \E t \in Subscribers : WorkerReceive(t)
      <3>1. PICK t \in Subscribers : WorkerReceive(t)
        BY <2>2
      <3>2. PICK v \in Writers, n \in 1..MaxWrites :
               /\ last' = [last EXCEPT ![t] = [last[t] EXCEPT ![v] = n]]
               /\ last[t][v] < n
        BY <3>1, HandedNewer
      <3>3. last[s][w] <= last'[s][w]
        BY <2>1, <3>2, MaxWritesAssumption
      <3>4. ASSUME wkpc[s] = "wait", wkpc'[s] = "onPacket" PROVE last'[s] # last[s]
        <4>1. s = t
          BY <3>1, <3>4 DEF WorkerReceive, TypeOK
        <4>2. last'[s][v] = n /\ last[s][v] < n
          BY <2>1, <3>2, <4>1
        <4> QED BY <2>1, <4>2, MaxWritesAssumption
      <3> QED BY <3>3, <3>4
    <2>3. CASE \A t \in Subscribers : ~WorkerReceive(t)
      BY <2>1, <2>3, OthersHandNothing
    <2> QED BY <2>2, <2>3
  <1> QED BY <1>1, TypeCorrect, OrderKept, PTL DEF Spec, HandedInOrder

LEMMA ManagerImplements ==
    ASSUME TypeOK, Manager PROVE Abstract!Shut \/ UNCHANGED Abstract!bvars
  BY DEF TypeOK, Manager, RemoveMark, RemoveCloseBuffer, CloseCancel, CloseBuffer,
         writerVars, subVars, Abstract!Shut, Abstract!bvars

LEMMA WriterImplements ==
    ASSUME TypeOK, NEW w \in Writers, WritePacket(w)
    PROVE  Abstract!Publish(w) \/ UNCHANGED Abstract!bvars
  BY DEF TypeOK, WritePacket, CheckOpen, TrySend, DropOldest, Recheck, BlockingSend,
         SendOnClosedBuffer, hubVars, writerVars, subVars, Abstract!Publish, Abstract!bvars

LEMMA DistributeImplements ==
    ASSUME TypeOK, Distribute PROVE UNCHANGED Abstract!bvars
  BY DEF TypeOK, Distribute, Receive, DistributorReturn, CopyWorkers, SendToWorker,
         SendToStoppedWorker, hubVars, writerVars, subVars, Abstract!bvars

LEMMA SubscriberImplements ==
    ASSUME TypeOK, InOrder, NEW s \in Subscribers, Subscribe(s) \/ Unsubscribe(s) \/ Worker(s)
    PROVE  Abstract!BroadcastNext \/ UNCHANGED Abstract!bvars
  <1> USE DEF hubVars, writerVars, TypeOK
  <1>1. CASE Subscribe(s)
    <2>1. {t \in Subscribers : wkpc'[t] # "none"} = {t \in Subscribers : wkpc[t] # "none"} \cup {s}
      BY <1>1 DEF Subscribe
    <2>2. Abstract!Join(s)
      BY <1>1, <2>1 DEF Subscribe, Abstract!Join
    <2> QED BY <2>2 DEF Abstract!BroadcastNext
  <1>2. CASE Unsubscribe(s) \/ OnPacketReturn(s) \/ WorkerReturn(s)
    <2>1. \A t \in Subscribers : (wkpc'[t] # "none") <=> (wkpc[t] # "none")
      BY <1>2 DEF Unsubscribe, OnPacketReturn, WorkerReturn
    <2> QED BY <1>2, <2>1 DEF Unsubscribe, OnPacketReturn, WorkerReturn, Abstract!bvars
  <1>3. CASE WorkerReceive(s)
    <2>1. PICK w \in Writers, n \in 1..MaxWrites :
             /\ last' = [last EXCEPT ![s] = [last[s] EXCEPT ![w] = n]]
             /\ last[s][w] < n /\ n <= seq[w]
      BY <1>3, HandedNewer
    <2>2. {t \in Subscribers : wkpc'[t] # "none"} = {t \in Subscribers : wkpc[t] # "none"}
      BY <1>3 DEF WorkerReceive
    <2>3. Abstract!Hand(s, w, n)
      BY <1>3, <2>1, <2>2 DEF WorkerReceive, Abstract!Hand
    <2> QED BY <2>3 DEF Abstract!BroadcastNext
  <1> QED BY <1>1, <1>2, <1>3 DEF Worker

\* A stream implements the lossy broadcast, for any number of writers,
\* subscribers and packets and any capacities.
THEOREM ImplementsBroadcast == Spec => IsBroadcast
  <1>1. Init => Abstract!BroadcastInit
    BY DEF Init, Abstract!BroadcastInit
  <1>2. TypeOK /\ InOrder /\ [Next]_vars => [Abstract!BroadcastNext]_(Abstract!bvars)
    <2> SUFFICES ASSUME TypeOK, InOrder, [Next]_vars
                 PROVE  Abstract!BroadcastNext \/ UNCHANGED Abstract!bvars
      BY DEF Abstract!BroadcastNext
    <2>1. CASE Next
      BY <2>1, ManagerImplements, WriterImplements, DistributeImplements, SubscriberImplements
      DEF Next, Abstract!BroadcastNext
    <2>2. CASE UNCHANGED vars
      BY <2>2 DEF vars, hubVars, writerVars, subVars, Abstract!bvars
    <2> QED BY <2>1, <2>2
  <1> QED BY <1>1, <1>2, TypeCorrect, OrderKept, PTL DEF Spec, IsBroadcast, Abstract!BroadcastSpec
----------------------------------------------------------------------------
(* With room for every packet, nothing is lost after a subscriber's first. *)

\* Neither the buffer nor a worker's channel can fill.
RoomForAll ==
    /\ IsFiniteSet(Packet)
    /\ Cardinality(Packet) <= BufferSize
    /\ Cardinality(Packet) <= ChanSize

\* Packet n of w is in the queue, or on its way to s.
InQ(q, w, n) == \E i \in 1..Len(q) : q[i].w = w /\ q[i].n = n
OnWay(s, w, n) == InQ(chan[s], w, n) \/ InQ(Due(s), w, n) \/ InQ(buffer, w, n)

\* The newest packet of w that s was handed, if it was handed one.
Newest(s, w, m) == m = last[s][w] /\ m > 0

NeverFull == \A w \in Writers : wpc[w] \in {"idle", "checked"}

BufferGapless == \A w \in Writers : \A m, n \in Nat :
    InQ(buffer, w, m) /\ m < n /\ n <= Sent[w] => InQ(buffer, w, n)

\* A worker that is not stopped has all that follows what it got or will get
\* on its way.
RestOnWay(s) == \A w \in Writers : \A m, n \in Nat :
    (Newest(s, w, m) \/ OnWay(s, w, m)) /\ m < n /\ n <= Sent[w] => OnWay(s, w, n)

\* A stopped worker gets nothing more, but its channel has no gap.
ChannelGapless(s) == \A w \in Writers : \A m, n, k \in Nat :
    (Newest(s, w, m) \/ InQ(chan[s], w, m)) /\ m < n /\ n < k /\ InQ(chan[s], w, k)
       => InQ(chan[s], w, n)

NothingYet(s) == chan[s] = <<>> /\ \A w \in Writers : last[s][w] = 0

SubscriberGapless(s) ==
    /\ s \notin subs \cup stopped => NothingYet(s)
    /\ s \notin stopped => RestOnWay(s)
    /\ s \in stopped => ChannelGapless(s)

GaplessInv ==
    /\ NeverFull
    /\ BufferGapless
    /\ targets \subseteq subs \cup stopped
    /\ \A s \in Subscribers : SubscriberGapless(s)

LEMMA InNone == ASSUME NEW w, NEW n PROVE ~InQ(<<>>, w, n)
  BY EmptyPackets DEF InQ

LEMMA InOne ==
    ASSUME NEW p \in Packet, NEW w, NEW n
    PROVE  InQ(<<p>>, w, n) <=> p.w = w /\ p.n = n
  BY DEF InQ

LEMMA InTail ==
    ASSUME NEW q \in Seq(Packet), q # <<>>, NEW w, NEW n
    PROVE  InQ(q, w, n) <=> (Head(q).w = w /\ Head(q).n = n) \/ InQ(Tail(q), w, n)
  <1>1. ASSUME InQ(q, w, n) PROVE (Head(q).w = w /\ Head(q).n = n) \/ InQ(Tail(q), w, n)
    <2>1. PICK i \in 1..Len(q) : q[i].w = w /\ q[i].n = n
      BY <1>1 DEF InQ
    <2>2. CASE i = 1
      BY <2>1, <2>2, TailOf
    <2>3. CASE i # 1
      <3>1. i - 1 \in 1..Len(Tail(q))
        BY <2>3, TailOf
      <3>2. Tail(q)[i - 1] = q[i]
        BY <2>3, <3>1, TailOf
      <3> QED BY <2>1, <3>1, <3>2 DEF InQ
    <2> QED BY <2>2, <2>3
  <1>2. ASSUME Head(q).w = w, Head(q).n = n PROVE InQ(q, w, n)
    <2>1. 1 \in 1..Len(q) /\ q[1] = Head(q)
      BY TailOf
    <2> QED BY <1>2, <2>1 DEF InQ
  <1>3. ASSUME InQ(Tail(q), w, n) PROVE InQ(q, w, n)
    <2>1. PICK i \in 1..Len(Tail(q)) : Tail(q)[i].w = w /\ Tail(q)[i].n = n
      BY <1>3 DEF InQ
    <2>2. i + 1 \in 1..Len(q) /\ Tail(q)[i] = q[i + 1]
      BY TailOf
    <2> QED BY <2>1, <2>2 DEF InQ
  <1> QED BY <1>1, <1>2, <1>3

LEMMA InAppend ==
    ASSUME NEW q \in Seq(Packet), NEW p \in Packet, NEW w, NEW n
    PROVE  InQ(Append(q, p), w, n) <=> InQ(q, w, n) \/ (p.w = w /\ p.n = n)
  <1>1. ASSUME InQ(Append(q, p), w, n) PROVE InQ(q, w, n) \/ (p.w = w /\ p.n = n)
    <2>1. PICK i \in 1..Len(Append(q, p)) : Append(q, p)[i].w = w /\ Append(q, p)[i].n = n
      BY <1>1 DEF InQ
    <2>2. CASE i \in 1..Len(q)
      BY <2>1, <2>2, AppendOf DEF InQ
    <2>3. CASE i = Len(q) + 1
      BY <2>1, <2>3, AppendOf
    <2> QED BY <2>2, <2>3, AppendOf
  <1>2. ASSUME InQ(q, w, n) PROVE InQ(Append(q, p), w, n)
    <2>1. PICK i \in 1..Len(q) : q[i].w = w /\ q[i].n = n
      BY <1>2 DEF InQ
    <2>2. i \in 1..Len(Append(q, p)) /\ Append(q, p)[i] = q[i]
      BY AppendOf
    <2> QED BY <2>1, <2>2 DEF InQ
  <1>3. ASSUME p.w = w, p.n = n PROVE InQ(Append(q, p), w, n)
    <2>1. Len(q) + 1 \in 1..Len(Append(q, p)) /\ Append(q, p)[Len(q) + 1] = p
      BY AppendOf
    <2> QED BY <1>3, <2>1 DEF InQ
  <1> QED BY <1>1, <1>2, <1>3

\* What a queue holds of a writer has been sent, and is newer than what is in
\* the queues before it and than what the subscriber was handed.
LEMMA InUpTo ==
    ASSUME NEW q, NEW m, NEW w, NEW n, InQ(q, w, n), UpTo(q, m)
    PROVE  n <= m[w]
  BY DEF InQ, UpTo

LEMMA InNewer ==
    ASSUME NEW q, NEW m, NEW w, NEW n, InQ(q, w, n), NewerThan(q, m)
    PROVE  m[w] < n
  BY DEF InQ, NewerThan

LEMMA InPrecede ==
    ASSUME NEW p, NEW q, NEW w, NEW m, NEW n, AllPrecede(p, q), InQ(p, w, m), InQ(q, w, n)
    PROVE  m < n
  BY DEF InQ, AllPrecede, Precedes

\* The head of an ordered queue is the oldest of its writer.
LEMMA HeadOldest ==
    ASSUME NEW q \in Seq(Packet), q # <<>>, Ordered(q), NEW n, InQ(Tail(q), Head(q).w, n)
    PROVE  Head(q).n < n
  <1>1. AllPrecede(<<Head(q)>>, Tail(q)) /\ Head(q) \in Packet
    BY TailOrdered, TailOf
  <1>2. InQ(<<Head(q)>>, Head(q).w, Head(q).n)
    BY <1>1, InOne
  <1> QED BY <1>1, <1>2, InPrecede

\* An ordered queue without the packet that comes next has room for it.
LEMMA RoomForNext ==
    ASSUME RoomForAll, NEW q \in Seq(Packet), Ordered(q), NEW p \in Packet,
           \A i \in 1..Len(q) : Precedes(q[i], p)
    PROVE  HasRoom(q, BufferSize) /\ HasRoom(q, ChanSize)
  <1> DEFINE others == Packet \ {p}
  <1>1. \A i \in 1..Len(q) : q[i] \in Packet /\ q[i] # p
    <2>1. \A i \in 1..Len(q) : q[i] \in Packet
      OBVIOUS
    <2> QED BY <2>1, MaxWritesAssumption DEF Precedes, Packet
  <1>2. q \in [1..Len(q) -> others]
    BY <1>1
  <1>3. \A i, j \in 1..Len(q) : i < j => q[i] # q[j]
    <2>1. \A i \in 1..Len(q) : q[i] \in Packet
      OBVIOUS
    <2> QED BY <2>1, MaxWritesAssumption DEF Ordered, Precedes, Packet
  <1>4. \A i, j \in 1..Len(q) : q[i] = q[j] => i = j
    BY <1>3
  <1>5. q \in Injection(1..Len(q), others)
    BY <1>2, <1>4 DEF Injection, IsInjective
  <1>6. IsFiniteSet(others) /\ Cardinality(others) = Cardinality(Packet) - 1
    BY FS_RemoveElement DEF RoomForAll
  <1>7. Cardinality(1..Len(q)) <= Cardinality(others)
    BY <1>5, <1>6, FS_Injection
  <1>8. Len(q) \in Nat /\ Cardinality(1..Len(q)) = Len(q)
    <2>1. Len(q) \in Nat /\ 1 \in Int /\ Len(q) \in Int
      OBVIOUS
    <2>2. Cardinality(1..Len(q)) = IF 1 > Len(q) THEN 0 ELSE Len(q) - 1 + 1
      BY <2>1, FS_Interval
    <2> QED BY <2>1, <2>2
  <1>9. Cardinality(Packet) \in Nat
    BY FS_CardinalityType DEF RoomForAll
  <1> QED
    BY <1>6, <1>7, <1>8, <1>9, BufferSizeAssumption, ChanSizeAssumption DEF RoomForAll, HasRoom

\* In the order in which packets travel, what follows a channel's packet up to
\* another packet of the channel is in the channel.
LEMMA ChannelHasNoGap ==
    ASSUME TypeOK, InOrder, NEW s \in Subscribers, RestOnWay(s)
    PROVE  ChannelGapless(s)
  <1> SUFFICES ASSUME NEW w \in Writers, NEW m \in Nat, NEW n \in Nat, NEW k \in Nat,
                      Newest(s, w, m) \/ InQ(chan[s], w, m), m < n, n < k, InQ(chan[s], w, k)
               PROVE  InQ(chan[s], w, n)
    BY DEF ChannelGapless
  <1>1. /\ UpTo(chan[s], Sent) /\ AllPrecede(chan[s], Due(s)) /\ AllPrecede(chan[s], buffer)
    BY DEF InOrder, SubscriberInOrder
  <1>2. k <= Sent[w]
    BY <1>1, InUpTo
  <1>3. n <= Sent[w]
    BY <1>2, SentType
  <1>4. OnWay(s, w, n)
    BY <1>3 DEF RestOnWay, OnWay
  <1>5. ~InQ(Due(s), w, n) /\ ~InQ(buffer, w, n)
    <2>1. ASSUME InQ(Due(s), w, n) PROVE FALSE
      <3>1. k < n
        BY <1>1, <2>1, InPrecede
      <3> QED BY <3>1
    <2>2. ASSUME InQ(buffer, w, n) PROVE FALSE
      <3>1. k < n
        BY <1>1, <2>2, InPrecede
      <3> QED BY <3>1
    <2> QED BY <2>1, <2>2
  <1> QED BY <1>4, <1>5 DEF OnWay

\* The steps that move no packet.
LEMMA QuietGaps ==
    ASSUME TypeOK, GaplessInv, Sent' = Sent,
           UNCHANGED <<buffer, chan, last>>, \A s \in Subscribers : Due(s)' = Due(s),
           NeverFull', UNCHANGED <<targets, stopped>>, subs \subseteq subs'
    PROVE  GaplessInv'
  <1>1. BufferGapless'
    BY DEF GaplessInv, BufferGapless
  <1>2. ASSUME NEW s \in Subscribers PROVE SubscriberGapless(s)'
    <2>1. SubscriberGapless(s)
      BY DEF GaplessInv
    <2>2. Due(s)' = Due(s)
      OBVIOUS
    <2>3. RestOnWay(s) => RestOnWay(s)'
      BY <2>2 DEF RestOnWay, Newest, OnWay
    <2>4. ChannelGapless(s) => ChannelGapless(s)'
      BY DEF ChannelGapless, Newest
    <2>5. NothingYet(s) => NothingYet(s)'
      BY DEF NothingYet
    <2> QED BY <2>1, <2>3, <2>4, <2>5 DEF SubscriberGapless
  <1>3. targets' \subseteq subs' \cup stopped'
    BY DEF GaplessInv
  <1> QED BY <1>1, <1>2, <1>3 DEF GaplessInv

LEMMA ManagerGaps == ASSUME TypeOK, GaplessInv, Manager PROVE GaplessInv'
  <1>1. UNCHANGED <<buffer, writerVars, distVars, subVars>>
    BY DEF Manager, RemoveMark, RemoveCloseBuffer, CloseCancel, CloseBuffer
  <1> QED BY <1>1, QuietGaps
      DEF GaplessInv, NeverFull, Due, Sent, Writing, writerVars, distVars, subVars

\* A writer's packet follows all it has sent, and goes in: there is room.
LEMMA SendGaps ==
    ASSUME RoomForAll, TypeOK, InOrder, GaplessInv, NEW w \in Writers, TrySend(w)
    PROVE  GaplessInv'
  <1> DEFINE c == Current(w)
  <1>1. c \in Packet /\ c.w = w /\ c.n = seq[w] /\ buffer \in Seq(Packet) /\ Writing(w)
    BY CurrentIsPacket DEF Current, TypeOK, TrySend, Writing
  <1>2. HasRoom(buffer, BufferSize)
    BY <1>1, BelowCurrent, RoomForNext DEF InOrder, BufferInOrder
  <1>3. /\ buffer' = Append(buffer, c) /\ wpc' = [wpc EXCEPT ![w] = "idle"]
        /\ UNCHANGED <<seq, dpc, held, targets, subs, chan, stopped, last>>
    BY <1>2 DEF TrySend, distVars, subVars
  <1> HIDE DEF c
  <1>4. \A v \in Writers : \A n \in Nat : n <= Sent'[v] => n <= Sent[v] \/ (c.w = v /\ c.n = n)
    <2>1. seq \in [Writers -> Nat] /\ \A v \in Writers : Writing(v) => seq[v] > 0
      BY MaxWritesAssumption DEF TypeOK
    <2>2. ASSUME NEW v \in Writers, v # w PROVE Sent'[v] = Sent[v]
      BY <1>3, <2>2 DEF Sent, Writing, TypeOK
    <2>3. Sent'[w] = seq[w] /\ Sent[w] = seq[w] - 1
      BY <1>1, <1>3 DEF Sent, Writing, TypeOK
    <2> QED BY <1>1, <2>1, <2>2, <2>3
  <1>5. \A v \in Writers : \A n \in Nat : InQ(buffer', v, n) <=> InQ(buffer, v, n) \/ (c.w = v /\ c.n = n)
    BY <1>1, <1>3, InAppend
  <1>6. \A v \in Writers : \A n \in Nat : c.w = v /\ c.n < n => ~(n <= Sent'[v])
    <2>1. Sent'[w] = seq[w] /\ seq[w] \in Nat
      BY <1>1, <1>3, MaxWritesAssumption DEF Sent, Writing, TypeOK
    <2> QED BY <1>1, <2>1
  <1>7. BufferGapless'
    <2> SUFFICES ASSUME NEW v \in Writers, NEW m \in Nat, NEW n \in Nat,
                        InQ(buffer', v, m), m < n, n <= Sent'[v]
                 PROVE  InQ(buffer', v, n)
      BY DEF BufferGapless
    <2>1. InQ(buffer, v, m)
      BY <1>5, <1>6
    <2>2. n <= Sent[v] => InQ(buffer, v, n)
      BY <2>1 DEF GaplessInv, BufferGapless
    <2> QED BY <1>4, <1>5, <2>2
  <1>8. ASSUME NEW s \in Subscribers PROVE SubscriberGapless(s)'
    <2>1. SubscriberGapless(s)
      BY DEF GaplessInv
    <2>2. Due(s)' = Due(s)
      BY <1>3 DEF Due
    <2>3. \A v \in Writers : \A n \in Nat : OnWay(s, v, n)' <=> OnWay(s, v, n) \/ (c.w = v /\ c.n = n)
      BY <1>3, <1>5, <2>2 DEF OnWay
    <2>4. ASSUME RestOnWay(s) PROVE RestOnWay(s)'
      <3> SUFFICES ASSUME NEW v \in Writers, NEW m \in Nat, NEW n \in Nat,
                          Newest(s, v, m)' \/ OnWay(s, v, m)', m < n, n <= Sent'[v]
                   PROVE  OnWay(s, v, n)'
        BY DEF RestOnWay
      <3>1. Newest(s, v, m) \/ OnWay(s, v, m)
        BY <1>3, <1>6, <2>3 DEF Newest
      <3>2. n <= Sent[v] => OnWay(s, v, n)
        BY <2>4, <3>1 DEF RestOnWay
      <3> QED BY <1>4, <2>3, <3>2
    <2>5. ChannelGapless(s) => ChannelGapless(s)'
      BY <1>3 DEF ChannelGapless, Newest
    <2>6. NothingYet(s) => NothingYet(s)'
      BY <1>3 DEF NothingYet
    <2> QED BY <1>3, <2>1, <2>4, <2>5, <2>6 DEF SubscriberGapless
  <1>9. NeverFull' /\ targets' \subseteq subs' \cup stopped'
    BY <1>3 DEF GaplessInv, NeverFull, TypeOK
  <1> QED BY <1>7, <1>8, <1>9 DEF GaplessInv

LEMMA WriterGaps ==
    ASSUME RoomForAll, TypeOK, InOrder, GaplessInv, NEW w \in Writers, WritePacket(w)
    PROVE  GaplessInv'
  <1>1. CASE CheckOpen(w)
    <2>1. Sent' = Sent
      BY <1>1, MaxWritesAssumption DEF CheckOpen, Sent, Writing, TypeOK
    <2>2. NeverFull'
      BY <1>1 DEF CheckOpen, GaplessInv, NeverFull, TypeOK
    <2> QED BY <1>1, <2>1, <2>2, QuietGaps DEF CheckOpen, Due, distVars, subVars
  <1>2. CASE TrySend(w)
    BY <1>2, SendGaps
  <1>3. CASE SendOnClosedBuffer(w)
    BY <1>3, QuietGaps DEF SendOnClosedBuffer, GaplessInv, NeverFull, Due, Sent, Writing,
                           writerVars, distVars, subVars
  <1>4. wpc[w] \in {"idle", "checked"}
    BY DEF GaplessInv, NeverFull
  <1>5. ~DropOldest(w) /\ ~Recheck(w) /\ ~BlockingSend(w)
    BY <1>4 DEF DropOldest, Recheck, BlockingSend
  <1> QED BY <1>1, <1>2, <1>3, <1>5 DEF WritePacket

\* The distributor's packet stays on its way to every subscriber.
LEMMA ReceiveGaps ==
    ASSUME TypeOK, InOrder, GaplessInv, Receive PROVE GaplessInv'
  <1> DEFINE h == Head(buffer)
  <1>1. /\ buffer \in Seq(Packet) /\ buffer # <<>>
        /\ h \in Packet /\ h.w \in Writers /\ h.n \in Nat
    <2>1. buffer \in Seq(Packet) /\ buffer # <<>> /\ h \in Packet
      BY TailOf DEF Receive, TypeOK
    <2> QED BY <2>1, MaxWritesAssumption DEF Packet
  <1>2. /\ held' = <<h>> /\ buffer' = Tail(buffer) /\ dpc = "wait" /\ dpc' = "received"
        /\ UNCHANGED <<wpc, seq, targets, subs, chan, stopped, last>> /\ Sent' = Sent
    BY DEF Receive, writerVars, subVars, Sent, Writing
  <1>3. \A v \in Writers : \A n \in Nat : InQ(buffer, v, n) <=> (h.w = v /\ h.n = n) \/ InQ(buffer', v, n)
    BY <1>1, <1>2, InTail
  <1>4. \A n \in Nat : InQ(buffer', h.w, n) => h.n < n
    BY <1>1, <1>2, HeadOldest DEF InOrder, BufferInOrder
  <1> HIDE DEF h
  <1>5. BufferGapless'
    <2> SUFFICES ASSUME NEW v \in Writers, NEW m \in Nat, NEW n \in Nat,
                        InQ(buffer', v, m), m < n, n <= Sent[v]
                 PROVE  InQ(buffer', v, n)
      BY <1>2 DEF BufferGapless
    <2>1. InQ(buffer, v, n)
      BY <1>3 DEF GaplessInv, BufferGapless
    <2>2. ~(h.w = v /\ h.n = n)
      BY <1>1, <1>4
    <2> QED BY <1>3, <2>1, <2>2
  <1>6. ASSUME NEW s \in Subscribers PROVE SubscriberGapless(s)'
    <2>1. SubscriberGapless(s)
      BY DEF GaplessInv
    <2>2. Due(s) = <<>> /\ Due(s)' = <<h>>
      BY <1>2 DEF Due, TypeOK
    <2>3. \A v \in Writers : \A n \in Nat : OnWay(s, v, n)' <=> OnWay(s, v, n)
      <3> SUFFICES ASSUME NEW v \in Writers, NEW n \in Nat PROVE OnWay(s, v, n)' <=> OnWay(s, v, n)
        OBVIOUS
      <3>1. ~InQ(Due(s), v, n) /\ (InQ(Due(s)', v, n) <=> h.w = v /\ h.n = n)
        BY <1>1, <2>2, InNone, InOne
      <3> QED BY <1>2, <1>3, <3>1 DEF OnWay
    <2>4. RestOnWay(s) => RestOnWay(s)'
      BY <1>2, <2>3 DEF RestOnWay, Newest
    <2>5. ChannelGapless(s) => ChannelGapless(s)'
      BY <1>2 DEF ChannelGapless, Newest
    <2>6. NothingYet(s) => NothingYet(s)'
      BY <1>2 DEF NothingYet
    <2> QED BY <1>2, <2>1, <2>4, <2>5, <2>6 DEF SubscriberGapless
  <1>7. NeverFull' /\ targets' \subseteq subs' \cup stopped'
    BY <1>2 DEF GaplessInv, NeverFull
  <1> QED BY <1>5, <1>6, <1>7 DEF GaplessInv

\* Who is not in the copy of the list has got nothing, or is stopped.
LEMMA CopyWorkersGaps ==
    ASSUME TypeOK, GaplessInv, CopyWorkers PROVE GaplessInv'
  <1>1. /\ dpc = "received" /\ targets' = subs
        /\ dpc' = (IF subs = {} THEN "wait" ELSE "sending")
        /\ held' = (IF subs = {} THEN <<>> ELSE held)
        /\ UNCHANGED <<buffer, wpc, seq, subs, chan, stopped, last>> /\ Sent' = Sent
    BY DEF CopyWorkers, NextRound, writerVars, subVars, Sent, Writing
  <1>2. BufferGapless'
    BY <1>1 DEF GaplessInv, BufferGapless
  <1>3. ASSUME NEW s \in Subscribers PROVE SubscriberGapless(s)'
    <2>1. SubscriberGapless(s)
      BY DEF GaplessInv
    <2>2. CASE s \in subs
      <3>1. Due(s)' = Due(s)
        BY <1>1, <2>2 DEF Due
      <3>2. RestOnWay(s) => RestOnWay(s)'
        BY <1>1, <3>1 DEF RestOnWay, OnWay, Newest
      <3>3. ChannelGapless(s) => ChannelGapless(s)'
        BY <1>1 DEF ChannelGapless, Newest
      <3> QED BY <1>1, <2>1, <2>2, <3>2, <3>3 DEF SubscriberGapless
    <2>3. CASE s \notin subs /\ s \notin stopped
      <3>1. NothingYet(s) /\ NothingYet(s)'
        BY <1>1, <2>1, <2>3 DEF SubscriberGapless, NothingYet
      <3>2. Due(s)' = <<>>
        BY <1>1, <2>3 DEF Due
      <3>3. RestOnWay(s)'
        <4> SUFFICES ASSUME NEW v \in Writers, NEW m \in Nat, NEW n \in Nat,
                            Newest(s, v, m)' \/ OnWay(s, v, m)', m < n, n <= Sent[v]
                     PROVE  InQ(buffer, v, n)
          BY <1>1 DEF RestOnWay, OnWay
        <4>1. ~Newest(s, v, m)'
          BY <3>1 DEF NothingYet, Newest
        <4>2. ~InQ(chan[s]', v, m) /\ ~InQ(Due(s)', v, m)
          BY <3>1, <3>2, InNone DEF NothingYet
        <4>3. InQ(buffer, v, m)
          BY <1>1, <4>1, <4>2 DEF OnWay
        <4> QED BY <4>3 DEF GaplessInv, BufferGapless
      <3> QED BY <1>1, <2>3, <3>1, <3>3 DEF SubscriberGapless
    <2>4. CASE s \notin subs /\ s \in stopped
      <3>1. ChannelGapless(s)'
        BY <1>1, <2>1, <2>4 DEF ChannelGapless, Newest, SubscriberGapless
      <3> QED BY <1>1, <2>4, <3>1 DEF SubscriberGapless
    <2> QED BY <2>2, <2>3, <2>4
  <1>4. NeverFull' /\ targets' \subseteq subs' \cup stopped'
    BY <1>1 DEF GaplessInv, NeverFull
  <1> QED BY <1>2, <1>3, <1>4 DEF GaplessInv

\* A worker's channel has room for the packet, which goes from the
\* distributor's hand to it.
LEMMA SendToWorkerGaps ==
    ASSUME RoomForAll, TypeOK, InOrder, GaplessInv, NEW s \in Subscribers, SendToWorker(s)
    PROVE  GaplessInv'
  <1> DEFINE h == Head(held)
  <1>1. h \in Packet /\ h = held[1] /\ Len(held) = 1 /\ chan[s] \in Seq(Packet)
    BY HeldIsPacket DEF SendToWorker, TypeOK
  <1>2. held = <<h>>
    BY <1>1 DEF TypeOK
  <1>3. Due(s) = held
    BY DEF SendToWorker, Due
  <1>4. HasRoom(chan[s], ChanSize)
    <2>1. Ordered(chan[s]) /\ AllPrecede(chan[s], held)
      BY <1>3 DEF InOrder, SubscriberInOrder
    <2>2. \A i \in 1..Len(chan[s]) : Precedes(chan[s][i], h)
      BY <1>1, <2>1 DEF AllPrecede
    <2> QED BY <1>1, <2>1, <2>2, RoomForNext
  <1>5. /\ chan' = [chan EXCEPT ![s] = Append(chan[s], h)] /\ targets' = targets \ {s}
        /\ held' = (IF targets \ {s} = {} THEN <<>> ELSE held)
        /\ dpc' = (IF targets \ {s} = {} THEN "wait" ELSE "sending")
        /\ UNCHANGED <<buffer, wpc, seq, subs, stopped, last>> /\ Sent' = Sent
        /\ dpc = "sending" /\ s \in targets /\ s \notin stopped
    BY <1>4 DEF SendToWorker, NextRound, writerVars, Sent, Writing
  <1>6. chan'[s] = Append(chan[s], h) /\ \A t \in Subscribers \ {s} : chan'[t] = chan[t]
    BY <1>5 DEF TypeOK
  <1> HIDE DEF h
  <1>7. BufferGapless'
    BY <1>5 DEF GaplessInv, BufferGapless
  <1>8. SubscriberGapless(s)'
    <2>1. RestOnWay(s) /\ s \in subs
      BY <1>5 DEF GaplessInv, SubscriberGapless
    <2>2. Due(s)' = <<>>
      BY <1>5 DEF Due
    <2>3. \A v \in Writers : \A n \in Nat : OnWay(s, v, n)' <=> OnWay(s, v, n)
      <3> SUFFICES ASSUME NEW v \in Writers, NEW n \in Nat PROVE OnWay(s, v, n)' <=> OnWay(s, v, n)
        OBVIOUS
      <3>1. ~InQ(Due(s)', v, n) /\ (InQ(Due(s), v, n) <=> h.w = v /\ h.n = n)
        BY <1>1, <1>2, <1>3, <2>2, InNone, InOne
      <3>2. InQ(chan'[s], v, n) <=> InQ(chan[s], v, n) \/ (h.w = v /\ h.n = n)
        BY <1>1, <1>6, InAppend
      <3> QED BY <1>5, <3>1, <3>2 DEF OnWay
    <2>4. RestOnWay(s)'
      BY <1>5, <2>1, <2>3 DEF RestOnWay, Newest
    <2> QED BY <1>5, <2>1, <2>4 DEF SubscriberGapless
  <1>9. ASSUME NEW t \in Subscribers \ {s} PROVE SubscriberGapless(t)'
    <2>1. SubscriberGapless(t) /\ chan'[t] = chan[t]
      BY <1>6 DEF GaplessInv
    <2>2. Due(t)' = Due(t)
      BY <1>5 DEF Due
    <2>3. RestOnWay(t) => RestOnWay(t)'
      BY <1>5, <2>1, <2>2 DEF RestOnWay, OnWay, Newest
    <2>4. ChannelGapless(t) => ChannelGapless(t)'
      BY <1>5, <2>1 DEF ChannelGapless, Newest
    <2>5. NothingYet(t) => NothingYet(t)'
      BY <1>5, <2>1 DEF NothingYet
    <2> QED BY <1>5, <2>1, <2>3, <2>4, <2>5 DEF SubscriberGapless
  <1>10. NeverFull' /\ targets' \subseteq subs' \cup stopped'
    BY <1>5 DEF GaplessInv, NeverFull
  <1> QED BY <1>7, <1>8, <1>9, <1>10 DEF GaplessInv

LEMMA DistributeGaps ==
    ASSUME RoomForAll, TypeOK, InOrder, GaplessInv, Distribute PROVE GaplessInv'
  <1>1. CASE DistributorReturn
    <2>1. \A s \in Subscribers : Due(s)' = Due(s)
      BY <1>1 DEF DistributorReturn, Due
    <2> QED BY <1>1, <2>1, QuietGaps
        DEF DistributorReturn, GaplessInv, NeverFull, Sent, Writing, writerVars, subVars
  <1>2. ASSUME NEW s \in Subscribers, SendToStoppedWorker(s) PROVE GaplessInv'
    BY <1>2, QuietGaps
    DEF SendToStoppedWorker, GaplessInv, NeverFull, Due, Sent, Writing, writerVars, distVars, subVars
  <1> QED BY <1>1, <1>2, ReceiveGaps, CopyWorkersGaps, SendToWorkerGaps DEF Distribute

\* OnPacket gets the next of its channel; what follows stays on its way.
LEMMA WorkerReceiveGaps ==
    ASSUME TypeOK, InOrder, GaplessInv, NEW s \in Subscribers, WorkerReceive(s)
    PROVE  GaplessInv'
  <1> DEFINE h == Head(chan[s])
  <1>1. /\ chan[s] \in Seq(Packet) /\ chan[s] # <<>>
        /\ h \in Packet /\ h.w \in Writers /\ h.n \in Nat \ {0}
    <2>1. chan[s] \in Seq(Packet) /\ chan[s] # <<>>
      BY DEF WorkerReceive, TypeOK
    <2>2. h \in Packet
      BY <2>1, TailOf
    <2> QED BY <2>1, <2>2, MaxWritesAssumption DEF Packet
  <1>2. /\ chan'[s] = Tail(chan[s]) /\ last'[s] = [last[s] EXCEPT ![h.w] = h.n]
        /\ \A t \in Subscribers \ {s} : chan'[t] = chan[t] /\ last'[t] = last[t]
        /\ UNCHANGED <<buffer, wpc, seq, dpc, held, targets, subs, stopped>> /\ Sent' = Sent
    BY DEF WorkerReceive, TypeOK, writerVars, distVars, Sent, Writing
  <1>3. \A t \in Subscribers : Due(t)' = Due(t)
    BY <1>2 DEF Due
  <1>4. \A v \in Writers : \A n \in Nat :
          InQ(chan[s], v, n) <=> (h.w = v /\ h.n = n) \/ InQ(chan'[s], v, n)
    BY <1>1, <1>2, InTail
  <1>5. \A n \in Nat : InQ(chan'[s], h.w, n) \/ InQ(Due(s), h.w, n) \/ InQ(buffer, h.w, n) => h.n < n
    <2>1. Ordered(chan[s]) /\ AllPrecede(chan[s], Due(s)) /\ AllPrecede(chan[s], buffer)
      BY DEF InOrder, SubscriberInOrder
    <2>2. InQ(chan[s], h.w, h.n)
      BY <1>1, <1>4
    <2> QED BY <1>1, <1>2, <2>1, <2>2, HeadOldest, InPrecede
  <1>6. last[s] \in [Writers -> Nat]
    BY MaxWritesAssumption DEF TypeOK
  <1> HIDE DEF h
  <1>7. \A v \in Writers : \A m \in Nat : Newest(s, v, m)' => Newest(s, v, m) \/ (h.w = v /\ h.n = m)
    BY <1>2, <1>6 DEF Newest
  <1>8. ASSUME RestOnWay(s) PROVE RestOnWay(s)'
    <2> SUFFICES ASSUME NEW v \in Writers, NEW m \in Nat, NEW n \in Nat,
                        Newest(s, v, m)' \/ OnWay(s, v, m)', m < n, n <= Sent[v]
                 PROVE  OnWay(s, v, n)'
      BY <1>2 DEF RestOnWay
    <2>1. Newest(s, v, m) \/ OnWay(s, v, m)
      BY <1>2, <1>3, <1>4, <1>7 DEF OnWay
    <2>2. OnWay(s, v, n)
      BY <1>8, <2>1 DEF RestOnWay
    <2>3. h.w = v => h.n # n
      <3> SUFFICES ASSUME h.w = v, h.n = n PROVE FALSE
        OBVIOUS
      <3>1. Newest(s, v, m)' => m = h.n
        BY <1>2, <1>6 DEF Newest
      <3>2. OnWay(s, v, m)' => h.n < m
        BY <1>2, <1>3, <1>5 DEF OnWay
      <3> QED BY <1>1, <3>1, <3>2
    <2> QED BY <1>2, <1>3, <1>4, <2>2, <2>3 DEF OnWay
  <1>9. ASSUME ChannelGapless(s) PROVE ChannelGapless(s)'
    <2> SUFFICES ASSUME NEW v \in Writers, NEW m \in Nat, NEW n \in Nat, NEW k \in Nat,
                        Newest(s, v, m)' \/ InQ(chan'[s], v, m), m < n, n < k, InQ(chan'[s], v, k)
                 PROVE  InQ(chan'[s], v, n)
      BY DEF ChannelGapless
    <2>1. (Newest(s, v, m) \/ InQ(chan[s], v, m)) /\ InQ(chan[s], v, k)
      BY <1>4, <1>7
    <2>2. InQ(chan[s], v, n)
      BY <1>9, <2>1 DEF ChannelGapless
    <2>3. h.w = v => h.n # n
      <3> SUFFICES ASSUME h.w = v, h.n = n PROVE FALSE
        OBVIOUS
      <3>1. Newest(s, v, m)' => m = h.n
        BY <1>2, <1>6 DEF Newest
      <3>2. InQ(chan'[s], v, m) => h.n < m
        BY <1>5
      <3> QED BY <1>1, <3>1, <3>2
    <2> QED BY <1>4, <2>2, <2>3
  <1>10. SubscriberGapless(s)'
    <2>1. SubscriberGapless(s)
      BY DEF GaplessInv
    <2>2. s \in subs \cup stopped
      BY <1>1, <2>1 DEF SubscriberGapless, NothingYet
    <2> QED BY <1>2, <1>8, <1>9, <2>1, <2>2 DEF SubscriberGapless
  <1>11. ASSUME NEW t \in Subscribers \ {s} PROVE SubscriberGapless(t)'
    <2>1. SubscriberGapless(t) /\ Due(t)' = Due(t) /\ chan'[t] = chan[t] /\ last'[t] = last[t]
      BY <1>2, <1>3 DEF GaplessInv
    <2>2. RestOnWay(t) => RestOnWay(t)'
      BY <1>2, <2>1 DEF RestOnWay, OnWay, Newest
    <2>3. ChannelGapless(t) => ChannelGapless(t)'
      BY <1>2, <2>1 DEF ChannelGapless, Newest
    <2>4. NothingYet(t) => NothingYet(t)'
      BY <1>2, <2>1 DEF NothingYet
    <2> QED BY <1>2, <2>1, <2>2, <2>3, <2>4 DEF SubscriberGapless
  <1>12. BufferGapless'
    BY <1>2 DEF GaplessInv, BufferGapless
  <1>13. NeverFull' /\ targets' \subseteq subs' \cup stopped'
    BY <1>2 DEF GaplessInv, NeverFull
  <1> QED BY <1>10, <1>11, <1>12, <1>13 DEF GaplessInv

\* What a worker's channel holds when it is stopped has no gap.
LEMMA UnsubscribeGaps ==
    ASSUME TypeOK, InOrder, GaplessInv, NEW s \in Subscribers, Unsubscribe(s)
    PROVE  GaplessInv'
  <1>1. /\ UNCHANGED <<buffer, wpc, seq, dpc, held, targets, chan, last>> /\ Sent' = Sent
        /\ subs' = subs \ {s} /\ stopped' = stopped \cup {s} /\ s \in subs
        /\ \A t \in Subscribers : Due(t)' = Due(t)
    BY DEF Unsubscribe, writerVars, distVars, Sent, Writing, Due
  <1>2. ASSUME NEW t \in Subscribers PROVE SubscriberGapless(t)'
    <2>1. SubscriberGapless(t) /\ Due(t)' = Due(t)
      BY <1>1 DEF GaplessInv
    <2>2. RestOnWay(t) => RestOnWay(t)' /\ ChannelGapless(t)
      BY <1>1, <2>1, ChannelHasNoGap DEF RestOnWay, OnWay, Newest
    <2>3. ChannelGapless(t) => ChannelGapless(t)'
      BY <1>1 DEF ChannelGapless, Newest
    <2>4. NothingYet(t) => NothingYet(t)'
      BY <1>1 DEF NothingYet
    <2> QED BY <1>1, <2>1, <2>2, <2>3, <2>4 DEF SubscriberGapless
  <1>3. BufferGapless'
    BY <1>1 DEF GaplessInv, BufferGapless
  <1>4. NeverFull' /\ targets' \subseteq subs' \cup stopped'
    BY <1>1 DEF GaplessInv, NeverFull
  <1> QED BY <1>2, <1>3, <1>4 DEF GaplessInv

LEMMA SubscriberGaps ==
    ASSUME TypeOK, InOrder, GaplessInv, NEW s \in Subscribers,
           Subscribe(s) \/ Unsubscribe(s) \/ Worker(s)
    PROVE  GaplessInv'
  <1>1. CASE Subscribe(s) \/ OnPacketReturn(s) \/ WorkerReturn(s)
    <2>1. UNCHANGED <<buffer, writerVars, distVars, chan, stopped, last>> /\ subs \subseteq subs'
      BY <1>1 DEF Subscribe, OnPacketReturn, WorkerReturn
    <2> QED BY <2>1, QuietGaps DEF GaplessInv, NeverFull, Due, Sent, Writing, writerVars, distVars
  <1> QED BY <1>1, UnsubscribeGaps, WorkerReceiveGaps DEF Worker

\* While no queue can fill, the buffer, the distributor's hand and a worker's
\* channel hold what follows the last packet OnPacket got, without a gap.
THEOREM GaplessInvHolds == ASSUME RoomForAll PROVE Spec => []GaplessInv
  <1>1. Init => GaplessInv
    <2> SUFFICES ASSUME Init PROVE GaplessInv
      OBVIOUS
    <2>1. buffer = <<>> /\ targets = {} /\ NeverFull
      BY DEF Init, NeverFull
    <2>2. \A w, n : ~InQ(<<>>, w, n)
      BY InNone
    <2>3. ASSUME NEW s \in Subscribers PROVE SubscriberGapless(s)
      <3>1. Due(s) = <<>> /\ NothingYet(s) /\ stopped = {}
        BY DEF Init, Due, NothingYet
      <3>2. RestOnWay(s)
        BY <2>1, <2>2, <3>1 DEF RestOnWay, OnWay, NothingYet, Newest
      <3> QED BY <3>1, <3>2 DEF SubscriberGapless
    <2> QED BY <2>1, <2>2, <2>3 DEF GaplessInv, BufferGapless
  <1>2. TypeOK /\ InOrder /\ GaplessInv /\ [Next]_vars => GaplessInv'
    <2> SUFFICES ASSUME TypeOK, InOrder, GaplessInv, [Next]_vars PROVE GaplessInv'
      OBVIOUS
    <2>1. CASE Next
      BY <2>1, ManagerGaps, WriterGaps, DistributeGaps, SubscriberGaps DEF Next
    <2>2. CASE UNCHANGED vars
      BY <2>2, QuietGaps DEF vars, GaplessInv, NeverFull, Due, Sent, Writing,
                             writerVars, distVars, subVars
    <2> QED BY <2>1, <2>2
  <1> QED BY <1>1, <1>2, TypeCorrect, OrderKept, PTL DEF Spec

\* OnPacket gets the packet that follows the last it got of the writer.
LEMMA NextIsNext ==
    ASSUME TypeOK, InOrder, GaplessInv, NEW s \in Subscribers, WorkerReceive(s),
           NEW w \in Writers, last[s][w] > 0
    PROVE  last'[s][w] \in {last[s][w], last[s][w] + 1}
  <1> DEFINE h == Head(chan[s])
             q == chan[s]
             m == last[s][w]
  <1>1. q \in Seq(Packet) /\ q # <<>> /\ last[s] \in [Writers -> Nat]
    BY MaxWritesAssumption DEF WorkerReceive, TypeOK
  <1>2. h \in Packet /\ h.w \in Writers /\ h.n \in Nat
    <2>1. h \in Packet
      BY <1>1, TailOf
    <2> QED BY <2>1, MaxWritesAssumption DEF Packet
  <1>3. last'[s] = [last[s] EXCEPT ![h.w] = h.n]
    BY DEF WorkerReceive, TypeOK
  <1>4. InQ(q, h.w, h.n)
    BY <1>1, <1>2, InTail
  <1>5. ChannelGapless(s)
    BY ChannelHasNoGap DEF GaplessInv, SubscriberGapless
  <1>6. ASSUME h.w = w PROVE h.n = m + 1
    <2>1. m < h.n
      BY <1>4, <1>6, InNewer DEF InOrder, SubscriberInOrder
    <2>2. ASSUME m + 1 < h.n PROVE FALSE
      <3>1. Newest(s, w, m) /\ m \in Nat /\ m + 1 \in Nat /\ m < m + 1
        BY <1>1 DEF Newest
      <3>2. InQ(q, w, m + 1)
        BY <1>2, <1>4, <1>5, <1>6, <2>2, <3>1 DEF ChannelGapless
      <3>3. InQ(Tail(q), h.w, m + 1)
        BY <1>1, <1>2, <1>6, <2>2, <3>1, <3>2, InTail
      <3>4. h.n < m + 1
        BY <1>1, <3>3, HeadOldest DEF InOrder, SubscriberInOrder
      <3> QED BY <1>2, <2>2, <3>1, <3>4
    <2> QED BY <1>1, <1>2, <2>1, <2>2
  <1> QED BY <1>1, <1>2, <1>3, <1>6

\* When neither the buffer nor a worker's channel can fill, a subscriber misses
\* no packet after its first, for any number of writers, subscribers and
\* packets: full queues are the only place where the code loses one.
THEOREM GaplessHolds == ASSUME RoomForAll PROVE Spec => Gapless
  <1>1. TypeOK /\ InOrder /\ GaplessInv /\ [Next]_vars =>
          [\A s \in Subscribers, w \in Writers :
              last[s][w] > 0 => last'[s][w] \in {last[s][w], last[s][w] + 1}]_vars
    <2> SUFFICES ASSUME TypeOK, InOrder, GaplessInv, [Next]_vars,
                        NEW s \in Subscribers, NEW w \in Writers, last[s][w] > 0
                 PROVE  last'[s][w] \in {last[s][w], last[s][w] + 1}
      OBVIOUS
    <2>1. CASE WorkerReceive(s)
      BY <2>1, NextIsNext
    <2>2. CASE \E t \in Subscribers \ {s} : WorkerReceive(t)
      BY <2>2 DEF WorkerReceive, TypeOK
    <2>3. CASE \A t \in Subscribers : ~WorkerReceive(t)
      BY <2>3, OthersHandNothing
    <2> QED BY <2>1, <2>2, <2>3
  <1> QED BY <1>1, TypeCorrect, OrderKept, GaplessInvHolds, PTL DEF Spec, Gapless
=============================================================================
