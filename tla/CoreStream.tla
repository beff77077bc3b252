---------------------------- MODULE CoreStream ----------------------------
(***************************************************************************)
(* One core.Stream of internal/core/stream_manager.go: the packet buffer,  *)
(* the goroutines that write to it, the distributor goroutine, and one     *)
(* worker goroutine with its own channel per subscriber.                   *)
(*                                                                         *)
(* A goroutine is interrupted wherever the code holds no lock: between the *)
(* check of `closed` and the send, between the drop of the oldest packet   *)
(* and the second check, between the distributor's copy of the subscriber  *)
(* list and each of its sends.  A send on a closed channel panics and ends *)
(* the process: after it no action is enabled.                             *)
(*                                                                         *)
(* A packet is its writer and its number; payload and statistics are left  *)
(* out.  Subscriber identities are uuids of peers (webrtc/peer.go), so one *)
(* that has left never subscribes again.                                   *)
(***************************************************************************)
EXTENDS Naturals, Sequences

CONSTANTS
    Writers,       \* goroutines that call WritePacket (RTSP client callbacks)
    Subscribers,   \* subscriber identities
    BufferSize,    \* capacity of packetBuffer (videoBufferSize)
    ChanSize,      \* capacity of a worker's packetChan (100 in the code)
    MaxWrites      \* bound: packets per writer

ASSUME BufferSizeAssumption == BufferSize \in Nat \ {0}
ASSUME ChanSizeAssumption == ChanSize \in Nat \ {0}
ASSUME MaxWritesAssumption == MaxWrites \in Nat

VARIABLES
    entry,      \* the stream in StreamManager.streams: "present", "closing", "gone"
    ctxDone,    \* the manager's context is cancelled
    closed,     \* Stream.closed
    bufOpen,    \* packetBuffer is not closed
    buffer,     \* packets in packetBuffer, oldest first
    wpc,        \* wpc[w]: where w is inside WritePacket
    seq,        \* seq[w]: number of the packet w writes or last wrote
    dpc,        \* where the distributor is
    held,       \* the packet the distributor holds, as a sequence of at most one
    targets,    \* workers the distributor still has to send it to
    subs,       \* keys of Stream.subscribers
    chan,       \* chan[s]: packets in the packetChan of s, oldest first
    stopped,    \* subscribers that were unsubscribed: cancelled and channel closed
    wkpc,       \* wkpc[s]: where the worker of s is
    last,       \* last[s][w]: newest packet of w handed to OnPacket of s
    panicked    \* "none", or the goroutine that sent on a closed channel

hubVars == <<entry, ctxDone, closed, bufOpen>>
writerVars == <<wpc, seq>>
distVars == <<dpc, held, targets>>
subVars == <<subs, chan, stopped, wkpc, last>>
vars == <<hubVars, buffer, writerVars, distVars, subVars, panicked>>

Packet == [w : Writers, n : 1..MaxWrites]

\* The packet a writer is inside WritePacket with.
Current(w) == [w |-> w, n |-> seq[w]]

Running == panicked = "none"

Writing(w) == wpc[w] # "idle"

\* Mutant: room is one more than the capacity.
HasRoomPlusOne(q, capacity) == Len(q) <= capacity
\* Mutant: room is one less than the capacity.
HasRoomLessOne(q, capacity) == Len(q) + 1 < capacity

\* A buffered channel takes another packet without blocking.
HasRoom(q, capacity) == Len(q) < capacity

Init ==
    /\ entry = "present"
    /\ ctxDone = FALSE
    /\ closed = FALSE
    /\ bufOpen = TRUE
    /\ buffer = <<>>
    /\ wpc = [w \in Writers |-> "idle"]
    /\ seq = [w \in Writers |-> 0]
    /\ dpc = "wait"
    /\ held = <<>>
    /\ targets = {}
    /\ subs = {}
    /\ chan = [s \in Subscribers |-> <<>>]
    /\ stopped = {}
    /\ wkpc = [s \in Subscribers |-> "none"]
    /\ last = [s \in Subscribers |-> [w \in Writers |-> 0]]
    /\ panicked = "none"

----------------------------------------------------------------------------
(* The manager: RemoveStream marks the stream closed and then closes the   *)
(* buffer; Close cancels the context first and closes the buffer of every  *)
(* stream still in the map, without marking it closed.  Both hold the      *)
(* manager's mutex over their map, so one stream meets only one of them.   *)

RemoveMark ==
    /\ Running
    /\ entry = "present"
    /\ entry' = "closing"
    /\ closed' = TRUE
    /\ UNCHANGED <<ctxDone, bufOpen, buffer, writerVars, distVars, subVars, panicked>>

RemoveCloseBuffer ==
    /\ Running
    /\ entry = "closing"
    /\ entry' = "gone"
    /\ bufOpen' = FALSE
    /\ UNCHANGED <<ctxDone, closed, buffer, writerVars, distVars, subVars, panicked>>

CloseCancel ==
    /\ Running
    /\ ~ctxDone
    /\ ctxDone' = TRUE
    /\ UNCHANGED <<entry, closed, bufOpen, buffer, writerVars, distVars, subVars, panicked>>

CloseBuffer ==
    /\ Running
    /\ ctxDone
    /\ entry = "present"
    /\ entry' = "gone"
    /\ bufOpen' = FALSE
    /\ UNCHANGED <<ctxDone, closed, buffer, writerVars, distVars, subVars, panicked>>

----------------------------------------------------------------------------
(* WritePacket.                                                            *)

\* Mutant: the first check of `closed` is missing.
CheckNothing(w) ==
    /\ Running
    /\ wpc[w] = "idle"
    /\ seq[w] < MaxWrites
    /\ seq' = [seq EXCEPT ![w] = @ + 1]
    /\ wpc' = [wpc EXCEPT ![w] = "checked"]
    /\ UNCHANGED <<hubVars, buffer, distVars, subVars, panicked>>

\* First check of `closed`; a closed stream returns an error.
CheckOpen(w) ==
    /\ Running
    /\ wpc[w] = "idle"
    /\ seq[w] < MaxWrites
    /\ ~closed
    /\ seq' = [seq EXCEPT ![w] = @ + 1]
    /\ wpc' = [wpc EXCEPT ![w] = "checked"]
    /\ UNCHANGED <<hubVars, buffer, distVars, subVars, panicked>>

\* select with default: send if there is room, go on to drop if there is none.
TrySend(w) ==
    /\ Running
    /\ wpc[w] = "checked"
    /\ bufOpen
    /\ IF HasRoom(buffer, BufferSize)
       THEN /\ buffer' = Append(buffer, Current(w))
            /\ wpc' = [wpc EXCEPT ![w] = "idle"]
       ELSE /\ wpc' = [wpc EXCEPT ![w] = "full"]
            /\ UNCHANGED buffer
    /\ UNCHANGED <<hubVars, seq, distVars, subVars, panicked>>

\* Mutant: nothing is dropped before the send that waits for room.
DropNothing(w) ==
    /\ Running
    /\ wpc[w] = "full"
    /\ wpc' = [wpc EXCEPT ![w] = "dropped"]
    /\ UNCHANGED <<hubVars, buffer, seq, distVars, subVars, panicked>>

DropOldest(w) ==
    /\ Running
    /\ wpc[w] = "full"
    /\ wpc' = [wpc EXCEPT ![w] = "dropped"]
    /\ buffer' = IF buffer = <<>> THEN buffer ELSE Tail(buffer)
    /\ UNCHANGED <<hubVars, seq, distVars, subVars, panicked>>

\* Second check of `closed`.
Recheck(w) ==
    /\ Running
    /\ wpc[w] = "dropped"
    /\ wpc' = [wpc EXCEPT ![w] = IF closed THEN "idle" ELSE "sending"]
    /\ UNCHANGED <<hubVars, buffer, seq, distVars, subVars, panicked>>

\* Mutant: the return after the send is missing and the call tries again.
SendAndRetry(w) ==
    /\ Running
    /\ wpc[w] = "sending"
    /\ bufOpen
    /\ HasRoom(buffer, BufferSize)
    /\ buffer' = Append(buffer, Current(w))
    /\ wpc' = [wpc EXCEPT ![w] = "checked"]
    /\ UNCHANGED <<hubVars, seq, distVars, subVars, panicked>>

\* The send without default: waits for room.
BlockingSend(w) ==
    /\ Running
    /\ wpc[w] = "sending"
    /\ bufOpen
    /\ HasRoom(buffer, BufferSize)
    /\ buffer' = Append(buffer, Current(w))
    /\ wpc' = [wpc EXCEPT ![w] = "idle"]
    /\ UNCHANGED <<hubVars, seq, distVars, subVars, panicked>>

\* Either send, on a buffer closed since the check before it.
SendOnClosedBuffer(w) ==
    /\ Running
    /\ wpc[w] \in {"checked", "sending"}
    /\ ~bufOpen
    /\ panicked' = "writer"
    /\ UNCHANGED <<hubVars, buffer, writerVars, distVars, subVars>>

WritePacket(w) ==
    \/ CheckOpen(w)
    \/ TrySend(w)
    \/ DropOldest(w)
    \/ Recheck(w)
    \/ BlockingSend(w)
    \/ SendOnClosedBuffer(w)

----------------------------------------------------------------------------
(* distributePackets.                                                      *)

Receive ==
    /\ Running
    /\ dpc = "wait"
    /\ buffer # <<>>
    /\ held' = <<Head(buffer)>>
    /\ buffer' = Tail(buffer)
    /\ dpc' = "received"
    /\ UNCHANGED <<hubVars, writerVars, targets, subVars, panicked>>

\* A cancelled context, or a buffer that is closed and drained, ends it.
DistributorReturn ==
    /\ Running
    /\ dpc = "wait"
    /\ ctxDone \/ (~bufOpen /\ buffer = <<>>)
    /\ dpc' = "returned"
    /\ UNCHANGED <<hubVars, buffer, writerVars, held, targets, subVars, panicked>>

\* With no worker left to send to, the loop is back at its select.
NextRound(left) ==
    /\ dpc' = IF left = {} THEN "wait" ELSE "sending"
    /\ held' = IF left = {} THEN <<>> ELSE held

\* The worker list is copied under the read lock.
CopyWorkers ==
    /\ Running
    /\ dpc = "received"
    /\ targets' = subs
    /\ NextRound(subs)
    /\ UNCHANGED <<hubVars, buffer, writerVars, subVars, panicked>>

\* Mutant: the send waits for room in the worker's channel.
WaitForWorker(s) ==
    /\ Running
    /\ dpc = "sending"
    /\ s \in targets
    /\ s \notin stopped
    /\ HasRoom(chan[s], ChanSize)
    /\ chan' = [chan EXCEPT ![s] = Append(@, Head(held))]
    /\ targets' = targets \ {s}
    /\ NextRound(targets \ {s})
    /\ UNCHANGED <<hubVars, buffer, writerVars, subs, stopped, wkpc, last, panicked>>

\* One send of the loop over the copy, in the random order of a Go map; a
\* full channel loses the packet.
SendToWorker(s) ==
    /\ Running
    /\ dpc = "sending"
    /\ s \in targets
    /\ s \notin stopped
    /\ chan' = IF HasRoom(chan[s], ChanSize)
               THEN [chan EXCEPT ![s] = Append(@, Head(held))]
               ELSE chan
    /\ targets' = targets \ {s}
    /\ NextRound(targets \ {s})
    /\ UNCHANGED <<hubVars, buffer, writerVars, subs, stopped, wkpc, last, panicked>>

\* The worker was unsubscribed after the copy: its channel is closed.
SendToStoppedWorker(s) ==
    /\ Running
    /\ dpc = "sending"
    /\ s \in targets \cap stopped
    /\ panicked' = "distributor"
    /\ UNCHANGED <<hubVars, buffer, writerVars, distVars, subVars>>

Distribute ==
    \/ Receive
    \/ DistributorReturn
    \/ CopyWorkers
    \/ \E s \in Subscribers : SendToWorker(s) \/ SendToStoppedWorker(s)

----------------------------------------------------------------------------
(* Subscribe, Unsubscribe (each under subMutex) and the worker goroutine.  *)

\* Nothing here looks at `closed` or at the manager's map.
Subscribe(s) ==
    /\ Running
    /\ wkpc[s] = "none"
    /\ subs' = subs \cup {s}
    /\ wkpc' = [wkpc EXCEPT ![s] = "wait"]
    /\ UNCHANGED <<hubVars, buffer, writerVars, distVars, chan, stopped, last, panicked>>

\* Mutant: the worker is taken off the map but neither cancelled nor closed.
ForgetWorker(s) ==
    /\ Running
    /\ s \in subs
    /\ subs' = subs \ {s}
    /\ UNCHANGED <<hubVars, buffer, writerVars, distVars, chan, stopped, wkpc, last, panicked>>

Unsubscribe(s) ==
    /\ Running
    /\ s \in subs
    /\ subs' = subs \ {s}
    /\ stopped' = stopped \cup {s}
    /\ UNCHANGED <<hubVars, buffer, writerVars, distVars, chan, wkpc, last, panicked>>

\* Mutant: the packet stays in the channel while OnPacket runs.
WorkerPeek(s) ==
    /\ Running
    /\ wkpc[s] = "wait"
    /\ chan[s] # <<>>
    /\ last' = [last EXCEPT ![s][Head(chan[s]).w] = Head(chan[s]).n]
    /\ wkpc' = [wkpc EXCEPT ![s] = "onPacket"]
    /\ UNCHANGED <<hubVars, buffer, writerVars, distVars, subs, chan, stopped, panicked>>

\* The select picks either ready case, so a cancelled worker may go on with
\* packets its channel still holds.
WorkerReceive(s) ==
    /\ Running
    /\ wkpc[s] = "wait"
    /\ chan[s] # <<>>
    /\ last' = [last EXCEPT ![s][Head(chan[s]).w] = Head(chan[s]).n]
    /\ chan' = [chan EXCEPT ![s] = Tail(@)]
    /\ wkpc' = [wkpc EXCEPT ![s] = "onPacket"]
    /\ UNCHANGED <<hubVars, buffer, writerVars, distVars, subs, stopped, panicked>>

\* OnPacket returned, with or without an error: both only count or log.
OnPacketReturn(s) ==
    /\ Running
    /\ wkpc[s] = "onPacket"
    /\ wkpc' = [wkpc EXCEPT ![s] = "wait"]
    /\ UNCHANGED <<hubVars, buffer, writerVars, distVars, subs, chan, stopped, last, panicked>>

WorkerReturn(s) ==
    /\ Running
    /\ wkpc[s] = "wait"
    /\ ctxDone \/ s \in stopped
    /\ wkpc' = [wkpc EXCEPT ![s] = "returned"]
    /\ UNCHANGED <<hubVars, buffer, writerVars, distVars, subs, chan, stopped, last, panicked>>

Worker(s) == WorkerReceive(s) \/ OnPacketReturn(s) \/ WorkerReturn(s)

----------------------------------------------------------------------------
Manager == RemoveMark \/ RemoveCloseBuffer \/ CloseCancel \/ CloseBuffer

Next ==
    \/ Manager
    \/ \E w \in Writers : WritePacket(w)
    \/ Distribute
    \/ \E s \in Subscribers : Subscribe(s) \/ Unsubscribe(s) \/ Worker(s)

Spec == Init /\ [][Next]_vars

(* Goroutines are scheduled fairly.  A goroutine in WritePacket goes on;   *)
(* nothing makes one start another call.                                   *)
WriterFairness == \A w \in Writers :
    WF_vars(Writing(w) /\ WritePacket(w))
DistributorFairness == WF_vars(Distribute)
\* OnPacket of a subscriber may take for ever.
WorkerFairness == \A s \in Subscribers : WF_vars(WorkerReceive(s) \/ WorkerReturn(s))

FairSpec == Spec /\ WriterFairness /\ DistributorFairness /\ WorkerFairness
----------------------------------------------------------------------------
(* Properties.                                                             *)

TypeOK ==
    /\ entry \in {"present", "closing", "gone"}
    /\ ctxDone \in BOOLEAN /\ closed \in BOOLEAN /\ bufOpen \in BOOLEAN
    /\ buffer \in Seq(Packet) /\ Len(buffer) <= BufferSize
    /\ wpc \in [Writers -> {"idle", "checked", "full", "dropped", "sending"}]
    /\ seq \in [Writers -> 0..MaxWrites]
    /\ \A w \in Writers : Writing(w) => seq[w] > 0
    /\ dpc \in {"wait", "received", "sending", "returned"}
    /\ held \in Seq(Packet)
    /\ Len(held) = IF dpc \in {"received", "sending"} THEN 1 ELSE 0
    /\ targets \in SUBSET Subscribers /\ (dpc # "sending" => targets = {})
    /\ subs \in SUBSET Subscribers
    /\ chan \in [Subscribers -> Seq(Packet)]
    /\ \A s \in Subscribers : Len(chan[s]) <= ChanSize
    /\ stopped \in SUBSET Subscribers
    /\ wkpc \in [Subscribers -> {"none", "wait", "onPacket", "returned"}]
    /\ last \in [Subscribers -> [Writers -> 0..MaxWrites]]
    /\ panicked \in {"none", "writer", "distributor"}

Precedes(p, q) == p.w = q.w => p.n < q.n
Ordered(q) == \A i, j \in 1..Len(q) : i < j => Precedes(q[i], q[j])
AllPrecede(p, q) == \A i \in 1..Len(p), j \in 1..Len(q) : Precedes(p[i], q[j])
UpTo(q, m) == \A i \in 1..Len(q) : q[i].n <= m[q[i].w]
NewerThan(q, m) == \A i \in 1..Len(q) : m[q[i].w] < q[i].n

\* The newest packet of each writer that can have left WritePacket.
Sent == [w \in Writers |-> IF Writing(w) THEN seq[w] - 1 ELSE seq[w]]

\* The distributor's packet, if it is still to be sent to s.
Due(s) == IF dpc = "received" \/ s \in targets THEN held ELSE <<>>

BufferInOrder ==
    /\ Ordered(buffer) /\ UpTo(buffer, Sent)
    /\ UpTo(held, Sent) /\ AllPrecede(held, buffer)

SubscriberInOrder(s) ==
    /\ Ordered(chan[s]) /\ UpTo(chan[s], Sent)
    /\ AllPrecede(chan[s], Due(s)) /\ AllPrecede(chan[s], buffer)
    /\ NewerThan(chan[s], last[s])
    /\ NewerThan(Due(s), last[s])
    /\ NewerThan(buffer, last[s])
    /\ \A w \in Writers : last[s][w] <= Sent[w]

\* Everything a subscriber was handed, its channel, the distributor's packet
\* and the buffer hold, in this order, strictly increasing numbers of every
\* writer: no packet is duplicated or overtaken on its way, whatever
\* WritePacket drops, whoever subscribes and whenever the stream is closed.
InOrder == BufferInOrder /\ \A s \in Subscribers : SubscriberInOrder(s)

\* OnPacket of a subscriber never gets a packet again, nor one older than the
\* last it got from the same writer (distributePackets and worker.run).
HandedInOrder ==
    [][\A s \in Subscribers, w \in Writers : last[s][w] <= last'[s][w]
                /\ (wkpc[s] = "wait" /\ wkpc'[s] = "onPacket" => last'[s] # last[s])]_vars

\* When neither the buffer nor a channel can fill (BufferSize and ChanSize at
\* least the number of writes), a subscriber misses no packet after its first:
\* packets are lost at full channels only, also while the stream is removed.
Gapless ==
    [][\A s \in Subscribers, w \in Writers :
          last[s][w] > 0 => last'[s][w] \in {last[s][w], last[s][w] + 1}]_vars

\* A stream is a lossy broadcast: subscribers get published packets only, in
\* order, and only once they have joined; after RemoveStream has marked it
\* closed, no call of WritePacket publishes.
Abstract == INSTANCE Broadcast WITH
    open <- ~closed,
    written <- seq,
    joined <- {s \in Subscribers : wkpc[s] # "none"},
    seen <- last
IsBroadcast == Abstract!BroadcastSpec

\* A subscriber that never comes back from OnPacket does not hold up the
\* distributor (the select with default in distributePackets).
DistributorNotBlocked ==
    dpc = "sending" ~> (dpc # "sending" \/ ~Running)

\* WritePacket of a stream with one writer returns, also after Close has
\* ended the distributor: the dropped packet leaves room for its own.
WriteReturns == \A w \in Writers : Writing(w) ~> (~Writing(w) \/ ~Running)

\* The worker of a subscriber that was unsubscribed ends, unless OnPacket never
\* returns (cancel and close of packetChan in Unsubscribe).
StoppedWorkersReturn == \A s \in Subscribers :
    wkpc[s] # "none" /\ s \notin subs ~> ~Running \/ [](wkpc[s] \in {"onPacket", "returned"})

\* The distributor ends after RemoveStream and after Close.
DistributorReturns ==
    (~bufOpen \/ ctxDone) ~> (dpc = "returned" \/ ~Running)

\* Both: no goroutine of a stream outlives what it serves.
StreamGoroutinesEnd == StoppedWorkersReturn /\ DistributorReturns

\* Deleting a stream while packets arrive does not crash the server: no call
\* of WritePacket sends on the buffer RemoveStream has closed.  Shutting down,
\* where Close closes the buffer after cancelling the context, is not meant.
WriterNeverPanics == ~ctxDone => panicked # "writer"
=============================================================================
