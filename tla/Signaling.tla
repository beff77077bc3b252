----------------------------- MODULE Signaling -----------------------------
(***************************************************************************)
(* The WebSocket signaling server of internal/signaling/server.go: for     *)
(* every client a read pump, a write pump and a goroutine for each offer,  *)
(* which answers through the client's send channel.                        *)
(*                                                                         *)
(* unregisterClient closes the send channel, and an offer may be answered  *)
(* after that: sending on a closed channel panics, which ends the program  *)
(* (nothing recovers).  Left out: ICE messages, which are only logged.     *)
(***************************************************************************)
EXTENDS Naturals, FiniteSets

CONSTANTS
    SigClients,      \* connections
    SigCapacity,     \* of a send channel, 256 in the code
    SigMaxOffers     \* bound: offers of one connection

ASSUME SigAssumption == SigCapacity \in Nat \ {0} /\ SigMaxOffers \in Nat

VARIABLES
    sigClients,   \* keys of Server.clients
    sigConn,      \* the socket of each client: "none", "open", "closed"
    sigOpen,      \* clients whose send channel is open
    sigQueue,     \* messages waiting in each send channel
    sigReader,    \* readPump: "none", "reading", "done"
    sigWriter,    \* writePump: "none", "waiting", "writing", "done"
    sigOffers,    \* offers being handled for each client
    sigTaken,     \* offers read from each client
    sigGone,      \* number of onClose calls for each client
    sigDown,      \* Server.Close has run
    sigPanic      \* a send on a closed channel has ended the program

SigVars == <<sigClients, sigConn, sigOpen, sigQueue, sigReader, sigWriter, sigOffers, sigTaken,
             sigGone, sigDown, sigPanic>>

SigInit ==
    /\ sigClients = {} /\ sigOpen = {}
    /\ sigConn = [c \in SigClients |-> "none"]
    /\ sigQueue = [c \in SigClients |-> 0]
    /\ sigReader = [c \in SigClients |-> "none"]
    /\ sigWriter = [c \in SigClients |-> "none"]
    /\ sigOffers = [c \in SigClients |-> 0]
    /\ sigTaken = [c \in SigClients |-> 0]
    /\ sigGone = [c \in SigClients |-> 0]
    /\ sigDown = FALSE /\ sigPanic = FALSE

\* HandleWebSocket: the client is registered and both pumps start.
SigConnect(c) ==
    /\ ~sigPanic /\ sigConn[c] = "none"
    /\ sigConn' = [sigConn EXCEPT ![c] = "open"]
    /\ sigClients' = sigClients \cup {c}
    /\ sigOpen' = sigOpen \cup {c}
    /\ sigReader' = [sigReader EXCEPT ![c] = "reading"]
    /\ sigWriter' = [sigWriter EXCEPT ![c] = "waiting"]
    /\ UNCHANGED <<sigQueue, sigOffers, sigTaken, sigGone, sigDown, sigPanic>>

\* The browser leaves.
SigHangUp(c) ==
    /\ ~sigPanic /\ sigConn[c] = "open"
    /\ sigConn' = [sigConn EXCEPT ![c] = "closed"]
    /\ UNCHANGED <<sigClients, sigOpen, sigQueue, sigReader, sigWriter, sigOffers, sigTaken,
                   sigGone, sigDown, sigPanic>>

\* readPump and handleMessage: an offer gets a goroutine.
SigReadOffer(c) ==
    /\ ~sigPanic
    /\ sigReader[c] = "reading" /\ sigConn[c] = "open" /\ sigTaken[c] < SigMaxOffers
    /\ sigTaken' = [sigTaken EXCEPT ![c] = @ + 1]
    /\ sigOffers' = [sigOffers EXCEPT ![c] = @ + 1]
    /\ UNCHANGED <<sigClients, sigConn, sigOpen, sigQueue, sigReader, sigWriter, sigGone,
                   sigDown, sigPanic>>

\* Mutant: one message more than the channel takes.
SigQueuedBeyond(n) == IF n <= SigCapacity THEN n + 1 ELSE n

\* A message that does not fit is dropped.
SigQueued(n) == IF n < SigCapacity THEN n + 1 ELSE n

\* The answer, or the error, of an offer: the send does not block.
SigAnswer(c) ==
    /\ ~sigPanic
    /\ sigOffers[c] > 0
    /\ sigOffers' = [sigOffers EXCEPT ![c] = @ - 1]
    /\ IF c \in sigOpen
       THEN /\ sigQueue' = [sigQueue EXCEPT ![c] = SigQueued(@)]
            /\ UNCHANGED sigPanic
       ELSE sigPanic' = TRUE /\ UNCHANGED sigQueue
    /\ UNCHANGED <<sigClients, sigConn, sigOpen, sigReader, sigWriter, sigTaken, sigGone, sigDown>>

\* Mutant: the client leaves the map and its channel stays open.
SigUnregisterOpen(c) ==
    /\ sigClients' = sigClients \ {c}
    /\ sigGone' = [sigGone EXCEPT ![c] = @ + (IF c \in sigClients THEN 1 ELSE 0)]
    /\ UNCHANGED sigOpen

\* unregisterClient: nothing for a client that Close has already dropped.
SigUnregister(c) ==
    IF c \in sigClients
    THEN /\ sigClients' = sigClients \ {c}
         /\ sigOpen' = sigOpen \ {c}
         /\ sigGone' = [sigGone EXCEPT ![c] = @ + 1]
    ELSE UNCHANGED <<sigClients, sigOpen, sigGone>>

\* ReadMessage fails, and the deferred calls run.
SigReadEnd(c) ==
    /\ ~sigPanic
    /\ sigReader[c] = "reading" /\ sigConn[c] = "closed"
    /\ sigReader' = [sigReader EXCEPT ![c] = "done"]
    /\ SigUnregister(c)
    /\ UNCHANGED <<sigConn, sigQueue, sigWriter, sigOffers, sigTaken, sigDown, sigPanic>>

\* writePump takes a message; what a closed channel still holds is taken too.
SigTake(c) ==
    /\ ~sigPanic
    /\ sigWriter[c] = "waiting" /\ sigQueue[c] > 0
    /\ sigQueue' = [sigQueue EXCEPT ![c] = @ - 1]
    /\ sigWriter' = [sigWriter EXCEPT ![c] = "writing"]
    /\ UNCHANGED <<sigClients, sigConn, sigOpen, sigReader, sigOffers, sigTaken, sigGone,
                   sigDown, sigPanic>>

\* WriteMessage returns: on an error the pump ends and closes the socket.
SigWrite(c) ==
    /\ ~sigPanic
    /\ sigWriter[c] = "writing"
    /\ sigWriter' = [sigWriter EXCEPT ![c] = IF sigConn[c] = "open" THEN "waiting" ELSE "done"]
    /\ UNCHANGED <<sigClients, sigConn, sigOpen, sigQueue, sigReader, sigOffers, sigTaken,
                   sigGone, sigDown, sigPanic>>

\* The range over an empty, closed channel ends.
SigDrained(c) ==
    /\ ~sigPanic
    /\ sigWriter[c] = "waiting" /\ sigQueue[c] = 0 /\ c \notin sigOpen
    /\ sigWriter' = [sigWriter EXCEPT ![c] = "done"]
    /\ sigConn' = [sigConn EXCEPT ![c] = "closed"]
    /\ UNCHANGED <<sigClients, sigOpen, sigQueue, sigReader, sigOffers, sigTaken, sigGone,
                   sigDown, sigPanic>>

\* Server.Close: sockets are closed and clients dropped, channels are not closed.
SigClose ==
    /\ ~sigPanic /\ ~sigDown
    /\ sigDown' = TRUE
    /\ sigConn' = [c \in SigClients |-> IF c \in sigClients THEN "closed" ELSE sigConn[c]]
    /\ sigClients' = {}
    /\ UNCHANGED <<sigOpen, sigQueue, sigReader, sigWriter, sigOffers, sigTaken, sigGone, sigPanic>>

SigClient(c) ==
    \/ SigConnect(c) \/ SigHangUp(c) \/ SigReadOffer(c) \/ SigAnswer(c) \/ SigReadEnd(c)
    \/ SigTake(c) \/ SigWrite(c) \/ SigDrained(c)

SigNext == SigClose \/ \E c \in SigClients : SigClient(c)

\* Both pumps of a client go on.
SigWriterGoesOn(c) == SigTake(c) \/ SigWrite(c) \/ SigDrained(c)
SigFair == \A c \in SigClients : WF_SigVars(SigReadEnd(c)) /\ WF_SigVars(SigWriterGoesOn(c))

SigSpec == SigInit /\ [][SigNext]_SigVars /\ SigFair

----------------------------------------------------------------------------
(* Properties.                                                             *)

SigTypeOK ==
    /\ sigClients \subseteq SigClients /\ sigOpen \subseteq SigClients
    /\ sigConn \in [SigClients -> {"none", "open", "closed"}]
    /\ sigQueue \in [SigClients -> 0..SigCapacity]
    /\ sigReader \in [SigClients -> {"none", "reading", "done"}]
    /\ sigWriter \in [SigClients -> {"none", "waiting", "writing", "done"}]
    /\ sigOffers \in [SigClients -> Nat] /\ sigTaken \in [SigClients -> Nat]
    /\ sigGone \in [SigClients -> Nat]
    /\ sigDown \in BOOLEAN /\ sigPanic \in BOOLEAN

(* A client in the map has its channel open and its reader running, so     *)
(* only the reader's end, once, can take the channel away from an offer    *)
(* still being answered.                                                   *)
SigRegisteredIsServed ==
    \A c \in sigClients : c \in sigOpen /\ sigReader[c] = "reading" /\ sigGone[c] = 0

(* onClose, which cleans up after a client, is called once at most for it, *)
(* when its channel has been closed.                                       *)
SigGoneOnce ==
    \A c \in SigClients : sigGone[c] <= 1 /\ (sigGone[c] = 1 => c \notin sigOpen)

(* Both goroutines of a client whose socket failed end, unless the program *)
(* does, or Server.Close took the client from the map before its reader    *)
(* could: then nobody closes the channel the writer waits on.              *)
SigPumpsEnd ==
    \A c \in SigClients :
        sigConn[c] = "closed" ~> \/ sigReader[c] = "done" /\ sigWriter[c] = "done"
                                 \/ sigPanic \/ sigDown

(* Both: whoever is connected is served, and what served a client ends.    *)
SigClientsServed == [](SigRegisteredIsServed /\ SigGoneOnce) /\ SigPumpsEnd
=============================================================================
