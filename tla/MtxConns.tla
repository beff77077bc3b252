------------------------------ MODULE MtxConns ------------------------------
(***************************************************************************)
(* The RTMP and SRT servers of MediaMTX (mediamtx-main/internal/servers):  *)
(* a listener goroutine hands connections to the loop of the server, which *)
(* keeps them in a map and starts a goroutine for each; a connection finds *)
(* its path, reads or publishes until it fails or is cancelled, leaves the *)
(* path, and tells the loop.  The two loops are the same code twice.       *)
(* A behaviour is one of the two servers.  RTMP reads in a second          *)
(* goroutine from the start; SRT asks for the path before it accepts.      *)
(***************************************************************************)
EXTENDS FiniteSets, Naturals

CONSTANT ConClients   \* the connections of each of the two servers

VARIABLES
    conServer,   \* which server, its loop, whether its context is cancelled, the map of connections
    conListener, \* "accepts", the connection it is handing over, "failed", "ended"
    conConn      \* each connection: its goroutine, what it has

ConVars == <<conServer, conListener, conConn>>

ConKinds == {"rtmp", "srt"}
ConIds == ConClients["rtmp"] \cup ConClients["srt"]
ConNone == [pc |-> "none", mode |-> "none", canceled |-> FALSE, attached |-> FALSE,
            sock |-> "none", answers |-> 0]

ConInit ==
    /\ \E k \in ConKinds : conServer = [kind |-> k, loop |-> "runs", canceled |-> FALSE, conns |-> {}]
    /\ conListener = "accepts"
    /\ conConn = [c \in ConIds |-> ConNone]

\* The context of a connection is a child of the one of the server.
ConCanceled(c) == conServer.canceled \/ conConn[c].canceled

\* The goroutines that are counted in the wait group of the server.
ConWorking ==
    {c \in ConIds : conConn[c].pc \notin {"none", "handed", "gone"}}
        \cup (IF conListener = "ended" THEN {} ELSE {"listener"})
        \cup (IF conServer.loop = "runs" THEN {"loop"} ELSE {})

----------------------------------------------------------------------------
(* The listener and the loop.                                              *)

\* listener.runInner accepts a connection and blocks in newConn.
ConAccept(c) ==
    /\ conListener = "accepts" /\ conServer.loop = "runs"
    /\ c \in ConClients[conServer.kind] /\ conConn[c].pc = "none"
    /\ conListener' = "hands"
    /\ conConn' = [conConn EXCEPT ![c].pc = "handed", ![c].sock = "open"]
    /\ UNCHANGED conServer

\* newConn and newConnRequest when the context of the server is cancelled.
ConTurnedAway(conn) == [conn EXCEPT !.pc = "gone", !.sock = "closed", !.answers = 1]

ConHandOver(c) ==
    /\ conListener = "hands" /\ conConn[c].pc = "handed"
    /\ conListener' = "accepts"
    /\ \/ /\ conServer.loop = "runs"
          /\ conConn' = [conConn EXCEPT ![c].pc = "start"]
          /\ conServer' = [conServer EXCEPT !.conns = @ \cup {c}]
       \/ /\ conServer.canceled
          /\ conConn' = [conConn EXCEPT ![c] = ConTurnedAway(@)]
          /\ UNCHANGED conServer

\* Accept fails: the listener was closed, or by itself.
ConAcceptFails ==
    /\ conListener = "accepts" /\ conListener' = "failed"
    /\ UNCHANGED <<conServer, conConn>>

\* acceptError: the loop takes it and stops, and with it the server.
ConStopped(server) == [server EXCEPT !.loop = "stopped", !.canceled = TRUE]
ConAcceptError ==
    /\ conListener = "failed" /\ conListener' = "ended"
    /\ \/ conServer.loop = "runs" /\ conServer' = ConStopped(conServer)
       \/ conServer.canceled /\ UNCHANGED conServer
    /\ UNCHANGED conConn

\* The loop sees that its context is cancelled.
ConLoopStops ==
    /\ conServer.loop = "runs" /\ conServer.canceled
    /\ conServer' = ConStopped(conServer)
    /\ UNCHANGED <<conListener, conConn>>

\* Mutant: a kicked connection is forgotten and goes on.
ConKickedOpen(conn) == conn
ConKicked(conn) == [conn EXCEPT !.canceled = TRUE]
ConKick(c) ==
    /\ conServer.loop = "runs" /\ c \in conServer.conns
    /\ conServer' = [conServer EXCEPT !.conns = @ \ {c}]
    /\ conConn' = [conConn EXCEPT ![c] = ConKicked(@)]
    /\ UNCHANGED conListener

\* Server.Close cancels, then waits for the wait group.
ConClose ==
    /\ ~conServer.canceled
    /\ conServer' = [conServer EXCEPT !.canceled = TRUE]
    /\ UNCHANGED <<conListener, conConn>>
ConCloseReturns ==
    /\ conServer.loop = "stopped" /\ ConWorking = {}
    /\ conServer' = [conServer EXCEPT !.loop = "closed"]
    /\ UNCHANGED <<conListener, conConn>>

\* What a server does for connection c; the files of the two servers say the same.
ConServes(c) == ConAccept(c) \/ ConHandOver(c) \/ ConKick(c)
ConRtmpServes(c) == conServer.kind = "rtmp" /\ ConServes(c)
ConSrtServes(c) == conServer.kind = "srt" /\ ConServes(c)
ConEndsServing == ConAcceptFails \/ ConAcceptError \/ ConLoopStops \/ ConClose \/ ConCloseReturns
ConRtmpEndsServing == conServer.kind = "rtmp" /\ ConEndsServing
ConSrtEndsServing == conServer.kind = "srt" /\ ConEndsServing

----------------------------------------------------------------------------
(* A connection.                                                           *)

ConStep(kind, c, from, new) ==
    /\ conServer.kind = kind /\ conConn[c].pc = from
    /\ conConn' = [conConn EXCEPT ![c] = new]
    /\ UNCHANGED <<conServer, conListener>>

\* RTMP: the handshake tells whether the client publishes; a publisher sends its tracks.
ConRtmpAccepted(c) ==
    \/ ConStep("rtmp", c, "start", [conConn[c] EXCEPT !.pc = "asks", !.mode = "read"])
    \/ ConStep("rtmp", c, "start", [conConn[c] EXCEPT !.pc = "tracks", !.mode = "publish"])
ConRtmpTracks(c) == ConStep("rtmp", c, "tracks", [conConn[c] EXCEPT !.pc = "asks"])

\* AddReader or AddPublisher answers; a reader whose tracks cannot be sent leaves at once.
ConRtmpAnswer(c) ==
    \/ ConStep("rtmp", c, "asks", [conConn[c] EXCEPT !.pc = "serves", !.attached = TRUE])
    \/ /\ conConn[c].mode = "read"
       /\ ConStep("rtmp", c, "asks", [conConn[c] EXCEPT !.pc = "leaves", !.attached = TRUE])
    \/ ConStep("rtmp", c, "asks", [conConn[c] EXCEPT !.pc = "returned"])

\* runInner: it waits for the reader goroutine, having closed the socket if it is cancelled.
ConRtmpCut(c) ==
    /\ conServer.kind = "rtmp" /\ ConCanceled(c) /\ conConn[c].sock = "open"
    /\ conConn[c].pc \in {"start", "tracks", "asks", "serves", "leaves"}
    /\ conConn' = [conConn EXCEPT ![c].sock = "closed"]
    /\ UNCHANGED <<conServer, conListener>>
ConRtmpReturned(c) == conConn[c].pc = "returned"
ConRtmpEnds(c) ==
    /\ conServer.kind = "rtmp" /\ ConRtmpReturned(c)
    /\ conConn' = [conConn EXCEPT ![c].pc = "ends", ![c].sock = "closed", ![c].canceled = TRUE]
    /\ UNCHANGED <<conServer, conListener>>

\* SRT: a request is answered by Accept, which may fail, or Reject.
ConRejected(conn, pc) == [conn EXCEPT !.pc = pc, !.answers = @ + 1, !.sock = "closed"]
ConAccepted(conn, pc) == [conn EXCEPT !.pc = pc, !.answers = @ + 1, !.sock = "accepted"]

ConSrtStreamID(c) ==
    \/ ConStep("srt", c, "start", ConRejected(conConn[c], "returned"))
    \/ ConStep("srt", c, "start", [conConn[c] EXCEPT !.pc = "finds", !.mode = "publish"])
    \/ ConStep("srt", c, "start", [conConn[c] EXCEPT !.pc = "asks", !.mode = "read"])

\* FindPathConf and the passphrase; then the client is let in, and its tracks are read.
ConSrtFound(c) ==
    \/ ConStep("srt", c, "finds", ConRejected(conConn[c], "returned"))
    \/ ConStep("srt", c, "finds", ConAccepted(conConn[c], "tracks"))
    \/ ConStep("srt", c, "finds", [ConAccepted(conConn[c], "returned") EXCEPT !.sock = "closed"])
ConSrtTracks(c) == ConStep("srt", c, "tracks", [conConn[c] EXCEPT !.pc = "asks"])

ConSrtAnswer(c) ==
    LET conn == conConn[c]
        joined == [conn EXCEPT !.attached = TRUE]
    IN  \/ conn.mode = "publish" /\ ConStep("srt", c, "asks", [joined EXCEPT !.pc = "serves"])
        \/ conn.mode = "publish" /\ ConStep("srt", c, "asks", [conn EXCEPT !.pc = "returned"])
        \/ conn.mode = "read" /\ \/ ConStep("srt", c, "asks", ConAccepted(joined, "serves"))
                                 \/ ConStep("srt", c, "asks", ConAccepted(joined, "leaves"))
                                 \/ ConStep("srt", c, "asks", ConRejected(joined, "leaves"))
                                 \/ ConStep("srt", c, "asks", ConRejected(conn, "returned"))

\* The goroutine of a publisher waits for its reader as RTMP does; that of a reader does not
\* look at the context before it is served.
ConSrtCut(c) ==
    /\ conServer.kind = "srt" /\ ConCanceled(c) /\ conConn[c].mode = "publish"
    /\ conConn[c].sock = "accepted"
    /\ conConn' = [conConn EXCEPT ![c].sock = "closed"]
    /\ UNCHANGED <<conServer, conListener>>
ConSrtEnds(c) ==
    ConStep("srt", c, "returned",
            [conConn[c] EXCEPT !.pc = "ends", !.sock = "closed", !.canceled = TRUE])

\* Reading from the socket fails: it was closed, or by itself.
ConReadFails(c) ==
    /\ \/ conConn[c].pc = "start" /\ conServer.kind = "rtmp"
       \/ conConn[c].pc = "tracks"
       \/ conConn[c].pc = "serves" /\ conConn[c].mode = "publish"
    /\ conConn' = [conConn EXCEPT ![c].pc = IF conConn[c].attached THEN "leaves" ELSE "returned"]
    /\ UNCHANGED <<conServer, conListener>>

\* A reader that is served stops when it is cancelled, or on an error of writing.
ConServedEnds(c) ==
    /\ conConn[c].pc = "serves" /\ conConn[c].mode = "read"
    /\ conConn' = [conConn EXCEPT ![c].pc = "leaves"]
    /\ UNCHANGED <<conServer, conListener>>

\* RemoveReader or RemovePublisher, deferred.
ConLeaves(c) ==
    /\ conConn[c].pc = "leaves"
    /\ conConn' = [conConn EXCEPT ![c].pc = "returned", ![c].attached = FALSE]
    /\ UNCHANGED <<conServer, conListener>>

\* Mutant: closeConn waits for the loop only.
ConGivesUpNever == FALSE
\* closeConn: the loop takes it, or the context of the server is cancelled.
ConGivesUp == conServer.canceled
ConTellsLoop(c) ==
    /\ conConn[c].pc = "ends"
    /\ \/ conServer.loop = "runs" /\ conServer' = [conServer EXCEPT !.conns = @ \ {c}]
       \/ ConGivesUp /\ UNCHANGED conServer
    /\ conConn' = [conConn EXCEPT ![c].pc = "gone"]
    /\ UNCHANGED conListener

\* The path closes its publisher and readers when it closes (Author.Close).
ConPathCloses(c) ==
    /\ conConn[c].attached /\ ~conConn[c].canceled
    /\ conConn' = [conConn EXCEPT ![c].canceled = TRUE]
    /\ UNCHANGED <<conServer, conListener>>

ConRtmpMoves(c) == ConRtmpAccepted(c) \/ ConRtmpTracks(c) \/ ConRtmpAnswer(c) \/ ConRtmpCut(c) \/ ConRtmpEnds(c)
ConSrtMoves(c) ==
    ConSrtStreamID(c) \/ ConSrtFound(c) \/ ConSrtTracks(c) \/ ConSrtAnswer(c) \/ ConSrtCut(c) \/ ConSrtEnds(c)

ConNext ==
    \/ ConRtmpEndsServing \/ ConSrtEndsServing
    \/ \E c \in ConIds :
          \/ ConRtmpServes(c) \/ ConSrtServes(c) \/ ConRtmpMoves(c) \/ ConSrtMoves(c)
          \/ ConReadFails(c) \/ ConServedEnds(c) \/ ConLeaves(c) \/ ConTellsLoop(c) \/ ConPathCloses(c)

\* The steps a connection takes by itself: the path manager answers, a closed socket fails.
ConGoesOn(c) ==
    \/ ConHandOver(c) \/ ConRtmpAnswer(c) \/ ConSrtAnswer(c) \/ ConSrtStreamID(c) \/ ConSrtFound(c)
    \/ ConRtmpCut(c) \/ ConSrtCut(c) \/ (conConn[c].sock = "closed" /\ ConReadFails(c))
    \/ ConLeaves(c) \/ ConRtmpEnds(c) \/ ConSrtEnds(c) \/ ConTellsLoop(c)
    \/ (ConCanceled(c) /\ ConServedEnds(c))

\* The loop of the server, and whoever called Close; the listener, once it is closed.
ConLoopGoesOn == ConLoopStops \/ ConAcceptError \/ ConCloseReturns
ConListenerEnds == conServer.loop = "stopped" /\ ConAcceptFails

ConFair ==
    /\ WF_ConVars(ConLoopGoesOn) /\ WF_ConVars(ConListenerEnds)
    /\ \A c \in ConIds : WF_ConVars(ConGoesOn(c))

ConSpec == ConInit /\ [][ConNext]_ConVars /\ ConFair

----------------------------------------------------------------------------
(* Properties.                                                             *)

ConTypeOK ==
    /\ conServer.loop \in {"runs", "stopped", "closed"} /\ conServer.conns \subseteq ConIds
    /\ conListener \in {"accepts", "hands", "failed", "ended"}
    /\ \A c \in ConIds : conConn[c].sock \in {"none", "open", "accepted", "closed"}

\* A connection that is in a path can be found and kicked through the API, or has been
\* told to end: none stays in a path that nobody can remove from it.
ConAttachedIsKnown ==
    \A c \in ConIds : conConn[c].attached => c \in conServer.conns \/ ConCanceled(c)

\* When Close returns nothing is left of the server: no connection is in a path and no
\* goroutine will ask the path manager anything, which the core closes next.
ConClosedIsQuiet ==
    conServer.loop = "closed" =>
       \A c \in ConIds : ~conConn[c].attached /\ conConn[c].pc \in {"none", "gone"}

\* A connection whose goroutine has ended is out of its path.
ConGoneHasLeft == \A c \in ConIds : conConn[c].pc \in {"ends", "gone"} => ~conConn[c].attached

\* A request that is over was accepted or rejected, once, on each of the ways out.
ConSrtAnsweredOnce ==
    conServer.kind = "srt" =>
       \A c \in ConIds : /\ conConn[c].answers <= 1
                         /\ conConn[c].pc \in {"ends", "gone"} => conConn[c].answers = 1

\* All of them: no connection is forgotten in a path, or left without an answer.
ConSessionsLeave == ConAttachedIsKnown /\ ConClosedIsQuiet /\ ConGoneHasLeft /\ ConSrtAnsweredOnce

\* A server that is told to close, or whose listener fails, ends, whatever its connections do.
ConServed == conServer.canceled => conServer.loop = "closed"
ConServerEnds == []<>ConServed
============================================================================
