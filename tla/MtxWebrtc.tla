----------------------------- MODULE MtxWebrtc -----------------------------
(***************************************************************************)
(* The WebRTC server of MediaMTX (mediamtx-main/internal/servers/webrtc).  *)
(* HTTP handlers (WHIP and WHEP) talk to the loop of the server, which     *)
(* keeps the sessions, and then to the goroutine of a session, over        *)
(* unbuffered channels.  A session finds its path, answers the offer,      *)
(* waits for its peer connection, and serves until it fails or is          *)
(* cancelled.  A goroutine of each session takes remote candidates.        *)
(***************************************************************************)
EXTENDS FiniteSets, Naturals

CONSTANTS
    WrtIds,      \* sessions, each with the POST that asks for it
    WrtPatches   \* PATCH requests that bring candidates

VARIABLES
    wrtServer,   \* its loop, whether its context is cancelled, the map of sessions
    wrtSession,  \* each session: its goroutine, its POST, what it has
    wrtPatch     \* each PATCH: where it is, its session, whether a candidate of it is invalid

WrtVars == <<wrtServer, wrtSession, wrtPatch>>

WrtNew == [pc |-> "none", post |-> "none", publish |-> FALSE, canceled |-> FALSE, attached |-> FALSE,
           peer |-> "none", code |-> FALSE, candidates |-> "none"]

WrtInit ==
    /\ wrtServer = [loop |-> "runs", canceled |-> FALSE, sessions |-> {}]
    /\ wrtSession = [s \in WrtIds |-> WrtNew]
    /\ wrtPatch = [p \in WrtPatches |-> [pc |-> "none", session |-> "none", bad |-> FALSE]]

\* The context of a session is a child of the one of the server.
WrtCanceled(s) == wrtServer.canceled \/ wrtSession[s].canceled
WrtRuns(s) == wrtSession[s].pc \notin {"none", "gone"}

WrtMoves(s, from, new) ==
    /\ wrtSession[s].pc = from
    /\ wrtSession' = [wrtSession EXCEPT ![s] = new]
    /\ UNCHANGED <<wrtServer, wrtPatch>>

----------------------------------------------------------------------------
(* The loop of the server, and the handlers that talk to it.               *)

\* onWHIPPost asks for a session.
WrtPost(s) ==
    /\ wrtSession[s].post = "none" /\ wrtServer.loop = "runs"
    /\ \E publish \in BOOLEAN :
          wrtSession' = [wrtSession EXCEPT ![s].post = "server", ![s].publish = publish]
    /\ UNCHANGED <<wrtServer, wrtPatch>>

\* The loop makes the session and starts it, or the server is closing.
WrtNewSession(s) ==
    /\ wrtSession[s].post = "server"
    /\ \/ /\ wrtServer.loop = "runs"
          /\ wrtServer' = [wrtServer EXCEPT !.sessions = @ \cup {s}]
          /\ wrtSession' = [wrtSession EXCEPT ![s].post = "session", ![s].pc = "waits"]
       \/ /\ wrtServer.canceled
          /\ wrtSession' = [wrtSession EXCEPT ![s].post = "failed"]
          /\ UNCHANGED wrtServer
    /\ UNCHANGED wrtPatch

\* session.new: it wakes the session, and the POST waits for its answer; or gives up.
WrtPostGivesUp(s) == WrtCanceled(s)
WrtWake(s) ==
    /\ wrtSession[s].post = "session"
    /\ \/ /\ wrtSession[s].pc = "waits"
          /\ wrtSession' = [wrtSession EXCEPT ![s].post = "waits", ![s].pc = "asks"]
       \/ /\ WrtPostGivesUp(s)
          /\ wrtSession' = [wrtSession EXCEPT ![s].post = "failed"]
    /\ UNCHANGED <<wrtServer, wrtPatch>>

\* onWHIPDelete with the secret of the session, or the API with its identifier.
WrtRemoved(session) == [session EXCEPT !.canceled = TRUE]
WrtDelete(s) ==
    /\ wrtServer.loop = "runs" /\ s \in wrtServer.sessions
    /\ wrtServer' = [wrtServer EXCEPT !.sessions = @ \ {s}]
    /\ wrtSession' = [wrtSession EXCEPT ![s] = WrtRemoved(@)]
    /\ UNCHANGED wrtPatch

\* onWHIPPatch, for a session that has answered its POST: a client knows its secret.
WrtPatchAsks(p, s) ==
    /\ wrtPatch[p].pc = "none" /\ wrtSession[s].post = "answered" /\ wrtServer.loop = "runs"
    /\ \E bad \in BOOLEAN : wrtPatch' = [wrtPatch EXCEPT ![p] = [pc |-> "server", session |-> s, bad |-> bad]]
    /\ UNCHANGED <<wrtServer, wrtSession>>

\* The loop finds the session, or says that it is not there.
WrtPatchFound(p) ==
    /\ wrtPatch[p].pc = "server"
    /\ \/ /\ wrtServer.loop = "runs"
          /\ wrtPatch' = [wrtPatch EXCEPT ![p].pc = IF wrtPatch[p].session \in wrtServer.sessions
                                                   THEN "session" ELSE "failed"]
       \/ wrtServer.canceled /\ wrtPatch' = [wrtPatch EXCEPT ![p].pc = "failed"]
    /\ UNCHANGED <<wrtServer, wrtSession>>

\* readRemoteCandidates takes the candidates.  After one that is invalid it answers with an
\* error, goes on with the others, and then waits for ever for somebody to take a second answer.
WrtTakeCandidates(p) ==
    LET s == wrtPatch[p].session
    IN  /\ wrtPatch[p].pc = "session" /\ wrtSession[s].candidates = "runs"
        /\ wrtPatch' = [wrtPatch EXCEPT ![p].pc = IF wrtPatch[p].bad THEN "failed" ELSE "answered"]
        /\ wrtSession' = IF wrtPatch[p].bad THEN [wrtSession EXCEPT ![s].candidates = "stuck"]
                         ELSE wrtSession
        /\ UNCHANGED wrtServer

\* addCandidates gives up when the session is cancelled; so does readRemoteCandidates.
WrtPatchGivesUp(s) == WrtCanceled(s)
WrtPatchFails(p) ==
    /\ wrtPatch[p].pc = "session" /\ WrtPatchGivesUp(wrtPatch[p].session)
    /\ wrtPatch' = [wrtPatch EXCEPT ![p].pc = "failed"]
    /\ UNCHANGED <<wrtServer, wrtSession>>
WrtCandidatesEnd(s) ==
    /\ wrtSession[s].candidates = "runs" /\ WrtCanceled(s)
    /\ wrtSession' = [wrtSession EXCEPT ![s].candidates = "ended"]
    /\ UNCHANGED <<wrtServer, wrtPatch>>

\* Server.Close; the loop leaves and waits for the goroutines of the sessions.
WrtClose ==
    /\ ~wrtServer.canceled
    /\ wrtServer' = [wrtServer EXCEPT !.canceled = TRUE]
    /\ UNCHANGED <<wrtSession, wrtPatch>>
WrtLoopStops ==
    /\ wrtServer.loop = "runs" /\ wrtServer.canceled
    /\ wrtServer' = [wrtServer EXCEPT !.loop = "stopped"]
    /\ UNCHANGED <<wrtSession, wrtPatch>>
WrtWaits == \A s \in WrtIds : ~WrtRuns(s)
WrtClosed ==
    /\ wrtServer.loop = "stopped" /\ WrtWaits
    /\ wrtServer' = [wrtServer EXCEPT !.loop = "closed"]
    /\ UNCHANGED <<wrtSession, wrtPatch>>

----------------------------------------------------------------------------
(* The goroutine of a session.                                             *)

\* It is cancelled before the POST reaches it.
WrtNeverAsked(s) ==
    /\ WrtCanceled(s)
    /\ WrtMoves(s, "waits", [wrtSession[s] EXCEPT !.pc = "ends", !.canceled = TRUE])

\* A publisher finds the configuration of its path, and a reader is added to its path.
\* Then the peer connection is made; that may fail, after the reader was added.
WrtFound(s) ==
    LET session == wrtSession[s]
        joined == [session EXCEPT !.attached = ~session.publish]
    IN  \/ WrtMoves(s, "asks", [session EXCEPT !.pc = "returned", !.code = TRUE])
        \/ WrtMoves(s, "asks", [joined EXCEPT !.pc = "leaves", !.code = TRUE])
        \/ WrtMoves(s, "asks", [joined EXCEPT !.pc = "offer", !.peer = "open"])

\* The offer is refused, or answered; the POST is waiting for it.
WrtAnswer(s) ==
    \/ WrtMoves(s, "offer", [wrtSession[s] EXCEPT !.pc = "leaves", !.code = TRUE])
    \/ WrtMoves(s, "offer", [wrtSession[s] EXCEPT !.pc = "connects", !.post = "answered",
                                                  !.candidates = "runs"])

\* The terminator goroutine closes the peer connection of a cancelled session.
WrtTerminate(s) ==
    /\ WrtCanceled(s) /\ wrtSession[s].peer = "open"
    /\ wrtSession' = [wrtSession EXCEPT ![s].peer = "closed"]
    /\ UNCHANGED <<wrtServer, wrtPatch>>

\* WaitUntilConnected, and for a publisher its tracks: they fail if the connection is closed,
\* or by themselves.
WrtConnected(s) ==
    /\ wrtSession[s].peer = "open"
    /\ WrtMoves(s, "connects", [wrtSession[s] EXCEPT !.pc = IF wrtSession[s].publish THEN "joins"
                                                            ELSE "serves"])
WrtNotConnected(s) == WrtMoves(s, "connects", [wrtSession[s] EXCEPT !.pc = "leaves"])

\* AddPublisher.
WrtJoined(s) ==
    \/ WrtMoves(s, "joins", [wrtSession[s] EXCEPT !.pc = "serves", !.attached = TRUE])
    \/ WrtMoves(s, "joins", [wrtSession[s] EXCEPT !.pc = "leaves"])

\* The peer connection fails, the reader fails, or the session is cancelled.
WrtServedEnds(s) == WrtMoves(s, "serves", [wrtSession[s] EXCEPT !.pc = "leaves"])

\* The deferred calls: a publisher leaves the path and then closes the connection, a
\* reader the other way round.
WrtUnwind(s) ==
    LET session == wrtSession[s]
    IN  \/ /\ session.attached /\ (session.publish \/ session.peer # "open")
           /\ WrtMoves(s, "leaves", [session EXCEPT !.attached = FALSE])
        \/ /\ session.peer = "open" /\ ~(session.publish /\ session.attached)
           /\ WrtMoves(s, "leaves", [session EXCEPT !.peer = "closed"])
WrtUnwound(session) == ~session.attached /\ session.peer # "open"
WrtReturns(s) ==
    /\ WrtUnwound(wrtSession[s])
    /\ WrtMoves(s, "leaves", [wrtSession[s] EXCEPT !.pc = "returned"])

\* runInner: an error with a status code is the answer to the POST.
WrtReturned(s) ==
    WrtMoves(s, "returned", [wrtSession[s] EXCEPT !.pc = "ends", !.canceled = TRUE,
                                                  !.post = IF wrtSession[s].code THEN "failed" ELSE @])

\* closeSession: the loop takes it, or the server is closing.
WrtEnds(s) ==
    /\ wrtSession[s].pc = "ends"
    /\ \/ wrtServer.loop = "runs" /\ wrtServer' = [wrtServer EXCEPT !.sessions = @ \ {s}]
       \/ wrtServer.canceled /\ UNCHANGED wrtServer
    /\ wrtSession' = [wrtSession EXCEPT ![s].pc = "gone"]
    /\ UNCHANGED wrtPatch

\* The path closes its publisher and its readers when it closes.
WrtPathCloses(s) ==
    /\ wrtSession[s].attached /\ ~wrtSession[s].canceled
    /\ wrtSession' = [wrtSession EXCEPT ![s].canceled = TRUE]
    /\ UNCHANGED <<wrtServer, wrtPatch>>

WrtSessionMoves(s) ==
    \/ WrtNeverAsked(s) \/ WrtFound(s) \/ WrtAnswer(s) \/ WrtNotConnected(s) \/ WrtJoined(s)
    \/ WrtUnwind(s) \/ WrtReturns(s) \/ WrtReturned(s) \/ WrtEnds(s)

WrtNext ==
    \/ WrtClose \/ WrtLoopStops \/ WrtClosed
    \/ \E s \in WrtIds :
          \/ WrtPost(s) \/ WrtNewSession(s) \/ WrtWake(s) \/ WrtDelete(s) \/ WrtCandidatesEnd(s)
          \/ WrtSessionMoves(s) \/ WrtTerminate(s) \/ WrtConnected(s) \/ WrtServedEnds(s) \/ WrtPathCloses(s)
          \/ \E p \in WrtPatches : WrtPatchAsks(p, s)
    \/ \E p \in WrtPatches : WrtPatchFound(p) \/ WrtTakeCandidates(p) \/ WrtPatchFails(p)

\* The goroutines: of the server, of the POST of a session, of the session, and of a PATCH.
\* The path manager answers and connecting has a time limit.
WrtLoopGoesOn == WrtLoopStops \/ WrtClosed
WrtPostGoesOn(s) == WrtNewSession(s) \/ WrtWake(s)
WrtGoesOn(s) == WrtSessionMoves(s) \/ (WrtCanceled(s) /\ WrtServedEnds(s))
WrtPatchGoesOn(p) == WrtPatchFound(p) \/ WrtTakeCandidates(p) \/ WrtPatchFails(p)

WrtFair ==
    /\ WF_WrtVars(WrtLoopGoesOn)
    /\ \A s \in WrtIds : /\ WF_WrtVars(WrtPostGoesOn(s)) /\ WF_WrtVars(WrtGoesOn(s))
                         /\ WF_WrtVars(WrtTerminate(s)) /\ WF_WrtVars(WrtCandidatesEnd(s))
    /\ \A p \in WrtPatches : WF_WrtVars(WrtPatchGoesOn(p))

WrtSpec == WrtInit /\ [][WrtNext]_WrtVars /\ WrtFair

----------------------------------------------------------------------------
(* Properties.                                                             *)

WrtTypeOK ==
    /\ wrtServer.loop \in {"runs", "stopped", "closed"} /\ wrtServer.sessions \subseteq WrtIds
    /\ \A s \in WrtIds : /\ wrtSession[s].post \in {"none", "server", "session", "waits", "answered", "failed"}
                         /\ wrtSession[s].peer \in {"none", "open", "closed"}
                         /\ wrtSession[s].candidates \in {"none", "runs", "stuck", "ended"}

\* A session that is in a path can be found through the API, or has been told to end.
WrtAttachedIsKnown ==
    \A s \in WrtIds : wrtSession[s].attached => s \in wrtServer.sessions \/ WrtCanceled(s)

\* When the server has closed, no session is in a path or has a peer connection open, the
\* deleted ones included.
WrtClosedIsQuiet ==
    wrtServer.loop = "closed" =>
       \A s \in WrtIds : ~wrtSession[s].attached /\ wrtSession[s].peer # "open"

\* A session leaves the map only when it has left its path and closed its connection, on
\* every way out, unless it was deleted.
WrtGoneHasLeft ==
    \A s \in WrtIds : wrtSession[s].pc \in {"returned", "ends", "gone"} =>
                         ~wrtSession[s].attached /\ wrtSession[s].peer # "open"

\* All of them: what ends a session also ends what it holds.
WrtSessionsLeave == WrtAttachedIsKnown /\ WrtClosedIsQuiet /\ WrtGoneHasLeft

\* Every POST is answered: also when the session is deleted or the server closes meanwhile.
WrtPostServed(s) == wrtSession[s].post \notin {"server", "session", "waits"}
WrtPostAnswered == \A s \in WrtIds : []<>WrtPostServed(s)

\* Every PATCH is answered, except that candidates which come after an invalid one wait
\* until the session ends.
WrtPatchServed(p) ==
    \/ wrtPatch[p].pc \in {"none", "answered", "failed"}
    \/ \E s \in WrtIds : /\ wrtPatch[p].session = s /\ ~WrtCanceled(s)
                         /\ wrtSession[s].candidates = "stuck"
WrtPatchAnswered == \A p \in WrtPatches : []<>WrtPatchServed(p)
============================================================================
