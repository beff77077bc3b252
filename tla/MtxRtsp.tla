------------------------------ MODULE MtxRtsp -------------------------------
(***************************************************************************)
(* The RTSP server of MediaMTX (mediamtx-main/internal/servers/rtsp).  The *)
(* library gortsplib owns connections and sessions and calls the server    *)
(* back, each session from a goroutine of its own; the library changes the *)
(* state of a session when a callback has answered OK.  The server keeps   *)
(* maps of both, and adds sessions to paths.  The API may kick a session,  *)
(* from a goroutine of its own, under the read lock of the maps.           *)
(*                                                                         *)
(* Requests go on being served for as long as the library has not closed   *)
(* the session, even after Close was called on it.                         *)
(***************************************************************************)
EXTENDS FiniteSets, Naturals

CONSTANTS
    RtsIds,      \* sessions, each on a connection of its own
    RtsKickers   \* requests to kick a session

VARIABLES
    rtsSession,  \* each session: what the library and the server know of it
    rtsServer,   \* whether it runs, the map of sessions, the map of connections, a nil dereference
    rtsKicker    \* each kicker: "none", the session that it has found, "done"

RtsVars == <<rtsSession, rtsServer, rtsKicker>>

\* `kicked' is history.
RtsNew == [lib |-> "none", state |-> "initial", call |-> "none", path |-> FALSE, attached |-> FALSE,
           unread |-> FALSE, disconnect |-> FALSE, kicked |-> FALSE]

RtsInit ==
    /\ rtsSession = [s \in RtsIds |-> RtsNew]
    /\ rtsServer = [up |-> "runs", sessions |-> {}, conns |-> {}, nil |-> FALSE]
    /\ rtsKicker = [k \in RtsKickers |-> "none"]

\* The lock of the maps is free for writers; the process has not ended in a panic.
RtsUnlocked == \A k \in RtsKickers : rtsKicker[k] \in {"none", "done"}
RtsAlive == ~rtsServer.nil

----------------------------------------------------------------------------
(* Connections and sessions open and close.                                *)

\* OnConnOpen; conn.initialize runs the hook of connections.
RtsConnOpen(s) ==
    /\ RtsAlive /\ rtsServer.up = "runs" /\ RtsUnlocked
    /\ rtsSession[s].lib = "none" /\ s \notin rtsServer.conns
    /\ rtsServer' = [rtsServer EXCEPT !.conns = @ \cup {s}]
    /\ rtsSession' = [rtsSession EXCEPT ![s].disconnect = TRUE]
    /\ UNCHANGED rtsKicker

RtsDisconnected(session) == [session EXCEPT !.disconnect = FALSE]

\* OnConnClose; the library has closed the session of the connection.
RtsConnClose(s) ==
    /\ RtsAlive /\ RtsUnlocked
    /\ s \in rtsServer.conns /\ rtsSession[s].lib # "open"
    /\ rtsServer' = [rtsServer EXCEPT !.conns = @ \ {s}]
    /\ rtsSession' = [rtsSession EXCEPT ![s] = RtsDisconnected(@)]
    /\ UNCHANGED rtsKicker

\* OnSessionOpen.
RtsSessionOpen(s) ==
    /\ RtsAlive /\ rtsServer.up = "runs" /\ RtsUnlocked
    /\ s \in rtsServer.conns /\ rtsSession[s].lib = "none"
    /\ rtsSession' = [rtsSession EXCEPT ![s].lib = "open"]
    /\ rtsServer' = [rtsServer EXCEPT !.sessions = @ \cup {s}]
    /\ UNCHANGED rtsKicker

RtsReading == {"preplay", "play"}

\* session.onClose, by state.
RtsOnClosed(session) ==
    [session EXCEPT !.unread = IF session.state = "play" THEN FALSE ELSE @,
                    !.attached = IF session.state \in RtsReading \cup {"record"} THEN FALSE ELSE @,
                    !.path = FALSE]

RtsOnCloseNil(session) == session.state \in RtsReading \cup {"record"} /\ ~session.path

\* OnSessionClose: the library closes the session when no callback is running; a session
\* that is not in the map any more has been kicked.
RtsSessionClose(s) ==
    LET session == rtsSession[s]
        known == s \in rtsServer.sessions
    IN  /\ RtsAlive /\ RtsUnlocked /\ session.lib = "open" /\ session.call = "none"
        /\ rtsSession' = [rtsSession EXCEPT ![s] = [IF known THEN RtsOnClosed(session) ELSE session
                                                    EXCEPT !.lib = "closed"]]
        /\ rtsServer' = [rtsServer EXCEPT !.sessions = @ \ {s}, !.nil = known /\ RtsOnCloseNil(session)]
        /\ UNCHANGED rtsKicker

----------------------------------------------------------------------------
(* Requests.                                                               *)

RtsServed(s, states) ==
    /\ RtsAlive /\ rtsSession[s].lib = "open" /\ rtsSession[s].call = "none"
    /\ rtsSession[s].state \in states
    /\ UNCHANGED rtsKicker

RtsSets(s, new) == rtsSession' = [rtsSession EXCEPT ![s] = new] /\ UNCHANGED rtsServer
RtsPanics == rtsServer' = [rtsServer EXCEPT !.nil = TRUE] /\ UNCHANGED rtsSession

\* onAnnounce: the configuration of the path is found.
RtsAnnounce(s) == RtsServed(s, {"initial"}) /\ RtsSets(s, [rtsSession[s] EXCEPT !.state = "prerecord"])

\* onSetup asks the path manager and waits; then it may be refused.
RtsSetup(s) ==
    RtsServed(s, {"initial", "preplay"}) /\ RtsSets(s, [rtsSession[s] EXCEPT !.call = "setup"])
RtsSetupAnswer(s) ==
    LET session == rtsSession[s]
    IN  /\ RtsAlive /\ session.call = "setup"
        /\ \/ RtsSets(s, [session EXCEPT !.call = "none", !.state = "preplay", !.path = TRUE,
                                         !.attached = TRUE])
           \/ RtsSets(s, [session EXCEPT !.call = "none"])
        /\ UNCHANGED rtsKicker

\* onPlay looks at the path only in the state "preplay".
RtsPlay(s) ==
    /\ RtsServed(s, {"preplay", "play"})
    /\ IF rtsSession[s].state = "preplay" /\ ~rtsSession[s].path THEN RtsPanics
       ELSE RtsSets(s, [rtsSession[s] EXCEPT !.state = "play", !.unread = TRUE])

\* onRecord asks the path manager and waits.
RtsRecord(s) == RtsServed(s, {"prerecord"}) /\ RtsSets(s, [rtsSession[s] EXCEPT !.call = "record"])
RtsRecordAnswer(s) ==
    LET session == rtsSession[s]
    IN  /\ RtsAlive /\ session.call = "record"
        /\ \/ RtsSets(s, [session EXCEPT !.call = "none", !.state = "record", !.path = TRUE,
                                         !.attached = TRUE])
           \/ RtsSets(s, [session EXCEPT !.call = "none"])
        /\ UNCHANGED rtsKicker

\* onPause.
RtsPaused(session) == [session EXCEPT !.state = "preplay", !.unread = FALSE]
RtsPause(s) ==
    \/ RtsServed(s, {"play"}) /\ RtsSets(s, RtsPaused(rtsSession[s]))
    \/ /\ RtsServed(s, {"record"})
       /\ IF ~rtsSession[s].path THEN RtsPanics
          ELSE RtsSets(s, [rtsSession[s] EXCEPT !.state = "prerecord", !.attached = FALSE])

\* The path closes: it lets go of the session and calls Close on it.
RtsPathCloses(s) ==
    /\ RtsAlive /\ rtsSession[s].attached
    /\ RtsSets(s, [rtsSession[s] EXCEPT !.attached = FALSE])
    /\ UNCHANGED rtsKicker

----------------------------------------------------------------------------
(* Kicking and closing.                                                    *)

\* APISessionsKick finds the session; the read lock does not exclude another kick.
RtsKickFinds(k, s) ==
    /\ RtsAlive /\ rtsServer.up = "runs" /\ rtsKicker[k] = "none" /\ s \in rtsServer.sessions
    /\ rtsKicker' = [rtsKicker EXCEPT ![k] = s]
    /\ UNCHANGED <<rtsSession, rtsServer>>

\* It deletes it from the map and calls onClose.
RtsKickEnds(k, s) ==
    LET session == rtsSession[s]
    IN  /\ RtsAlive /\ rtsKicker[k] = s
        /\ rtsKicker' = [rtsKicker EXCEPT ![k] = "done"]
        /\ rtsServer' = [rtsServer EXCEPT !.sessions = @ \ {s}, !.nil = RtsOnCloseNil(session)]
        /\ rtsSession' = [rtsSession EXCEPT
              ![s] = [RtsOnClosed(session) EXCEPT !.kicked = TRUE]]

\* Server.Close, or a failure of the library: it closes everything, then the server has ended.
RtsClose ==
    /\ RtsAlive /\ rtsServer.up = "runs"
    /\ rtsServer' = [rtsServer EXCEPT !.up = "closing"]
    /\ UNCHANGED <<rtsSession, rtsKicker>>
RtsClosed ==
    /\ RtsAlive /\ rtsServer.up = "closing"
    /\ rtsServer.conns = {} /\ \A s \in RtsIds : rtsSession[s].lib # "open"
    /\ rtsServer' = [rtsServer EXCEPT !.up = "closed"]
    /\ UNCHANGED <<rtsSession, rtsKicker>>

RtsNext ==
    \/ RtsClose \/ RtsClosed
    \/ \E s \in RtsIds :
          \/ RtsConnOpen(s) \/ RtsConnClose(s) \/ RtsSessionOpen(s) \/ RtsSessionClose(s)
          \/ RtsAnnounce(s) \/ RtsSetup(s) \/ RtsSetupAnswer(s) \/ RtsPlay(s)
          \/ RtsRecord(s) \/ RtsRecordAnswer(s) \/ RtsPause(s) \/ RtsPathCloses(s)
          \/ \E k \in RtsKickers : RtsKickFinds(k, s) \/ RtsKickEnds(k, s)

RtsSpec == RtsInit /\ [][RtsNext]_RtsVars

----------------------------------------------------------------------------
(* Properties.                                                             *)

RtsTypeOK ==
    /\ \A s \in RtsIds : /\ rtsSession[s].lib \in {"none", "open", "closed"}
                         /\ rtsSession[s].state \in {"initial", "preplay", "play", "prerecord", "record"}
                         /\ rtsSession[s].call \in {"none", "setup", "record"}
    /\ rtsServer.sessions \subseteq RtsIds /\ rtsServer.conns \subseteq RtsIds

\* "Things that need to be released must go in onClose()" (session.go): a session that has
\* closed is not in a path any more, in whichever state it closed.  The exception is a
\* session that was kicked: what it was asking the path manager may be granted after
\* onClose, and then nothing removes it from the path.
RtsClosedHasLeft ==
    \A s \in RtsIds : rtsSession[s].lib = "closed" /\ rtsSession[s].attached => rtsSession[s].kicked

\* The hook of readers runs only while a session plays, whatever the order of requests,
\* pauses and closes; again only a kicked session may leave it running.
RtsHookWhilePlaying ==
    \A s \in RtsIds :
       rtsSession[s].unread => /\ rtsSession[s].state = "play"
                               /\ rtsSession[s].lib = "open" \/ rtsSession[s].kicked

\* A session is used without its path only if one has been kicked.
RtsNilOnlyIfKicked == rtsServer.nil => \E s \in RtsIds : rtsSession[s].kicked

\* When the server has ended no hook of a connection is left running.
RtsClosedIsQuiet ==
    rtsServer.up = "closed" => /\ rtsServer.sessions = {}
                               /\ \A s \in RtsIds : ~rtsSession[s].disconnect

\* All of them: what ends a session also ends what it holds.
RtsSessionsLeave == RtsClosedHasLeft /\ RtsHookWhilePlaying /\ RtsNilOnlyIfKicked /\ RtsClosedIsQuiet
============================================================================
