---------------------------- MODULE MtxPeerConn ----------------------------
(***************************************************************************)
(* A peer connection of MediaMTX (mediamtx-main/internal/protocols/webrtc) *)
(* with its user: a WebRTC session that receives ("publish") or sends      *)
(* ("read") media, or the WHEP client of a static source ("client",        *)
(* mediamtx-main/internal/protocols/whip).  The user goes through the      *)
(* handshake, a second goroutine (the terminator of a session, Initialize  *)
(* of the client) closes the connection, run starts and releases the       *)
(* tracks, and pion calls back from goroutines of its own.                 *)
(*                                                                         *)
(* pion is external: it reports every state change from a new goroutine,   *)
(* so the reports may overtake each other, and GracefulClose waits for the *)
(* callbacks of candidates and tracks.                                     *)
(***************************************************************************)
EXTENDS Naturals, FiniteSets

CONSTANTS
    PcoTracks,       \* media of the description
    PcoMaxChanges    \* bound: state changes of pion before it is closed

ASSUME PcoAssumption == IsFiniteSet(PcoTracks) /\ PcoTracks # {} /\ PcoMaxChanges \in Nat

VARIABLE pco   \* the connection, its user, the goroutine that closes it, and pion

PcoChannels == {"connected", "failed", "closed", "gathered"}

PcoInit ==
    \E role \in {"publish", "read", "client"} :
        pco = [role |-> role, user |-> "answer", closer |-> "watches", asked |-> FALSE,
               canceled |-> FALSE, run |-> "loop", signals |-> [c \in PcoChannels |-> 0],
               state |-> "new", changes |-> 0, reports |-> {}, ice |-> "starts",
               track |-> [t \in PcoTracks |-> "none"], started |-> {}, released |-> {},
               remote |-> "none"]

PcoSeen(c) == pco.signals[c] > 0
PcoGathered == {t \in PcoTracks : pco.track[t] = "taken"}
PcoServer == pco.role # "client"

--------------------------------------------------------------------------
(* pion and the callbacks that Start registers.                            *)

\* The connection changes its state; a goroutine is to report it.
PcoChange(next) ==
    /\ pco.changes < PcoMaxChanges
    /\ <<pco.state, next>> \in {<<"new", "connected">>, <<"new", "failed">>, <<"connected", "disconnected">>,
                                <<"disconnected", "connected">>, <<"disconnected", "failed">>,
                                <<"connected", "closed">>}
    /\ pco' = [pco EXCEPT !.state = next, !.changes = @ + 1, !.reports = @ \cup {<<pco.changes, next>>}]

\* Mutant: "closed" always closes the channel of "failed" as well.
PcoOnClosedBlind(s) == [s EXCEPT !["failed"] = @ + 1, !["closed"] = @ + 1]

\* "closed" can come before "failed", or without it.
PcoOnClosed(s) == [s EXCEPT !["failed"] = 1, !["closed"] = @ + 1]

\* OnConnectionStateChange, under its mutex; after "closed" nothing counts.
PcoTold(s, state) ==
    IF s["closed"] > 0 THEN s
    ELSE IF state = "connected" THEN [s EXCEPT !["connected"] = 1]
    ELSE IF state = "failed" THEN [s EXCEPT !["failed"] = @ + 1]
    ELSE IF state = "closed" THEN PcoOnClosed(s)
    ELSE s

PcoReport(r) ==
    /\ r \in pco.reports
    /\ pco' = [pco EXCEPT !.reports = @ \ {r}, !.signals = PcoTold(@, r[2])]

PcoPionCalls == pco.run \in {"loop", "closing", "graceful"}

\* OnICECandidate is called with a candidate, or with nil when gathering is complete.
PcoCandidate ==
    /\ PcoPionCalls /\ pco.ice = "starts"
    /\ \E next \in {"offers", "last"} : pco' = [pco EXCEPT !.ice = next]

PcoCandidateDropped ==
    /\ pco.ice = "offers" /\ (PcoSeen("connected") \/ pco.canceled)
    /\ pco' = [pco EXCEPT !.ice = "last"]

PcoGatheringDone ==
    /\ PcoPionCalls /\ pco.ice = "last"
    /\ pco' = [pco EXCEPT !.ice = "over", !.signals["gathered"] = @ + 1]

\* OnTrack offers the track to GatherIncomingTracks.
PcoTrack(t) ==
    /\ PcoPionCalls /\ pco.role # "read" /\ pco.state \notin {"new", "closed"} /\ pco.track[t] = "none"
    /\ pco' = [pco EXCEPT !.track[t] = "offered"]

\* The other branch of the select in OnTrack.
PcoOfferEnds == pco.canceled

PcoTrackDropped(t) ==
    /\ pco.track[t] = "offered" /\ PcoOfferEnds
    /\ pco' = [pco EXCEPT !.track[t] = "dropped"]

--------------------------------------------------------------------------
(* Close and run.                                                          *)

\* run leaves its loop and closes the tracks.
PcoRunEnds ==
    /\ pco.run = "loop" /\ pco.canceled
    /\ pco' = [pco EXCEPT !.run = "closing", !.released = PcoGathered]

\* GracefulClose: the state becomes "closed" if it is not, and the callbacks are waited for.
PcoGraceful ==
    /\ pco.run = "closing"
    /\ pco' = [pco EXCEPT !.run = "graceful", !.state = "closed",
                          !.reports = IF pco.state = "closed" THEN @
                                      ELSE @ \cup {<<pco.changes, "closed">>}]

PcoGracefulReturns ==
    /\ pco.run = "graceful" /\ pco.ice # "offers" /\ \A t \in PcoTracks : pco.track[t] # "offered"
    /\ pco' = [pco EXCEPT !.run = "waits"]

\* run also waits for the report of "closed".
PcoRunDone ==
    /\ pco.run = "waits" /\ PcoSeen("closed")
    /\ pco' = [pco EXCEPT !.run = "done"]

\* What the closing goroutine waits for; the client's Initialize watches its context only until
\* the handshake is over, then the source does.
PcoCloserActs ==
    \/ pco.user = "out"
    \/ pco.asked /\ (PcoServer \/ pco.user \in {"answer", "connect", "gather", "ready"})

\* The session's terminator or Initialize calls Close.
PcoCloseStarts ==
    /\ pco.closer = "watches" /\ PcoCloserActs
    /\ pco' = [pco EXCEPT !.closer = "closing", !.canceled = TRUE]

PcoCloseReturned ==
    /\ pco.closer = "closing" /\ pco.run = "done"
    /\ pco' = [pco EXCEPT !.closer = "closed"]

\* The context of the session, or of the source, is cancelled.
PcoCancel == ~pco.asked /\ pco' = [pco EXCEPT !.asked = TRUE]

--------------------------------------------------------------------------
(* The user.                                                               *)

PcoGoes(step) == pco' = [pco EXCEPT !.user = step]

\* The user gives up; the client asks the server to delete the session whose address it knows.
PcoGivesUp(p) == [p EXCEPT !.user = "out", !.remote = IF @ = "open" THEN "deleted" ELSE @]

PcoTakeCandidate ==
    /\ pco.ice = "offers"
    /\ pco.user = (IF PcoServer THEN "answer" ELSE "connect")
    /\ pco' = [pco EXCEPT !.ice = "last"]

\* A PATCH of the client fails.
PcoPatchFails ==
    /\ pco.ice = "offers" /\ pco.user = "connect" /\ ~PcoServer
    /\ pco' = [PcoGivesUp(pco) EXCEPT !.ice = "last"]

\* waitGatheringDone.
PcoAnswerReady == PcoSeen("gathered")

\* CreateFullAnswer, or the client's POST and SetAnswer.
PcoAnswer ==
    /\ pco.user = "answer"
    /\ \/ PcoServer /\ PcoAnswerReady /\ PcoGoes("connect")
       \/ ~PcoServer /\ pco' = [pco EXCEPT !.user = "connect", !.remote = "open"]

\* Where a failing answer leaves the client's session.  It may be made by then and known, or made
\* and "unknown": the answer to the POST is lost or cannot be read, or it has no ETag or no address
\* that parses, and the client returns at once.
PcoRefused == IF PcoServer THEN {"none"} ELSE {"none", "unknown", "open"}

\* The description is refused or the request fails.
PcoAnswerFails ==
    /\ pco.user = "answer"
    /\ \E remote \in PcoRefused : pco' = PcoGivesUp([pco EXCEPT !.remote = remote])

\* The selects of the handshake that look at the context; the client's second wait does not.
PcoGivesUpHere ==
    /\ pco.canceled
    /\ pco.user \in (IF PcoServer THEN {"answer", "connect", "gather"} ELSE {"gather"})

PcoTerminated == PcoGivesUpHere /\ pco' = PcoGivesUp(pco)

\* WaitUntilConnected, or the loop of the client.
PcoConnected ==
    /\ pco.user = "connect" /\ PcoSeen("connected")
    /\ PcoGoes(IF pco.role = "read" THEN "serve" ELSE "gather")

\* The deadline of the handshake.
PcoNotConnected == pco.user = "connect" /\ pco' = PcoGivesUp(pco)

PcoAfterGather == IF PcoServer THEN "attach" ELSE "ready"

\* GatherIncomingTracks.
PcoTakeTrack(t) ==
    /\ pco.user = "gather" /\ pco.track[t] = "offered"
    /\ pco' = [pco EXCEPT !.track[t] = "taken",
                          !.user = IF PcoGathered \cup {t} = PcoTracks THEN PcoAfterGather ELSE @]

PcoGatherDeadline ==
    /\ pco.user = "gather"
    /\ pco' = IF PcoGathered # {} THEN [pco EXCEPT !.user = PcoAfterGather] ELSE PcoGivesUp(pco)

PcoGatherFailed == pco.user = "gather" /\ PcoSeen("failed") /\ pco' = PcoGivesUp(pco)

\* Initialize takes the result, or has been cancelled and drops it without deleting the session.
PcoReady ==
    /\ pco.user = "ready"
    /\ \/ pco.closer = "watches" /\ PcoGoes("attach")
       \/ pco.closer # "watches" /\ PcoGoes("out")

\* ToStream and AddPublisher or SetReady.
PcoAttach ==
    /\ pco.user = "attach"
    /\ pco' \in {[pco EXCEPT !.user = "start"], PcoGivesUp(pco)}

\* StartReading hands over to run.
PcoMayStart == pco.run = "loop"

PcoStart ==
    /\ pco.user = "start"
    /\ \/ PcoMayStart /\ pco' = [pco EXCEPT !.user = "serve", !.started = PcoGathered]
       \/ pco.canceled /\ PcoGoes("serve")

\* The connection fails, or the context of the session or source is cancelled.
PcoServed ==
    /\ pco.user = "serve" /\ (PcoSeen("failed") \/ pco.asked)
    /\ pco' = PcoGivesUp(pco)

\* The stream's reader fails under a session that reads (its queue is full, say).
PcoReaderFails == pco.user = "serve" /\ pco.role = "read" /\ pco' = PcoGivesUp(pco)

\* The user returns once the connection is closed.
PcoGone == pco.user = "out" /\ pco.closer = "closed" /\ PcoGoes("gone")

PcoNext ==
    \/ \E s \in {"connected", "disconnected", "failed", "closed"} : PcoChange(s)
    \/ \E r \in pco.reports : PcoReport(r)
    \/ PcoCandidate \/ PcoCandidateDropped \/ PcoGatheringDone
    \/ \E t \in PcoTracks : PcoTrack(t) \/ PcoTrackDropped(t) \/ PcoTakeTrack(t)
    \/ PcoRunEnds \/ PcoGraceful \/ PcoGracefulReturns \/ PcoRunDone
    \/ PcoCloseStarts \/ PcoCloseReturned \/ PcoCancel
    \/ PcoTakeCandidate \/ PcoPatchFails \/ PcoAnswer \/ PcoAnswerFails \/ PcoTerminated
    \/ PcoConnected \/ PcoNotConnected \/ PcoGatherDeadline \/ PcoGatherFailed
    \/ PcoReady \/ PcoAttach \/ PcoStart \/ PcoServed \/ PcoReaderFails \/ PcoGone

\* pion reports; run goes on; Close goes on; the user goes on and its timers run out.
PcoReports == \E r \in pco.reports : PcoReport(r)
PcoRunGoesOn == PcoRunEnds \/ PcoGraceful \/ PcoGracefulReturns \/ PcoRunDone
PcoCloseGoesOn == PcoCloseStarts \/ PcoCloseReturned
PcoUserGoesOn ==
    \/ ~PcoServer /\ (PcoAnswer \/ PcoAnswerFails)
    \/ PcoNotConnected \/ PcoGatherDeadline \/ PcoReady \/ PcoAttach \/ PcoStart \/ PcoServed \/ PcoGone

\* A callback of a connection that is closed.
PcoDropped == PcoCandidateDropped \/ \E t \in PcoTracks : PcoTrackDropped(t)

\* Goroutines go on; a select that looks at the context takes it at last.
PcoFair ==
    /\ WF_pco(PcoReports) /\ WF_pco(PcoRunGoesOn) /\ WF_pco(PcoCloseGoesOn) /\ WF_pco(PcoUserGoesOn)
    /\ SF_pco(PcoDropped) /\ SF_pco(PcoTerminated)

PcoSpec == PcoInit /\ [][PcoNext]_pco /\ PcoFair

--------------------------------------------------------------------------
(* Properties.                                                             *)

\* The steps of the goroutines and the tracks.
PcoTypeOK ==
    /\ pco.user \in {"answer", "connect", "gather", "ready", "attach", "start", "serve", "out", "gone"}
    /\ pco.closer \in {"watches", "closing", "closed"}
    /\ pco.run \in {"loop", "closing", "graceful", "waits", "done"}
    /\ pco.started \cup pco.released \subseteq PcoTracks

\* No channel is closed twice, in whatever order pion's reports arrive: closing a closed channel
\* would end the process.
PcoNoDoubleClose == \A c \in PcoChannels : pco.signals[c] <= 1

\* Whoever waits for the failure of the connection learns of its end, also when the other peer
\* closes it and "failed" never comes.
PcoEndIsSeen == PcoSeen("closed") => PcoSeen("failed")

\* Once run has released the tracks no track is started that was not released: its receiver and
\* its reports would go on for ever.
PcoTracksReleased == pco.run # "loop" => pco.started \subseteq pco.released

\* A session answers only with all its candidates: there is no later way to send them.
PcoAnswerIsFull == PcoServer /\ pco.user \in {"connect", "gather", "attach", "start", "serve"} => PcoSeen("gathered")

\* A client that was not cancelled asks the server to delete the session it has learned of, wherever
\* its handshake ends.  A session it has not learned of ("unknown") stays on the server, and so
\* does one whose client is cancelled between the handshake and SetReady.
PcoKnownSessionDeleted == pco.user = "gone" /\ ~pco.asked => pco.remote # "open"

\* All of them: channels and tracks end with the connection, once, and so does a known session.
PcoEndsClean ==
    PcoNoDoubleClose /\ PcoEndIsSeen /\ PcoTracksReleased /\ PcoAnswerIsFull /\ PcoKnownSessionDeleted

\* Close returns: no callback, and no track that nobody takes, keeps it.
PcoCloseServed == pco.canceled => pco.run = "done"
PcoCloseEnds == []<>PcoCloseServed

\* A session or source that is cancelled ends, wherever its handshake is.
PcoCancelServed == pco.asked => pco.user = "gone"
PcoCancelEnds == []<>PcoCancelServed
=============================================================================
