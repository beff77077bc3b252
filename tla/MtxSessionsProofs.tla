------------------------- MODULE MtxSessionsProofs --------------------------
(***************************************************************************)
(* Proofs that whatever ends in MediaMTX leaves nothing behind: the        *)
(* connections and sessions of its servers, its static sources and its     *)
(* commands, each for every value of its constants.  At the end the        *)
(* invariants of all parts together give the types of the whole.           *)
(***************************************************************************)
EXTENDS MediaMtxProofs, MtxRecorderProofs, TLAPS

----------------------------------------------------------------------------
(* MtxConns: the RTMP and SRT servers.                                     *)

ConPcs == {"none", "handed", "start", "finds", "tracks", "asks", "serves", "leaves", "returned", "ends", "gone"}
ConModes == {"none", "read", "publish"}
ConSocks == {"none", "open", "accepted", "closed"}
ConRecord ==
    [pc : ConPcs, mode : ConModes, canceled : BOOLEAN, attached : BOOLEAN, sock : ConSocks, answers : Nat]
ConServerRecord ==
    [kind : ConKinds, loop : {"runs", "stopped", "closed"}, canceled : BOOLEAN, conns : SUBSET ConIds]

\* SRT has answered the request of a connection that is past it.
ConAnswered(conn) ==
    \/ conn.pc \in {"tracks", "serves", "leaves", "returned", "ends", "gone"}
    \/ conn.pc = "asks" /\ conn.mode = "publish"

\* A connection is in a path only while it is served or leaves, and the server knows every connection
\* that runs, or has told it to end.
ConFits(c, conn, server, listener) ==
    /\ conn.attached => conn.pc \in {"serves", "leaves"}
    /\ conn.pc \notin {"none", "handed", "gone"} => c \in server.conns \/ server.canceled \/ conn.canceled
    /\ conn.pc = "handed" => listener = "hands"
    /\ server.kind = "srt" => conn.answers = IF ConAnswered(conn) THEN 1 ELSE 0
    /\ conn.mode = "none" => conn.pc \in {"none", "handed", "start", "returned", "ends", "gone"}
    /\ conn.pc \in {"finds", "tracks"} => conn.mode = "publish"
    /\ server.loop = "closed" => conn.pc \in {"none", "gone"}

ConInv ==
    /\ conServer \in ConServerRecord /\ conListener \in {"accepts", "hands", "failed", "ended"}
    /\ conConn \in [ConIds -> ConRecord]
    /\ conServer.loop # "runs" => conServer.canceled
    /\ conServer.loop = "closed" => conListener = "ended"
    /\ \A c \in ConIds : ConFits(c, conConn[c], conServer, conListener)

\* A step of one connection.
LEMMA ConOneConn ==
    ASSUME ConInv, NEW c \in ConIds, NEW new \in ConRecord, conConn' = [conConn EXCEPT ![c] = new],
           conServer' = conServer, conListener' = conListener, ConFits(c, new, conServer, conListener)
    PROVE  ConInv'
<1>1. conConn' \in [ConIds -> ConRecord]
  BY DEF ConInv
<1>2. \A d \in ConIds : ConFits(d, conConn'[d], conServer, conListener)
  BY DEF ConInv
<1> QED
  BY <1>1, <1>2 DEF ConInv

LEMMA ConConnFields ==
    ASSUME ConInv, NEW c \in ConIds
    PROVE  /\ conConn[c] \in ConRecord /\ conConn[c].pc \in ConPcs /\ conConn[c].mode \in ConModes
           /\ conConn[c].canceled \in BOOLEAN /\ conConn[c].attached \in BOOLEAN /\ conConn[c].sock \in ConSocks
           /\ conConn[c].answers \in Nat /\ ConFits(c, conConn[c], conServer, conListener)
<1>1. conConn[c] \in ConRecord /\ ConFits(c, conConn[c], conServer, conListener)
  BY DEF ConInv
<1> QED
  BY <1>1 DEF ConRecord

LEMMA ConRtmpNext ==
    ASSUME ConInv, NEW c \in ConIds, ConRtmpAccepted(c) \/ ConRtmpTracks(c) \/ ConRtmpAnswer(c)
    PROVE  ConInv'
<1> DEFINE conn == conConn[c]
<1>1. conn \in ConRecord /\ conn.attached \in BOOLEAN /\ ConFits(c, conn, conServer, conListener)
  BY ConConnFields
<1>2. PICK new : /\ conServer.kind = "rtmp" /\ conn.pc \in {"start", "tracks", "asks"} /\ ConStep("rtmp", c, conn.pc, new)
                 /\ \/ \E mode \in {"read", "publish"}, pc \in {"asks", "tracks"} :
                          (pc = "tracks" => mode = "publish") /\ new = [conn EXCEPT !.pc = pc, !.mode = mode]
                    \/ conn.mode # "none" /\ new = [conn EXCEPT !.pc = "asks"]
                    \/ conn.mode # "none" /\ \E pc \in {"serves", "leaves"} :
                          new = [conn EXCEPT !.pc = pc, !.attached = TRUE]
                    \/ new = [conn EXCEPT !.pc = "returned"]
  BY <1>1 DEF ConRtmpAccepted, ConRtmpTracks, ConRtmpAnswer, ConStep, ConFits
<1>3. new \in ConRecord /\ ConFits(c, new, conServer, conListener)
  BY <1>1, <1>2 DEF ConRecord, ConPcs, ConModes, ConFits
<1>4. conConn' = [conConn EXCEPT ![c] = new] /\ conServer' = conServer /\ conListener' = conListener
  BY <1>2 DEF ConStep
<1> QED
  BY <1>3, <1>4, ConOneConn

\* What an answer makes of a connection that has none yet.
ConHasAnswer(conn, pc, new) ==
    /\ new \in ConRecord /\ new.pc = pc /\ new.answers = 1 /\ new.mode = conn.mode
    /\ new.attached = conn.attached /\ new.canceled = conn.canceled

LEMMA ConAnswers ==
    ASSUME NEW conn \in ConRecord, NEW pc \in ConPcs, conn.answers = 0
    PROVE  ConHasAnswer(conn, pc, ConRejected(conn, pc)) /\ ConHasAnswer(conn, pc, ConAccepted(conn, pc))
<1>1. ASSUME NEW sock \in ConSocks
      PROVE  ConHasAnswer(conn, pc, [conn EXCEPT !.pc = pc, !.answers = @ + 1, !.sock = sock])
  <2>1. PICK answers \in Nat : answers = conn.answers + 1 /\ answers = 1
    OBVIOUS
  <2> DEFINE new == [conn EXCEPT !.pc = pc, !.answers = answers, !.sock = sock]
  <2>2. [conn EXCEPT !.pc = pc, !.answers = @ + 1, !.sock = sock] = new
    BY <2>1
  <2>3. /\ new \in ConRecord /\ new.pc = pc /\ new.answers = answers /\ new.mode = conn.mode
        /\ new.attached = conn.attached /\ new.canceled = conn.canceled
    BY DEF ConRecord
  <2> HIDE DEF new
  <2>4. ConHasAnswer(conn, pc, new)
    BY <2>1, <2>3 DEF ConHasAnswer
  <2> QED
    BY <2>2, <2>4
<1>2. "closed" \in ConSocks /\ "accepted" \in ConSocks
  BY DEF ConSocks
<1> QED
  BY <1>1, <1>2, Zenon DEF ConRejected, ConAccepted

\* SRT: a step on the way to the path.
LEMMA ConSrtNext ==
    ASSUME ConInv, NEW c \in ConIds, ConSrtStreamID(c) \/ ConSrtFound(c) \/ ConSrtTracks(c) \/ ConSrtAnswer(c)
    PROVE  ConInv'
<1> DEFINE conn == conConn[c]
<1>1. conn \in ConRecord /\ conn.attached \in BOOLEAN /\ conn.answers \in Nat /\ ConFits(c, conn, conServer, conListener)
  BY ConConnFields
<1>2. ASSUME NEW from \in {"start", "finds", "tracks", "asks"}, NEW new, ConStep("srt", c, from, new), new \in ConRecord,
             conn.pc = from => ConFits(c, new, conServer, conListener)
      PROVE  ConInv'
  <2>1. conn.pc = from /\ conConn' = [conConn EXCEPT ![c] = new] /\ conServer' = conServer /\ conListener' = conListener
    BY <1>2 DEF ConStep
  <2> QED
    BY <1>2, <2>1, ConOneConn
<1>3. conServer.kind = "srt"
  BY DEF ConSrtStreamID, ConSrtFound, ConSrtTracks, ConSrtAnswer, ConStep
<1>4. CASE ConSrtStreamID(c)
  <2>1. conn.pc = "start"
    BY <1>4 DEF ConSrtStreamID, ConStep
  <2>2. conn.answers = 0 /\ ~conn.attached
    BY <1>1, <1>3, <2>1 DEF ConFits, ConAnswered
  <2>3. ASSUME NEW new, ConStep("srt", c, "start", new), new = ConRejected(conn, "returned") PROVE ConInv'
    <3>1. new \in ConRecord /\ new.pc = "returned" /\ new.answers = 1 /\ new.attached = conn.attached
          /\ new.canceled = conn.canceled /\ new.mode = conn.mode
      <4>1. "returned" \in ConPcs
        BY DEF ConPcs
      <4>2. ConHasAnswer(conn, "returned", ConRejected(conn, "returned"))
        BY <1>1, <2>2, <4>1, ConAnswers, Zenon
      <4> QED
        BY <2>3, <4>2 DEF ConHasAnswer
    <3>2. ConFits(c, new, conServer, conListener)
      BY <1>1, <2>1, <2>2, <3>1 DEF ConFits, ConAnswered
    <3> QED
      BY <1>2, <2>3, <3>1, <3>2
  <2>4. ASSUME NEW new, ConStep("srt", c, "start", new),
               \E pc \in {"finds", "asks"}, mode \in {"publish", "read"} :
                  new = [conn EXCEPT !.pc = pc, !.mode = mode] /\ (pc = "finds" <=> mode = "publish")
        PROVE  ConInv'
    <3>1. PICK pc \in {"finds", "asks"}, mode \in {"publish", "read"} :
             new = [conn EXCEPT !.pc = pc, !.mode = mode] /\ (pc = "finds" <=> mode = "publish")
      BY <2>4
    <3>2. new \in ConRecord /\ new.pc = pc /\ new.answers = conn.answers /\ new.attached = conn.attached
          /\ new.canceled = conn.canceled /\ new.mode = mode
      BY <1>1, <3>1 DEF ConRecord, ConPcs, ConModes
    <3>3. ConFits(c, new, conServer, conListener)
      BY <1>1, <1>3, <2>1, <2>2, <3>1, <3>2 DEF ConFits, ConAnswered
    <3> QED
      BY <1>2, <2>4, <3>2, <3>3
  <2> QED
    BY <1>4, <2>3, <2>4 DEF ConSrtStreamID
<1>5. CASE ConSrtFound(c)
  <2>1. conn.pc = "finds"
    BY <1>5 DEF ConSrtFound, ConStep
  <2>2. conn.answers = 0 /\ ~conn.attached /\ conn.mode = "publish"
    BY <1>1, <1>3, <2>1 DEF ConFits, ConAnswered
  <2> DEFINE Ends(new) ==
         \/ new = ConRejected(conn, "returned") \/ new = ConAccepted(conn, "tracks")
         \/ new = [ConAccepted(conn, "returned") EXCEPT !.sock = "closed"]
  <2>3. ASSUME NEW new, ConStep("srt", c, "finds", new), Ends(new) PROVE ConInv'
    <3>1. "returned" \in ConPcs /\ "tracks" \in ConPcs
      BY DEF ConPcs
    <3>2. ConHasAnswer(conn, "returned", ConRejected(conn, "returned"))
          /\ ConHasAnswer(conn, "returned", ConAccepted(conn, "returned"))
          /\ ConHasAnswer(conn, "tracks", ConAccepted(conn, "tracks"))
      BY <1>1, <2>2, <3>1, ConAnswers, Zenon
    <3>3. new \in ConRecord /\ new.pc \in {"tracks", "returned"} /\ new.answers = 1 /\ new.attached = conn.attached
          /\ new.canceled = conn.canceled /\ new.mode = conn.mode
      <4>1. CASE new = ConRejected(conn, "returned") \/ new = ConAccepted(conn, "tracks")
        BY <3>2, <4>1 DEF ConHasAnswer
      <4>2. CASE new = [ConAccepted(conn, "returned") EXCEPT !.sock = "closed"]
        <5> DEFINE d == ConAccepted(conn, "returned")
        <5>1. d \in ConRecord /\ d.pc = "returned" /\ d.answers = 1 /\ d.attached = conn.attached
              /\ d.canceled = conn.canceled /\ d.mode = conn.mode
          BY <3>2 DEF ConHasAnswer
        <5> HIDE DEF d
        <5>2. new = [d EXCEPT !.sock = "closed"]
          BY <4>2 DEF d
        <5> QED
          BY <5>1, <5>2 DEF ConRecord, ConSocks
      <4> QED
        BY <2>3, <4>1, <4>2
    <3>4. ConFits(c, new, conServer, conListener)
      BY <1>1, <2>1, <2>2, <3>3 DEF ConFits, ConAnswered
    <3> QED
      BY <1>2, <2>3, <3>3, <3>4
  <2> QED
    BY <1>5, <2>3 DEF ConSrtFound
<1>6. CASE ConSrtTracks(c)
  <2>1. ConStep("srt", c, "tracks", [conn EXCEPT !.pc = "asks"])
    BY <1>6 DEF ConSrtTracks
  <2>2. conn.pc = "tracks" /\ conn.answers = 1 /\ conn.mode = "publish"
    BY <1>1, <1>3, <2>1 DEF ConStep, ConFits, ConAnswered
  <2> DEFINE new == [conn EXCEPT !.pc = "asks"]
  <2>3. new \in ConRecord /\ ConFits(c, new, conServer, conListener)
    BY <1>1, <2>2 DEF ConRecord, ConPcs, ConFits, ConAnswered
  <2> HIDE DEF new
  <2>4. ConStep("srt", c, "tracks", new)
    BY <2>1 DEF new
  <2> QED
    BY <1>2, <2>3, <2>4
<1>7. CASE ConSrtAnswer(c)
  <2>1. conn.pc = "asks" /\ (conn.mode = "publish" \/ conn.mode = "read")
    BY <1>7 DEF ConSrtAnswer, ConStep
  <2>2. CASE conn.mode = "publish"
    <3>1. conn.answers = 1
      BY <1>1, <1>3, <2>1, <2>2 DEF ConFits, ConAnswered
    <3>2. PICK new : /\ ConStep("srt", c, "asks", new)
                     /\ \/ new = [[conn EXCEPT !.attached = TRUE] EXCEPT !.pc = "serves"]
                        \/ new = [conn EXCEPT !.pc = "returned"]
      BY <1>7, <2>2 DEF ConSrtAnswer
    <3>3. new \in ConRecord /\ ConFits(c, new, conServer, conListener)
      BY <1>1, <2>1, <2>2, <3>1, <3>2 DEF ConRecord, ConPcs, ConFits, ConAnswered
    <3> QED
      BY <1>2, <3>2, <3>3
  <2>3. CASE conn.mode = "read"
    <3>1. conn.answers = 0
      BY <1>1, <1>3, <2>1, <2>3 DEF ConFits, ConAnswered
    <3> DEFINE joined == [conn EXCEPT !.attached = TRUE]
    <3>2. joined \in ConRecord /\ joined.answers = 0 /\ joined.mode = "read" /\ joined.canceled = conn.canceled
          /\ ~conn.attached
      BY <1>1, <2>1, <2>3, <3>1 DEF ConRecord, ConFits
    <3>3. PICK from \in {conn, joined}, pc \in {"serves", "leaves", "returned"} :
            /\ pc = "returned" => from = conn
            /\ ConStep("srt", c, "asks", ConAccepted(from, pc)) \/ ConStep("srt", c, "asks", ConRejected(from, pc))
      <4>1. conn.mode # "publish"
        BY <2>3
      <4>2. \/ ConStep("srt", c, "asks", ConAccepted(joined, "serves"))
            \/ ConStep("srt", c, "asks", ConAccepted(joined, "leaves"))
            \/ ConStep("srt", c, "asks", ConRejected(joined, "leaves"))
            \/ ConStep("srt", c, "asks", ConRejected(conn, "returned"))
        BY <1>7, <4>1 DEF ConSrtAnswer
      <4> HIDE DEF joined
      <4> QED
        BY <4>2
    <3> HIDE DEF joined
    <3>4. from \in ConRecord /\ from.answers = 0 /\ from.mode = "read" /\ from.canceled = conn.canceled
          /\ (from.attached => pc # "returned") /\ pc \in ConPcs
      BY <1>1, <2>3, <3>1, <3>2, <3>3 DEF ConPcs
    <3>5. ASSUME NEW new, ConStep("srt", c, "asks", new), ConHasAnswer(from, pc, new) PROVE ConInv'
      <4>1. new \in ConRecord /\ ConFits(c, new, conServer, conListener)
        BY <1>1, <2>1, <3>3, <3>4, <3>5 DEF ConFits, ConAnswered, ConHasAnswer
      <4> QED
        BY <1>2, <3>5, <4>1
    <3>6. ConHasAnswer(from, pc, ConAccepted(from, pc)) /\ ConHasAnswer(from, pc, ConRejected(from, pc))
      BY <3>4, ConAnswers, Zenon
    <3> QED
      BY <3>3, <3>5, <3>6
  <2> QED
    BY <2>1, <2>2, <2>3
<1> QED
  BY <1>4, <1>5, <1>6, <1>7

\* A connection that is cut, fails, leaves its path or ends.
LEMMA ConEndsNext ==
    ASSUME ConInv, NEW c \in ConIds,
           \/ ConRtmpCut(c) \/ ConRtmpEnds(c) \/ ConSrtCut(c) \/ ConSrtEnds(c) \/ ConReadFails(c) \/ ConServedEnds(c)
           \/ ConLeaves(c) \/ ConPathCloses(c)
    PROVE  ConInv'
<1> DEFINE conn == conConn[c]
<1>1. /\ conn \in ConRecord /\ conn.attached \in BOOLEAN /\ conn.answers \in Nat /\ conn.canceled \in BOOLEAN
      /\ ConFits(c, conn, conServer, conListener) /\ conConn \in [ConIds -> ConRecord]
  BY ConConnFields DEF ConInv
<1>2. conServer' = conServer /\ conListener' = conListener
  BY DEF ConRtmpCut, ConRtmpEnds, ConSrtCut, ConSrtEnds, ConReadFails, ConServedEnds, ConLeaves, ConPathCloses, ConStep
<1>3. CASE ConRtmpCut(c) \/ ConSrtCut(c)
  <2> DEFINE new == [conn EXCEPT !.sock = "closed"]
  <2>1. conConn' = [conConn EXCEPT ![c] = new]
    BY <1>1, <1>3 DEF ConRtmpCut, ConSrtCut
  <2>2. new \in ConRecord /\ ConFits(c, new, conServer, conListener)
    BY <1>1 DEF ConRecord, ConSocks, ConFits, ConAnswered
  <2> HIDE DEF new
  <2> QED
    BY <1>2, <2>1, <2>2, ConOneConn
<1>4. CASE ConRtmpEnds(c) \/ ConSrtEnds(c)
  <2> DEFINE new == [conn EXCEPT !.pc = "ends", !.sock = "closed", !.canceled = TRUE]
  <2>1. conConn' = [conConn EXCEPT ![c] = new]
    <3>1. CASE ConSrtEnds(c)
      BY <3>1 DEF ConSrtEnds, ConStep
    <3>2. CASE ConRtmpEnds(c)
      BY <1>1, <3>2, Zenon DEF ConRtmpEnds
    <3> QED
      BY <1>4, <3>1, <3>2
  <2>2. conn.pc = "returned"
    BY <1>4 DEF ConRtmpEnds, ConRtmpReturned, ConSrtEnds, ConStep
  <2>3. new \in ConRecord /\ ConFits(c, new, conServer, conListener)
    BY <1>1, <2>2 DEF ConRecord, ConPcs, ConSocks, ConFits, ConAnswered
  <2> HIDE DEF new
  <2> QED
    BY <1>2, <2>1, <2>3, ConOneConn
<1>5. CASE ConReadFails(c) \/ ConServedEnds(c)
  <2>1. PICK pc \in {"leaves", "returned"} :
           conConn' = [conConn EXCEPT ![c].pc = pc] /\ (pc = "leaves" => conn.attached \/ conn.pc = "serves")
           /\ (pc = "returned" => ~conn.attached) /\ conn.pc \in {"start", "tracks", "serves"}
           /\ (conn.pc = "start" => conServer.kind = "rtmp")
    BY <1>1, <1>5 DEF ConReadFails, ConServedEnds
  <2> DEFINE new == [conn EXCEPT !.pc = pc]
  <2>2. conConn' = [conConn EXCEPT ![c] = new]
    BY <1>1, <2>1
  <2>3. new \in ConRecord /\ ConFits(c, new, conServer, conListener)
    BY <1>1, <2>1 DEF ConRecord, ConPcs, ConFits, ConAnswered
  <2> HIDE DEF new
  <2> QED
    BY <1>2, <2>2, <2>3, ConOneConn
<1>6. CASE ConLeaves(c)
  <2> DEFINE new == [conn EXCEPT !.pc = "returned", !.attached = FALSE]
  <2>1. conConn' = [conConn EXCEPT ![c] = new] /\ conn.pc = "leaves"
    BY <1>1, <1>6 DEF ConLeaves
  <2>2. new \in ConRecord /\ ConFits(c, new, conServer, conListener)
    BY <1>1, <2>1 DEF ConRecord, ConPcs, ConFits, ConAnswered
  <2> HIDE DEF new
  <2> QED
    BY <1>2, <2>1, <2>2, ConOneConn
<1>7. CASE ConPathCloses(c)
  <2> DEFINE new == [conn EXCEPT !.canceled = TRUE]
  <2>1. conConn' = [conConn EXCEPT ![c] = new]
    BY <1>1, <1>7 DEF ConPathCloses
  <2>2. new \in ConRecord /\ ConFits(c, new, conServer, conListener)
    BY <1>1 DEF ConRecord, ConFits, ConAnswered
  <2> HIDE DEF new
  <2> QED
    BY <1>2, <2>1, <2>2, ConOneConn
<1> QED
  BY <1>3, <1>4, <1>5, <1>6, <1>7

\* A step of the listener, the loop or Close that no connection sees, but for what its context says.
LEMMA ConServerStep ==
    ASSUME ConInv, NEW server \in ConServerRecord, conServer' = server, conConn' = conConn,
           conListener' \in {"accepts", "hands", "failed", "ended"}, server.kind = conServer.kind,
           server.conns = conServer.conns,
           conServer.canceled => server.canceled, server.loop # "runs" => server.canceled,
           conListener = "hands" => conListener' = "hands",
           server.loop = "closed" => /\ conListener' = "ended"
                                     /\ \A c \in ConIds : conConn[c].pc \in {"none", "gone"}
    PROVE  ConInv'
<1>1. ASSUME NEW c \in ConIds PROVE ConFits(c, conConn[c], server, conListener')
  <2>1. ConFits(c, conConn[c], conServer, conListener)
    BY DEF ConInv
  <2> QED
    BY <2>1 DEF ConFits
<1>2. conListener' = conListener' /\ conConn' \in [ConIds -> ConRecord]
  BY DEF ConInv
<1> QED
  BY <1>1, <1>2 DEF ConInv

LEMMA ConEndsServingNext ==
    ASSUME ConInv, ConEndsServing PROVE ConInv'
<1>1. /\ conServer \in ConServerRecord /\ conServer.canceled \in BOOLEAN /\ (conServer.loop # "runs" => conServer.canceled)
      /\ (conServer.loop = "closed" => conListener = "ended")
      /\ \A c \in ConIds : ConFits(c, conConn[c], conServer, conListener)
  BY DEF ConInv, ConServerRecord
<1>2. conServer.loop = "closed" => \A c \in ConIds : conConn[c].pc \in {"none", "gone"}
  BY <1>1 DEF ConFits
<1>3. CASE ConAcceptFails
  <2>1. conListener = "accepts" /\ conListener' = "failed" /\ conServer' = conServer /\ conConn' = conConn
    BY <1>3 DEF ConAcceptFails
  <2> QED
    BY <1>1, <1>2, <2>1, ConServerStep
<1>4. ASSUME NEW server, server = [conServer EXCEPT !.loop = "stopped", !.canceled = TRUE], conServer.loop = "runs",
             conServer' = server, conConn' = conConn, conListener' \in {"accepts", "hands", "failed", "ended"},
             conListener = "hands" => conListener' = "hands"
      PROVE  ConInv'
  <2>1. server \in ConServerRecord /\ server.canceled /\ server.kind = conServer.kind /\ server.conns = conServer.conns
        /\ server.loop = "stopped"
    BY <1>1, <1>4 DEF ConServerRecord
  <2> QED
    BY <1>4, <2>1, ConServerStep
<1>5. CASE ConAcceptError
  <2>1. conListener = "failed" /\ conListener' = "ended" /\ conConn' = conConn
    BY <1>5 DEF ConAcceptError
  <2>2. CASE conServer.loop = "runs" /\ conServer' = ConStopped(conServer)
    BY <1>4, <2>1, <2>2 DEF ConStopped
  <2>3. CASE conServer' = conServer
    BY <1>1, <1>2, <2>1, <2>3, ConServerStep
  <2> QED
    BY <1>5, <2>2, <2>3 DEF ConAcceptError
<1>6. CASE ConLoopStops
  <2>1. conServer.loop = "runs" /\ conServer' = ConStopped(conServer) /\ conListener' = conListener /\ conConn' = conConn
    BY <1>6 DEF ConLoopStops
  <2> QED
    BY <1>4, <2>1 DEF ConStopped, ConInv
<1>7. CASE ConClose
  <2> DEFINE server == [conServer EXCEPT !.canceled = TRUE]
  <2>1. conServer' = server /\ conListener' = conListener /\ conConn' = conConn
    BY <1>7 DEF ConClose
  <2>2. server \in ConServerRecord /\ server.canceled /\ server.kind = conServer.kind /\ server.conns = conServer.conns
        /\ server.loop = conServer.loop
    BY <1>1 DEF ConServerRecord
  <2> HIDE DEF server
  <2> QED
    BY <1>1, <1>2, <2>1, <2>2, ConServerStep DEF ConInv
<1>8. CASE ConCloseReturns
  <2> DEFINE server == [conServer EXCEPT !.loop = "closed"]
  <2>1. conServer' = server /\ conListener' = conListener /\ conConn' = conConn /\ conServer.loop = "stopped"
        /\ ConWorking = {}
    BY <1>8 DEF ConCloseReturns
  <2>2. server \in ConServerRecord /\ server.canceled = conServer.canceled /\ server.kind = conServer.kind
        /\ server.conns = conServer.conns
    BY <1>1 DEF ConServerRecord
  <2>3. conListener = "ended" /\ \A c \in ConIds : conConn[c].pc \in {"none", "handed", "gone"}
    BY <2>1 DEF ConWorking
  <2>4. \A c \in ConIds : conConn[c].pc \in {"none", "gone"}
    BY <1>1, <2>3 DEF ConFits
  <2> HIDE DEF server
  <2> QED
    BY <1>1, <2>1, <2>2, <2>3, <2>4, ConServerStep DEF ConInv
<1> QED
  BY <1>3, <1>5, <1>6, <1>7, <1>8 DEF ConEndsServing

\* The listener hands over one connection at a time.
ConHandsOne == \A c, d \in ConIds : conConn[c].pc = "handed" /\ conConn[d].pc = "handed" => c = d

\* A step that hands no new connection over keeps it.
LEMMA ConHandsNoMore ==
    ASSUME ConHandsOne, \A c \in ConIds : conConn'[c].pc = "handed" => conConn[c].pc = "handed"
    PROVE  ConHandsOne'
  BY DEF ConHandsOne

\* A step that the server and one connection take together: the connection is handed over, kicked or
\* forgotten.
LEMMA ConServedStep ==
    ASSUME ConInv, NEW c \in ConIds, NEW new \in ConRecord, NEW server \in ConServerRecord,
           conServer' = server, conConn' = [conConn EXCEPT ![c] = new],
           server.loop = conServer.loop, server.canceled = conServer.canceled, server.kind = conServer.kind,
           \A d \in ConIds \ {c} : d \in conServer.conns => d \in server.conns,
           conListener' \in {"accepts", "hands", "failed", "ended"}, conServer.loop = "closed" => conListener' = "ended",
           conListener' # "hands" => \A d \in ConIds \ {c} : conConn[d].pc # "handed",
           ConFits(c, new, server, conListener')
    PROVE  ConInv'
<1>1. conConn \in [ConIds -> ConRecord] /\ (conServer.loop # "runs" => conServer.canceled)
  BY DEF ConInv
<1>2. conConn' \in [ConIds -> ConRecord]
  BY <1>1
<1>3. ASSUME NEW d \in ConIds \ {c} PROVE ConFits(d, conConn[d], server, conListener')
  <2>1. ConFits(d, conConn[d], conServer, conListener)
    BY DEF ConInv
  <2> QED
    BY <2>1 DEF ConFits
<1>4. \A d \in ConIds : ConFits(d, conConn'[d], server, conListener')
  BY <1>1, <1>3
<1> QED
  BY <1>1, <1>2, <1>4 DEF ConInv

LEMMA ConServesNext ==
    ASSUME ConInv, ConHandsOne, NEW c \in ConIds, ConServes(c) \/ ConTellsLoop(c)
    PROVE  ConInv'
<1> DEFINE conn == conConn[c]
<1>1. /\ conn \in ConRecord /\ conn.attached \in BOOLEAN /\ conn.answers \in Nat /\ conn.canceled \in BOOLEAN
      /\ ConFits(c, conn, conServer, conListener) /\ conConn \in [ConIds -> ConRecord]
      /\ conServer \in ConServerRecord /\ (conServer.loop # "runs" => conServer.canceled)
      /\ conListener \in {"accepts", "hands", "failed", "ended"} /\ (conServer.loop = "closed" => conListener = "ended")
  BY ConConnFields DEF ConInv
<1>2. ASSUME NEW conns \in SUBSET ConIds
      PROVE  LET server == [conServer EXCEPT !.conns = conns]
             IN  /\ server \in ConServerRecord /\ server.loop = conServer.loop /\ server.canceled = conServer.canceled
                 /\ server.kind = conServer.kind /\ server.conns = conns
  BY <1>1 DEF ConServerRecord
<1>3. conServer.conns \in SUBSET ConIds
  BY <1>1 DEF ConServerRecord
<1>4. CASE ConAccept(c)
  <2> DEFINE new == [conn EXCEPT !.pc = "handed", !.sock = "open"]
  <2>1. /\ conConn' = [conConn EXCEPT ![c] = new] /\ conServer' = conServer /\ conListener' = "hands"
        /\ conServer.loop = "runs" /\ conn.pc = "none"
    BY <1>1, <1>4 DEF ConAccept
  <2>2. new \in ConRecord /\ ConFits(c, new, conServer, "hands")
    BY <1>1, <2>1 DEF ConRecord, ConPcs, ConSocks, ConFits, ConAnswered
  <2> HIDE DEF new
  <2> QED
    BY <1>1, <2>1, <2>2, ConServedStep
<1>5. CASE ConHandOver(c)
  <2>1. conListener = "hands" /\ conn.pc = "handed" /\ conListener' = "accepts"
    BY <1>5 DEF ConHandOver
  <2>2. \A d \in ConIds \ {c} : conConn[d].pc # "handed"
    BY <2>1 DEF ConHandsOne
  <2>3. CASE /\ conServer.loop = "runs" /\ conConn' = [conConn EXCEPT ![c].pc = "start"]
             /\ conServer' = [conServer EXCEPT !.conns = @ \cup {c}]
    <3> DEFINE new == [conn EXCEPT !.pc = "start"]
               server == [conServer EXCEPT !.conns = conServer.conns \cup {c}]
    <3>1. conConn' = [conConn EXCEPT ![c] = new] /\ conServer' = server
      BY <1>1, <2>3
    <3>2. /\ server \in ConServerRecord /\ server.loop = conServer.loop /\ server.canceled = conServer.canceled
          /\ server.kind = conServer.kind /\ server.conns = conServer.conns \cup {c}
      BY <1>2, <1>3
    <3> HIDE DEF server
    <3>3. new \in ConRecord /\ ConFits(c, new, server, "accepts")
      BY <1>1, <2>1, <2>3, <3>2 DEF ConRecord, ConPcs, ConFits, ConAnswered
    <3> HIDE DEF new
    <3> QED
      BY <1>1, <2>1, <2>2, <2>3, <3>1, <3>2, <3>3, ConServedStep
  <2>4. CASE conServer.canceled /\ conConn' = [conConn EXCEPT ![c] = ConTurnedAway(@)] /\ conServer' = conServer
    <3> DEFINE new == [conn EXCEPT !.pc = "gone", !.sock = "closed", !.answers = 1]
    <3>1. conConn' = [conConn EXCEPT ![c] = new] /\ conServer' = conServer
      BY <1>1, <2>4 DEF ConTurnedAway
    <3>2. new \in ConRecord /\ ConFits(c, new, conServer, "accepts")
      BY <1>1, <2>1 DEF ConRecord, ConPcs, ConSocks, ConFits, ConAnswered
    <3>3. conServer.loop # "closed"
      BY <1>1, <2>1
    <3> HIDE DEF new
    <3> QED
      BY <1>1, <2>1, <2>2, <3>1, <3>2, <3>3, ConServedStep
  <2> QED
    BY <1>5, <2>3, <2>4 DEF ConHandOver
<1>6. CASE ConKick(c)
  <2> DEFINE new == [conn EXCEPT !.canceled = TRUE]
             server == [conServer EXCEPT !.conns = conServer.conns \ {c}]
  <2>1. conConn' = [conConn EXCEPT ![c] = new] /\ conServer' = server /\ conListener' = conListener
        /\ conServer.loop = "runs"
    BY <1>1, <1>6 DEF ConKick, ConKicked
  <2>2. /\ server \in ConServerRecord /\ server.loop = conServer.loop /\ server.canceled = conServer.canceled
        /\ server.kind = conServer.kind /\ server.conns = conServer.conns \ {c}
    BY <1>2, <1>3
  <2> HIDE DEF server
  <2>3. new \in ConRecord /\ ConFits(c, new, server, conListener)
    BY <1>1, <2>1, <2>2 DEF ConRecord, ConFits, ConAnswered
  <2>4. conListener # "hands" => \A d \in ConIds \ {c} : conConn[d].pc # "handed"
    BY DEF ConInv, ConFits
  <2> HIDE DEF new
  <2> QED
    BY <1>1, <2>1, <2>2, <2>3, <2>4, ConServedStep
<1>7. CASE ConTellsLoop(c)
  <2> DEFINE new == [conn EXCEPT !.pc = "gone"]
  <2>1. conConn' = [conConn EXCEPT ![c] = new] /\ conn.pc = "ends" /\ conListener' = conListener
    BY <1>1, <1>7 DEF ConTellsLoop
  <2>2. PICK conns \in SUBSET ConIds :
           conServer' = [conServer EXCEPT !.conns = conns] /\ \A d \in ConIds \ {c} : d \in conServer.conns => d \in conns
    <3>1. CASE conServer' = [conServer EXCEPT !.conns = conServer.conns \ {c}]
      BY <1>3, <3>1
    <3>2. CASE conServer' = conServer
      BY <1>1, <1>3, <3>2 DEF ConServerRecord
    <3> QED
      BY <1>7, <3>1, <3>2 DEF ConTellsLoop
  <2> DEFINE server == [conServer EXCEPT !.conns = conns]
  <2>3. /\ server \in ConServerRecord /\ server.loop = conServer.loop /\ server.canceled = conServer.canceled
        /\ server.kind = conServer.kind /\ server.conns = conns /\ conServer' = server
    BY <1>2, <2>2
  <2> HIDE DEF server
  <2>4. new \in ConRecord /\ ConFits(c, new, server, conListener)
    BY <1>1, <2>1, <2>3 DEF ConRecord, ConPcs, ConFits, ConAnswered
  <2>5. conListener # "hands" => \A d \in ConIds \ {c} : conConn[d].pc # "handed"
    BY DEF ConInv, ConFits
  <2> HIDE DEF new
  <2> QED
    BY <1>1, <2>1, <2>2, <2>3, <2>4, <2>5, ConServedStep
<1> QED
  BY <1>4, <1>5, <1>6, <1>7 DEF ConServes

LEMMA ConHandsOneNext ==
    ASSUME ConInv, ConHandsOne, [ConNext]_ConVars
    PROVE  ConHandsOne'
<1>1. conConn \in [ConIds -> ConRecord] /\ \A c \in ConIds : ConFits(c, conConn[c], conServer, conListener)
  BY DEF ConInv
<1>2. ASSUME NEW c \in ConIds, ConAccept(c) PROVE ConHandsOne'
  <2>1. conListener = "accepts" /\ conConn' = [conConn EXCEPT ![c].pc = "handed", ![c].sock = "open"]
    BY <1>2 DEF ConAccept
  <2>2. \A d \in ConIds : conConn[d].pc # "handed"
    BY <1>1, <2>1 DEF ConFits
  <2>3. \A d \in ConIds : d # c => conConn'[d].pc # "handed"
    BY <1>1, <2>1, <2>2
  <2> QED
    BY <2>3 DEF ConHandsOne
<1>3. ASSUME NEW c \in ConIds, NEW new, conConn' = [conConn EXCEPT ![c] = new], new.pc # "handed" \/ new.pc = conConn[c].pc
      PROVE  ConHandsOne'
  <2>1. \A d \in ConIds : conConn'[d].pc = "handed" => conConn[d].pc = "handed"
    BY <1>1, <1>3
  <2> QED
    BY <2>1, ConHandsNoMore
<1>4. ASSUME conConn' = conConn PROVE ConHandsOne'
  BY <1>4 DEF ConHandsOne
<1>5. CASE ConEndsServing \/ UNCHANGED ConVars
  BY <1>4, <1>5 DEF ConEndsServing, ConAcceptFails, ConAcceptError, ConLoopStops, ConClose, ConCloseReturns, ConVars
<1>6. ASSUME NEW c \in ConIds, ConHandOver(c) \/ ConKick(c) \/ ConTellsLoop(c) PROVE ConHandsOne'
  <2>1. conConn[c] \in ConRecord
    BY <1>1
  <2>2. PICK new : conConn' = [conConn EXCEPT ![c] = new] /\ (new.pc # "handed" \/ new.pc = conConn[c].pc)
    BY <1>1, <1>6, <2>1 DEF ConHandOver, ConKick, ConTellsLoop, ConTurnedAway, ConKicked, ConRecord
  <2> QED
    BY <1>3, <2>2
<1>7. ASSUME NEW c \in ConIds, NEW kind, NEW from, NEW new, ConStep(kind, c, from, new), new.pc # "handed"
      PROVE  ConHandsOne'
  BY <1>3, <1>7 DEF ConStep
<1>8. ASSUME NEW c \in ConIds, ConRtmpMoves(c) \/ ConSrtMoves(c) PROVE ConHandsOne'
  <2>1. conConn[c] \in ConRecord
    BY <1>1
  <2>2. CASE ConRtmpAccepted(c) \/ ConRtmpTracks(c) \/ ConRtmpAnswer(c)
    <3>1. \A pc \in ConPcs, mode \in ConModes :
             /\ [conConn[c] EXCEPT !.pc = pc].pc = pc /\ [conConn[c] EXCEPT !.pc = pc, !.mode = mode].pc = pc
             /\ [conConn[c] EXCEPT !.pc = pc, !.attached = TRUE].pc = pc
      BY <2>1 DEF ConRecord
    <3>2. {"asks", "tracks", "serves", "leaves", "returned"} \subseteq ConPcs /\ {"publish", "read"} \subseteq ConModes
      BY DEF ConPcs, ConModes
    <3> QED
      BY <1>7, <2>2, <3>1, <3>2, ZenonT(40) DEF ConRtmpAccepted, ConRtmpTracks, ConRtmpAnswer
  <2>3. CASE ConRtmpCut(c) \/ ConSrtCut(c)
    <3>1. conConn' = [conConn EXCEPT ![c] = [conConn[c] EXCEPT !.sock = "closed"]]
      BY <1>1, <2>3 DEF ConRtmpCut, ConSrtCut
    <3> QED
      BY <1>3, <2>1, <3>1 DEF ConRecord
  <2>4. CASE ConRtmpEnds(c)
    <3>1. conConn' = [conConn EXCEPT ![c].pc = "ends", ![c].sock = "closed", ![c].canceled = TRUE]
      BY <2>4 DEF ConRtmpEnds
    <3>2. conConn' = [conConn EXCEPT ![c] = [conConn[c] EXCEPT !.pc = "ends", !.sock = "closed", !.canceled = TRUE]]
      BY <1>1, <3>1, Zenon
    <3> QED
      BY <1>3, <2>1, <3>2 DEF ConRecord
  <2>5. CASE ConSrtMoves(c) /\ ~ConSrtCut(c)
    <3> DEFINE joined == [conConn[c] EXCEPT !.attached = TRUE]
    <3>1. joined \in ConRecord
      BY <2>1 DEF ConRecord
    <3>2. ASSUME NEW conn \in ConRecord, NEW pc \in ConPcs
          PROVE  /\ ConRejected(conn, pc).pc = pc /\ ConAccepted(conn, pc).pc = pc /\ [conn EXCEPT !.pc = pc].pc = pc
                 /\ [ConAccepted(conn, pc) EXCEPT !.sock = "closed"].pc = pc
                 /\ [conn EXCEPT !.pc = pc, !.sock = "closed", !.canceled = TRUE].pc = pc
                 /\ \A mode \in ConModes : [conn EXCEPT !.pc = pc, !.mode = mode].pc = pc
      BY DEF ConRejected, ConAccepted, ConRecord
    <3>3. /\ "finds" \in ConPcs /\ "tracks" \in ConPcs /\ "asks" \in ConPcs /\ "serves" \in ConPcs
          /\ "leaves" \in ConPcs /\ "returned" \in ConPcs /\ "ends" \in ConPcs
          /\ "publish" \in ConModes /\ "read" \in ConModes
      BY DEF ConPcs, ConModes
    <3>4. \A kind, from, new : ConStep(kind, c, from, new) /\ new.pc # "handed" => ConHandsOne'
      BY <1>7
    <3>5. CASE ConSrtStreamID(c)
      <4>1. /\ ConRejected(conConn[c], "returned").pc # "handed"
            /\ [conConn[c] EXCEPT !.pc = "finds", !.mode = "publish"].pc # "handed"
            /\ [conConn[c] EXCEPT !.pc = "asks", !.mode = "read"].pc # "handed"
        BY <2>1, <3>2, <3>3
      <4> QED
        BY <3>4, <3>5, <4>1, Zenon DEF ConSrtStreamID
    <3>6. CASE ConSrtFound(c)
      <4>1. /\ ConRejected(conConn[c], "returned").pc # "handed" /\ ConAccepted(conConn[c], "tracks").pc # "handed"
            /\ [ConAccepted(conConn[c], "returned") EXCEPT !.sock = "closed"].pc # "handed"
        BY <2>1, <3>2, <3>3
      <4> QED
        BY <3>4, <3>6, <4>1, Zenon DEF ConSrtFound
    <3>7. CASE ConSrtTracks(c) \/ ConSrtEnds(c)
      <4>1. /\ [conConn[c] EXCEPT !.pc = "asks"].pc # "handed"
            /\ [conConn[c] EXCEPT !.pc = "ends", !.sock = "closed", !.canceled = TRUE].pc # "handed"
        BY <2>1, <3>2, <3>3
      <4> QED
        BY <3>4, <3>7, <4>1, Zenon DEF ConSrtTracks, ConSrtEnds
    <3>8. CASE ConSrtAnswer(c)
      <4>1. /\ [joined EXCEPT !.pc = "serves"].pc # "handed" /\ [conConn[c] EXCEPT !.pc = "returned"].pc # "handed"
            /\ ConAccepted(joined, "serves").pc # "handed" /\ ConAccepted(joined, "leaves").pc # "handed"
            /\ ConRejected(joined, "leaves").pc # "handed" /\ ConRejected(conConn[c], "returned").pc # "handed"
        <5> HIDE DEF joined
        <5> QED
          BY <2>1, <3>1, <3>2, <3>3
      <4> QED
        BY <3>4, <3>8, <4>1, Zenon DEF ConSrtAnswer
    <3> QED
      BY <2>5, <3>5, <3>6, <3>7, <3>8 DEF ConSrtMoves
  <2> QED
    BY <1>8, <2>2, <2>3, <2>4, <2>5 DEF ConRtmpMoves, ConSrtMoves
<1>9. ASSUME NEW c \in ConIds, ConReadFails(c) \/ ConServedEnds(c) \/ ConLeaves(c) \/ ConPathCloses(c) PROVE ConHandsOne'
  <2>1. conConn[c] \in ConRecord
    BY <1>1
  <2>2. PICK new : conConn' = [conConn EXCEPT ![c] = new] /\ (new.pc # "handed" \/ new.pc = conConn[c].pc)
    BY <1>1, <1>9, <2>1 DEF ConReadFails, ConServedEnds, ConLeaves, ConPathCloses, ConRecord
  <2> QED
    BY <1>3, <2>2
<1> QED
  BY <1>2, <1>5, <1>6, <1>8, <1>9
     DEF ConNext, ConRtmpServes, ConSrtServes, ConServes, ConRtmpEndsServing, ConSrtEndsServing

ConIndInv == ConInv /\ ConHandsOne

LEMMA ConInvInit ==
    ASSUME ConInit PROVE ConIndInv
<1>1. conConn = [c \in ConIds |-> ConNone] /\ ConNone \in ConRecord /\ ConNone.pc = "none"
  BY DEF ConInit, ConNone, ConRecord, ConPcs, ConModes, ConSocks
<1>2. PICK k \in ConKinds : conServer = [kind |-> k, loop |-> "runs", canceled |-> FALSE, conns |-> {}]
  BY DEF ConInit
<1>3. conServer \in ConServerRecord /\ conListener \in {"accepts", "hands", "failed", "ended"} /\ conServer.loop = "runs"
  BY <1>2 DEF ConInit, ConServerRecord
<1>4. \A c \in ConIds : ConFits(c, ConNone, conServer, conListener)
  BY <1>3 DEF ConFits, ConNone, ConAnswered
<1> QED
  BY <1>1, <1>3, <1>4 DEF ConIndInv, ConInv, ConHandsOne

LEMMA ConInvNext ==
    ASSUME ConIndInv, [ConNext]_ConVars
    PROVE  ConIndInv'
<1>1. ConInv /\ ConHandsOne /\ ConHandsOne'
  BY ConHandsOneNext DEF ConIndInv
<1>2. CASE UNCHANGED ConVars
  BY <1>1, <1>2 DEF ConIndInv, ConInv, ConVars
<1>3. CASE ConNext
  BY <1>1, <1>3, ConEndsServingNext, ConServesNext, ConRtmpNext, ConSrtNext, ConEndsNext, Zenon
     DEF ConIndInv, ConNext, ConRtmpServes, ConSrtServes, ConRtmpEndsServing, ConSrtEndsServing, ConRtmpMoves, ConSrtMoves
<1> QED
  BY <1>2, <1>3

\* No connection is forgotten in a path, or left without an answer.
LEMMA ConNoneForgotten ==
    ASSUME ConIndInv PROVE ConSessionsLeave
<1>1. ASSUME NEW c \in ConIds PROVE conConn[c] \in ConRecord /\ ConFits(c, conConn[c], conServer, conListener)
  BY DEF ConIndInv, ConInv
<1>2. ConAttachedIsKnown
  BY <1>1 DEF ConAttachedIsKnown, ConFits, ConCanceled
<1>3. ConClosedIsQuiet /\ ConGoneHasLeft
  BY <1>1 DEF ConClosedIsQuiet, ConGoneHasLeft, ConFits
<1>4. ConSrtAnsweredOnce
  BY <1>1 DEF ConSrtAnsweredOnce, ConFits, ConAnswered
<1> QED
  BY <1>2, <1>3, <1>4 DEF ConSessionsLeave

\* A connection of the RTMP or SRT server that is in a path is known to the server or told to end, one that
\* ended or whose server closed has left it, and SRT answers every request once (servers/rtmp, servers/srt).
THEOREM ConSessionsLeaveHolds == ConSpec => []ConSessionsLeave
<1>1. ConInit => ConIndInv
  BY ConInvInit
<1>2. ConIndInv /\ [ConNext]_ConVars => ConIndInv'
  BY ConInvNext
<1>3. ConIndInv => ConSessionsLeave
  BY ConNoneForgotten
<1> QED
  BY <1>1, <1>2, <1>3, PTL DEF ConSpec

----------------------------------------------------------------------------
(* MtxRtsp: the RTSP server.                                               *)

RtsStates == {"initial", "preplay", "play", "prerecord", "record"}
RtsRecordSet ==
    [lib : {"none", "open", "closed"}, state : RtsStates, call : {"none", "setup", "record"}, path : BOOLEAN,
     attached : BOOLEAN, unread : BOOLEAN, disconnect : BOOLEAN, kicked : BOOLEAN]
RtsServerRecord ==
    [up : {"runs", "closing", "closed"}, sessions : SUBSET RtsIds, conns : SUBSET RtsIds, nil : BOOLEAN]

\* The states in which a session has a path.
RtsHeld == {"preplay", "play", "record"}

\* What a session that nobody has kicked holds follows from its state, and the tables of the server
\* from what the library has open.
RtsFits(s, session, server) ==
    /\ session.disconnect <=> s \in server.conns
    /\ s \in server.sessions => session.lib = "open"
    /\ session.call # "none" => session.lib = "open"
    /\ session.call = "setup" => session.state \in {"initial", "preplay"}
    /\ session.call = "record" => session.state = "prerecord"
    /\ session.unread => session.state = "play"
    /\ ~session.kicked =>
          /\ session.lib = "open" => s \in server.sessions
          /\ session.lib = "none" => session.state = "initial"
          /\ session.lib = "open" /\ session.state \in RtsHeld => session.path
          /\ session.attached => session.lib = "open" /\ session.state \in RtsHeld
          /\ session.unread => session.lib = "open"
    /\ server.up = "closed" => s \notin server.conns /\ session.lib # "open"

RtsInv ==
    /\ rtsServer \in RtsServerRecord /\ rtsSession \in [RtsIds -> RtsRecordSet]
    /\ \A s \in RtsIds : RtsFits(s, rtsSession[s], rtsServer)
    /\ rtsServer.nil => \E s \in RtsIds : rtsSession[s].kicked

LEMMA RtsFields ==
    ASSUME RtsInv, NEW s \in RtsIds
    PROVE  /\ rtsSession[s] \in RtsRecordSet /\ RtsFits(s, rtsSession[s], rtsServer)
           /\ rtsSession[s].path \in BOOLEAN /\ rtsSession[s].attached \in BOOLEAN /\ rtsSession[s].unread \in BOOLEAN
           /\ rtsSession[s].disconnect \in BOOLEAN /\ rtsSession[s].kicked \in BOOLEAN
<1>1. rtsSession[s] \in RtsRecordSet /\ RtsFits(s, rtsSession[s], rtsServer)
  BY DEF RtsInv
<1> QED
  BY <1>1 DEF RtsRecordSet

\* A step of one session, and of what the server knows of it.
LEMMA RtsOneSession ==
    ASSUME RtsInv, NEW s \in RtsIds, NEW new \in RtsRecordSet, NEW server \in RtsServerRecord,
           rtsSession' = [rtsSession EXCEPT ![s] = new], rtsServer' = server,
           server.up = rtsServer.up, RtsFits(s, new, server),
           \A d \in RtsIds \ {s} : /\ d \in server.sessions <=> d \in rtsServer.sessions
                                   /\ d \in server.conns <=> d \in rtsServer.conns,
           rtsSession[s].kicked => new.kicked,
           server.nil => rtsServer.nil \/ new.kicked
    PROVE  RtsInv'
<1>1. rtsSession \in [RtsIds -> RtsRecordSet]
  BY DEF RtsInv
<1>2. \A d \in RtsIds : RtsFits(d, rtsSession'[d], server)
  <2>1. ASSUME NEW d \in RtsIds \ {s} PROVE RtsFits(d, rtsSession[d], server)
    <3>1. RtsFits(d, rtsSession[d], rtsServer)
      BY DEF RtsInv
    <3> QED
      BY <3>1 DEF RtsFits
  <2> QED
    BY <1>1, <2>1
<1>3. server.nil => \E d \in RtsIds : rtsSession'[d].kicked
  <2>1. CASE new.kicked
    BY <1>1, <2>1
  <2>2. CASE rtsServer.nil
    <3>1. PICK d \in RtsIds : rtsSession[d].kicked
      BY <2>2 DEF RtsInv
    <3>2. rtsSession'[d].kicked
      BY <1>1, <3>1
    <3> QED
      BY <3>2
  <2> QED
    BY <2>1, <2>2
<1>4. rtsSession' \in [RtsIds -> RtsRecordSet]
  BY <1>1
<1> QED
  BY <1>2, <1>3, <1>4 DEF RtsInv

\* A request, or a step of a path, that changes one session only.
LEMMA RtsSetsFits ==
    ASSUME RtsInv, NEW s \in RtsIds, NEW new \in RtsRecordSet, RtsSets(s, new), RtsFits(s, new, rtsServer),
           new.kicked = rtsSession[s].kicked
    PROVE  RtsInv'
<1>1. rtsServer \in RtsServerRecord /\ rtsServer' = rtsServer /\ rtsSession' = [rtsSession EXCEPT ![s] = new]
  BY DEF RtsSets, RtsInv
<1> QED
  BY <1>1, RtsOneSession

LEMMA RtsRequestNext ==
    ASSUME RtsInv, NEW s \in RtsIds,
           \/ RtsAnnounce(s) \/ RtsSetup(s) \/ RtsSetupAnswer(s) \/ RtsPlay(s) \/ RtsRecord(s) \/ RtsRecordAnswer(s)
           \/ RtsPause(s) \/ RtsPathCloses(s)
    PROVE  RtsInv'
<1> DEFINE session == rtsSession[s]
<1>1. /\ session \in RtsRecordSet /\ RtsFits(s, session, rtsServer) /\ session.path \in BOOLEAN
      /\ session.attached \in BOOLEAN /\ session.unread \in BOOLEAN /\ session.kicked \in BOOLEAN
  BY RtsFields
<1>2. CASE RtsAnnounce(s)
  <2> DEFINE new == [session EXCEPT !.state = "prerecord"]
  <2>1. RtsSets(s, new) /\ session.state = "initial" /\ session.lib = "open" /\ session.call = "none"
    BY <1>2 DEF RtsAnnounce, RtsServed
  <2>2. new \in RtsRecordSet /\ RtsFits(s, new, rtsServer) /\ new.kicked = session.kicked
    BY <1>1, <2>1 DEF RtsRecordSet, RtsStates, RtsFits, RtsHeld
  <2> HIDE DEF new
  <2> QED
    BY <2>1, <2>2, RtsSetsFits
<1>3. CASE RtsSetup(s) \/ RtsRecord(s)
  <2>1. PICK call \in {"setup", "record"} :
           /\ RtsSets(s, [session EXCEPT !.call = call]) /\ session.lib = "open" /\ session.call = "none"
           /\ call = "setup" => session.state \in {"initial", "preplay"}
           /\ call = "record" => session.state = "prerecord"
    BY <1>3 DEF RtsSetup, RtsRecord, RtsServed
  <2> DEFINE new == [session EXCEPT !.call = call]
  <2>2. new \in RtsRecordSet /\ RtsFits(s, new, rtsServer) /\ new.kicked = session.kicked
    BY <1>1, <2>1 DEF RtsRecordSet, RtsStates, RtsFits, RtsHeld
  <2>3. RtsSets(s, new)
    BY <2>1
  <2> HIDE DEF new
  <2> QED
    BY <2>3, <2>2, RtsSetsFits
<1>4. CASE RtsSetupAnswer(s) \/ RtsRecordAnswer(s)
  <2>1. PICK state \in {"preplay", "record"} :
          /\ session.call = "setup" \/ session.call = "record"
          /\ \/ RtsSets(s, [session EXCEPT !.call = "none", !.state = state, !.path = TRUE, !.attached = TRUE])
             \/ RtsSets(s, [session EXCEPT !.call = "none"])
    BY <1>4 DEF RtsSetupAnswer, RtsRecordAnswer
  <2>2. session.lib = "open" /\ ~session.unread
    BY <1>1, <2>1 DEF RtsFits
  <2>3. CASE RtsSets(s, [session EXCEPT !.call = "none", !.state = state, !.path = TRUE, !.attached = TRUE])
    <3> DEFINE new == [session EXCEPT !.call = "none", !.state = state, !.path = TRUE, !.attached = TRUE]
    <3>1. new \in RtsRecordSet /\ RtsFits(s, new, rtsServer) /\ new.kicked = session.kicked
      BY <1>1, <2>2 DEF RtsRecordSet, RtsStates, RtsFits, RtsHeld
    <3> HIDE DEF new
    <3>2. RtsSets(s, new)
      BY <2>3 DEF new
    <3> QED
      BY <3>1, <3>2, RtsSetsFits
  <2>4. CASE RtsSets(s, [session EXCEPT !.call = "none"])
    <3> DEFINE new == [session EXCEPT !.call = "none"]
    <3>1. new \in RtsRecordSet /\ RtsFits(s, new, rtsServer) /\ new.kicked = session.kicked
      BY <1>1 DEF RtsRecordSet, RtsStates, RtsFits, RtsHeld
    <3> HIDE DEF new
    <3>2. RtsSets(s, new)
      BY <2>4 DEF new
    <3> QED
      BY <3>1, <3>2, RtsSetsFits
  <2> QED
    BY <2>1, <2>3, <2>4
<1>5. ASSUME RtsPanics, ~session.path, session.lib = "open", session.state \in RtsHeld PROVE RtsInv'
  <2>1. session.kicked
    BY <1>1, <1>5 DEF RtsFits
  <2> DEFINE server == [rtsServer EXCEPT !.nil = TRUE]
  <2>2. rtsSession' = rtsSession /\ rtsServer' = server /\ rtsServer \in RtsServerRecord
    BY <1>5 DEF RtsPanics, RtsInv
  <2>3. server \in RtsServerRecord /\ server.up = rtsServer.up /\ server.sessions = rtsServer.sessions
        /\ server.conns = rtsServer.conns
    BY <2>2 DEF RtsServerRecord
  <2> HIDE DEF server
  <2>4. \A d \in RtsIds : RtsFits(d, rtsSession[d], server)
    BY <2>3 DEF RtsInv, RtsFits
  <2> QED
    BY <2>1, <2>2, <2>3, <2>4 DEF RtsInv
<1>6. CASE RtsPlay(s)
  <2>1. session.state \in {"preplay", "play"} /\ session.lib = "open" /\ session.call = "none"
    BY <1>6 DEF RtsPlay, RtsServed
  <2>2. CASE session.state = "preplay" /\ ~session.path
    BY <1>5, <1>6, <2>1, <2>2 DEF RtsPlay, RtsHeld
  <2>3. CASE ~(session.state = "preplay" /\ ~session.path)
    <3> DEFINE new == [session EXCEPT !.state = "play", !.unread = TRUE]
    <3>1. new \in RtsRecordSet /\ RtsFits(s, new, rtsServer) /\ new.kicked = session.kicked
      BY <1>1, <2>1, <2>3 DEF RtsRecordSet, RtsStates, RtsFits, RtsHeld
    <3>2. RtsSets(s, new)
      BY <1>6, <2>3 DEF RtsPlay
    <3> HIDE DEF new
    <3> QED
      BY <3>1, <3>2, RtsSetsFits
  <2> QED
    BY <2>2, <2>3
<1>7. CASE RtsPause(s)
  <2>1. session.lib = "open" /\ session.call = "none" /\ session.state \in {"play", "record"}
    BY <1>7 DEF RtsPause, RtsServed
  <2>2. CASE RtsSets(s, RtsPaused(session)) /\ session.state = "play"
    <3> DEFINE new == [session EXCEPT !.state = "preplay", !.unread = FALSE]
    <3>1. new \in RtsRecordSet /\ RtsFits(s, new, rtsServer) /\ new.kicked = session.kicked
      BY <1>1, <2>1, <2>2 DEF RtsRecordSet, RtsStates, RtsFits, RtsHeld
    <3>2. RtsSets(s, new)
      BY <2>2 DEF RtsPaused
    <3> HIDE DEF new
    <3> QED
      BY <3>1, <3>2, RtsSetsFits
  <2>3. CASE ~session.path /\ RtsPanics
    BY <1>5, <2>1, <2>3 DEF RtsHeld
  <2>4. CASE RtsSets(s, [session EXCEPT !.state = "prerecord", !.attached = FALSE]) /\ session.state = "record"
    <3> DEFINE new == [session EXCEPT !.state = "prerecord", !.attached = FALSE]
    <3>1. new \in RtsRecordSet /\ RtsFits(s, new, rtsServer) /\ new.kicked = session.kicked
      BY <1>1, <2>1, <2>4 DEF RtsRecordSet, RtsStates, RtsFits, RtsHeld
    <3>2. RtsSets(s, new)
      BY <2>4
    <3> HIDE DEF new
    <3> QED
      BY <3>1, <3>2, RtsSetsFits
  <2> QED
    BY <1>7, <2>2, <2>3, <2>4 DEF RtsPause, RtsServed
<1>8. CASE RtsPathCloses(s)
  <2> DEFINE new == [session EXCEPT !.attached = FALSE]
  <2>1. RtsSets(s, new)
    BY <1>8 DEF RtsPathCloses
  <2>2. new \in RtsRecordSet /\ RtsFits(s, new, rtsServer) /\ new.kicked = session.kicked
    BY <1>1 DEF RtsRecordSet, RtsStates, RtsFits, RtsHeld
  <2> HIDE DEF new
  <2> QED
    BY <2>1, <2>2, RtsSetsFits
<1> QED
  BY <1>2, <1>3, <1>4, <1>6, <1>7, <1>8

\* What a connection, the library or a kick does to a session and to the tables of the server.
LEMMA RtsOpensNext ==
    ASSUME RtsInv, NEW s \in RtsIds, RtsConnOpen(s) \/ RtsConnClose(s) \/ RtsSessionOpen(s)
    PROVE  RtsInv'
<1> DEFINE session == rtsSession[s]
<1>1. /\ session \in RtsRecordSet /\ RtsFits(s, session, rtsServer) /\ session.path \in BOOLEAN
      /\ session.attached \in BOOLEAN /\ session.unread \in BOOLEAN /\ session.kicked \in BOOLEAN
      /\ rtsServer \in RtsServerRecord /\ rtsSession \in [RtsIds -> RtsRecordSet]
  BY RtsFields DEF RtsInv
<1>2. PICK new, server :
         /\ rtsSession' = [rtsSession EXCEPT ![s] = new] /\ rtsServer' = server
         /\ \/ /\ new = [session EXCEPT !.disconnect = TRUE] /\ server = [rtsServer EXCEPT !.conns = @ \cup {s}]
               /\ rtsServer.up = "runs"
            \/ /\ new = [session EXCEPT !.disconnect = FALSE] /\ server = [rtsServer EXCEPT !.conns = @ \ {s}]
            \/ /\ new = [session EXCEPT !.lib = "open"] /\ server = [rtsServer EXCEPT !.sessions = @ \cup {s}]
               /\ session.lib = "none" /\ rtsServer.up = "runs"
  BY <1>1 DEF RtsConnOpen, RtsConnClose, RtsSessionOpen, RtsDisconnected
<1>3. new \in RtsRecordSet /\ server \in RtsServerRecord /\ new.kicked = session.kicked /\ server.nil = rtsServer.nil
      /\ server.up = rtsServer.up
  <2>1. new \in RtsRecordSet /\ new.kicked = session.kicked
    BY <1>1, <1>2 DEF RtsRecordSet
  <2>2. server \in RtsServerRecord /\ server.nil = rtsServer.nil /\ server.up = rtsServer.up
    BY <1>1, <1>2 DEF RtsServerRecord
  <2> QED
    BY <2>1, <2>2
<1>4. RtsFits(s, new, server)
  BY <1>1, <1>2 DEF RtsFits, RtsRecordSet, RtsServerRecord, RtsHeld
<1>5. \A d \in RtsIds \ {s} : /\ d \in server.sessions <=> d \in rtsServer.sessions
                              /\ d \in server.conns <=> d \in rtsServer.conns
  BY <1>1, <1>2 DEF RtsServerRecord
<1> QED
  BY <1>2, <1>3, <1>4, <1>5, RtsOneSession

\* What onClose makes of a session.
LEMMA RtsOnClosedFits ==
    ASSUME NEW session \in RtsRecordSet
    PROVE  /\ RtsOnClosed(session) \in RtsRecordSet
           /\ LET new == RtsOnClosed(session) IN
                 /\ new.lib = session.lib /\ new.state = session.state /\ new.call = session.call
                 /\ new.kicked = session.kicked /\ (new.disconnect <=> session.disconnect) /\ ~new.path
                 /\ new.unread => session.state # "play" /\ session.unread
                 /\ new.attached => session.state \notin RtsHeld /\ session.attached
<1>1. PICK unread \in BOOLEAN, attached \in BOOLEAN :
         /\ unread = IF session.state = "play" THEN FALSE ELSE session.unread
         /\ attached = IF session.state \in RtsReading \cup {"record"} THEN FALSE ELSE session.attached
  BY DEF RtsRecordSet
<1> DEFINE new == [session EXCEPT !.unread = unread, !.attached = attached, !.path = FALSE]
<1>2. RtsOnClosed(session) = new
  BY <1>1 DEF RtsOnClosed
<1>3. /\ new \in RtsRecordSet /\ new.lib = session.lib /\ new.state = session.state /\ new.call = session.call
      /\ new.kicked = session.kicked /\ new.disconnect = session.disconnect /\ new.path = FALSE
      /\ new.unread = unread /\ new.attached = attached
  BY DEF RtsRecordSet
<1> HIDE DEF new
<1> QED
  BY <1>1, <1>2, <1>3 DEF RtsHeld, RtsReading

LEMMA RtsClosesNext ==
    ASSUME RtsInv, NEW s \in RtsIds, RtsSessionClose(s) \/ \E k \in RtsKickers : RtsKickEnds(k, s)
    PROVE  RtsInv'
<1> DEFINE session == rtsSession[s]
           closed == RtsOnClosed(session)
<1>1. /\ session \in RtsRecordSet /\ RtsFits(s, session, rtsServer) /\ session.path \in BOOLEAN
      /\ session.attached \in BOOLEAN /\ session.unread \in BOOLEAN /\ session.kicked \in BOOLEAN
      /\ rtsServer \in RtsServerRecord /\ rtsSession \in [RtsIds -> RtsRecordSet]
  BY RtsFields DEF RtsInv
<1>2. /\ closed \in RtsRecordSet /\ closed.lib = session.lib /\ closed.state = session.state /\ closed.call = session.call
      /\ closed.kicked = session.kicked /\ (closed.disconnect <=> session.disconnect) /\ ~closed.path
      /\ closed.unread => session.state # "play" /\ session.unread
      /\ closed.attached => session.state \notin RtsHeld /\ session.attached
  BY <1>1, RtsOnClosedFits
<1> HIDE DEF closed
<1>3. ASSUME NEW nil \in BOOLEAN
      PROVE  LET server == [rtsServer EXCEPT !.sessions = rtsServer.sessions \ {s}, !.nil = nil]
             IN  /\ server \in RtsServerRecord /\ server.up = rtsServer.up /\ server.conns = rtsServer.conns
                 /\ server.sessions = rtsServer.sessions \ {s} /\ server.nil = nil
  BY <1>1 DEF RtsServerRecord
<1>4. CASE RtsSessionClose(s)
  <2> DEFINE known == s \in rtsServer.sessions
             new == [IF known THEN closed ELSE session EXCEPT !.lib = "closed"]
  <2>1. PICK nil \in BOOLEAN :
           /\ nil = (known /\ RtsOnCloseNil(session))
           /\ rtsServer' = [rtsServer EXCEPT !.sessions = rtsServer.sessions \ {s}, !.nil = nil]
    BY <1>4 DEF RtsSessionClose
  <2>2. rtsSession' = [rtsSession EXCEPT ![s] = new] /\ session.lib = "open" /\ session.call = "none"
    BY <1>4 DEF RtsSessionClose, closed
  <2> DEFINE server == [rtsServer EXCEPT !.sessions = rtsServer.sessions \ {s}, !.nil = nil]
  <2>3. /\ server \in RtsServerRecord /\ server.up = rtsServer.up /\ server.conns = rtsServer.conns
        /\ server.sessions = rtsServer.sessions \ {s} /\ server.nil = nil
    BY <1>3
  <2>4. rtsServer' = server
    BY <2>1
  <2> HIDE DEF server
  <2>5. nil => session.kicked
    BY <1>1, <2>1, <2>2 DEF RtsOnCloseNil, RtsFits, RtsReading, RtsHeld
  <2>6. CASE known
    <3>1. new = [closed EXCEPT !.lib = "closed"]
      BY <2>6
    <3> HIDE DEF new
    <3>2. new \in RtsRecordSet /\ new.kicked = session.kicked
      BY <1>2, <3>1 DEF RtsRecordSet
    <3>3. RtsFits(s, new, server)
      BY <1>1, <1>2, <2>2, <2>3, <3>1 DEF RtsFits, RtsRecordSet
    <3> QED
      BY <2>2, <2>3, <2>4, <2>5, <3>2, <3>3, RtsOneSession
  <2>7. CASE ~known
    <3>1. new = [session EXCEPT !.lib = "closed"]
      BY <2>7
    <3> HIDE DEF new
    <3>2. new \in RtsRecordSet /\ new.kicked = session.kicked /\ session.kicked
      BY <1>1, <2>2, <2>7, <3>1 DEF RtsRecordSet, RtsFits
    <3>3. RtsFits(s, new, server)
      BY <1>1, <2>2, <2>3, <3>1, <3>2 DEF RtsFits, RtsRecordSet
    <3> QED
      BY <2>2, <2>3, <2>4, <2>5, <3>2, <3>3, RtsOneSession
  <2> QED
    BY <2>6, <2>7
<1>5. CASE \E k \in RtsKickers : RtsKickEnds(k, s)
  <2> DEFINE new == [closed EXCEPT !.kicked = TRUE]
  <2>1. PICK nil \in BOOLEAN :
           /\ rtsServer' = [rtsServer EXCEPT !.sessions = rtsServer.sessions \ {s}, !.nil = nil]
           /\ rtsSession' = [rtsSession EXCEPT ![s] = new]
    <3>1. RtsOnCloseNil(session) \in BOOLEAN
      BY DEF RtsOnCloseNil
    <3> QED
      BY <1>5, <3>1 DEF RtsKickEnds, closed
  <2> DEFINE server == [rtsServer EXCEPT !.sessions = rtsServer.sessions \ {s}, !.nil = nil]
  <2>2. /\ server \in RtsServerRecord /\ server.up = rtsServer.up /\ server.conns = rtsServer.conns
        /\ server.sessions = rtsServer.sessions \ {s} /\ server.nil = nil
    BY <1>3
  <2>3. rtsServer' = server
    BY <2>1
  <2> HIDE DEF server
  <2>4. new \in RtsRecordSet /\ new.kicked
    BY <1>2 DEF RtsRecordSet
  <2>5. RtsFits(s, new, server)
    BY <1>1, <1>2, <2>2 DEF RtsFits, RtsRecordSet
  <2> HIDE DEF new
  <2> QED
    BY <2>1, <2>2, <2>3, <2>4, <2>5, RtsOneSession
<1> QED
  BY <1>4, <1>5

LEMMA RtsInvNext ==
    ASSUME RtsInv, [RtsNext]_RtsVars PROVE RtsInv'
<1>1. CASE UNCHANGED RtsVars \/ \E s \in RtsIds, k \in RtsKickers : RtsKickFinds(k, s)
  <2>1. rtsSession' = rtsSession /\ rtsServer' = rtsServer
    BY <1>1 DEF RtsVars, RtsKickFinds
  <2> QED
    BY <2>1 DEF RtsInv
<1>2. CASE RtsClose \/ RtsClosed
  <2>1. PICK up \in {"closing", "closed"} :
           /\ rtsServer' = [rtsServer EXCEPT !.up = up] /\ rtsSession' = rtsSession
           /\ up = "closed" => rtsServer.conns = {} /\ \A s \in RtsIds : rtsSession[s].lib # "open"
    BY <1>2 DEF RtsClose, RtsClosed
  <2> DEFINE server == [rtsServer EXCEPT !.up = up]
  <2>2. /\ server \in RtsServerRecord /\ server.up = up /\ server.conns = rtsServer.conns
        /\ server.sessions = rtsServer.sessions /\ server.nil = rtsServer.nil
    BY DEF RtsInv, RtsServerRecord
  <2>3. rtsServer' = server
    BY <2>1
  <2> HIDE DEF server
  <2>4. ASSUME NEW s \in RtsIds PROVE RtsFits(s, rtsSession[s], server)
    <3>1. RtsFits(s, rtsSession[s], rtsServer)
      BY DEF RtsInv
    <3> QED
      BY <2>1, <2>2, <3>1 DEF RtsFits
  <2> QED
    BY <2>1, <2>2, <2>3, <2>4 DEF RtsInv
<1> QED
  BY <1>1, <1>2, RtsRequestNext, RtsOpensNext, RtsClosesNext DEF RtsNext

LEMMA RtsInvInit ==
    ASSUME RtsInit PROVE RtsInv
<1>1. rtsSession = [s \in RtsIds |-> RtsNew] /\ RtsNew \in RtsRecordSet
  BY DEF RtsInit, RtsNew, RtsRecordSet, RtsStates
<1>2. rtsServer = [up |-> "runs", sessions |-> {}, conns |-> {}, nil |-> FALSE]
  BY DEF RtsInit
<1>3. rtsServer \in RtsServerRecord
  BY <1>2 DEF RtsServerRecord
<1>4. \A s \in RtsIds : RtsFits(s, RtsNew, rtsServer)
  BY <1>2 DEF RtsFits, RtsNew, RtsHeld
<1> QED
  BY <1>1, <1>2, <1>3, <1>4 DEF RtsInv

\* What ends a session also ends what it holds, unless it was kicked.
LEMMA RtsNoneForgotten ==
    ASSUME RtsInv PROVE RtsSessionsLeave
<1>1. ASSUME NEW s \in RtsIds PROVE rtsSession[s] \in RtsRecordSet /\ RtsFits(s, rtsSession[s], rtsServer)
  BY DEF RtsInv
<1>2. RtsClosedHasLeft /\ RtsHookWhilePlaying
  BY <1>1 DEF RtsClosedHasLeft, RtsHookWhilePlaying, RtsFits, RtsRecordSet
<1>3. RtsNilOnlyIfKicked
  BY DEF RtsNilOnlyIfKicked, RtsInv
<1>4. RtsClosedIsQuiet
  <2>1. rtsServer.sessions \subseteq RtsIds
    BY DEF RtsInv, RtsServerRecord
  <2> QED
    BY <1>1, <2>1 DEF RtsClosedIsQuiet, RtsFits, RtsRecordSet
<1> QED
  BY <1>2, <1>3, <1>4 DEF RtsSessionsLeave

\* An RTSP session that closes leaves its path and its hooks, and uses no path that it does not have, in
\* whichever state it closes, unless it was kicked (rtsp/server.go, rtsp/session.go, rtsp/conn.go).
THEOREM RtsSessionsLeaveHolds == RtsSpec => []RtsSessionsLeave
<1>1. RtsInit => RtsInv
  BY RtsInvInit
<1>2. RtsInv /\ [RtsNext]_RtsVars => RtsInv'
  BY RtsInvNext
<1>3. RtsInv => RtsSessionsLeave
  BY RtsNoneForgotten
<1> QED
  BY <1>1, <1>2, <1>3, PTL DEF RtsSpec

----------------------------------------------------------------------------
(* MtxWebrtc: the WHIP and WHEP server.                                    *)

\* Where a session has its peer connection, and may be in a path.
WrtInside == {"offer", "connects", "joins", "serves", "leaves"}
WrtPcs == WrtInside \cup {"none", "waits", "asks", "returned", "ends", "gone"}
WrtPosts == {"none", "server", "session", "waits", "answered", "failed"}
WrtPeers == {"none", "open", "closed"}
WrtTakes == {"none", "runs", "stuck", "ended"}
WrtRecord ==
    [pc : WrtPcs, post : WrtPosts, publish : BOOLEAN, canceled : BOOLEAN, attached : BOOLEAN,
     peer : WrtPeers, code : BOOLEAN, candidates : WrtTakes]
WrtServerRecord == [loop : {"runs", "stopped", "closed"}, canceled : BOOLEAN, sessions : SUBSET WrtIds]

\* A session holds a path or a peer connection only between the two, and the server knows every session
\* that runs, or has told it to end.
WrtFits(s, session, server) ==
    /\ session.attached \/ session.peer = "open" => session.pc \in WrtInside
    /\ session.pc \notin {"none", "gone"} => s \in server.sessions \/ server.canceled \/ session.canceled
    /\ session.post \in {"none", "server"} => session.pc = "none"
    /\ server.loop = "closed" => session.pc \in {"none", "gone"}

WrtInv ==
    /\ wrtServer \in WrtServerRecord /\ wrtSession \in [WrtIds -> WrtRecord]
    /\ wrtServer.loop # "runs" => wrtServer.canceled
    /\ \A s \in WrtIds : WrtFits(s, wrtSession[s], wrtServer)

LEMMA WrtFields ==
    ASSUME WrtInv, NEW s \in WrtIds
    PROVE  /\ wrtSession[s] \in WrtRecord /\ WrtFits(s, wrtSession[s], wrtServer)
           /\ wrtSession[s].attached \in BOOLEAN /\ wrtSession[s].canceled \in BOOLEAN
           /\ wrtSession[s].publish \in BOOLEAN /\ wrtSession[s].code \in BOOLEAN
           /\ wrtSession[s].peer \in WrtPeers /\ wrtSession[s].pc \in WrtPcs
           /\ wrtServer \in WrtServerRecord /\ wrtServer.canceled \in BOOLEAN /\ wrtServer.sessions \in SUBSET WrtIds
<1>1. wrtSession[s] \in WrtRecord /\ WrtFits(s, wrtSession[s], wrtServer) /\ wrtServer \in WrtServerRecord
  BY DEF WrtInv
<1> QED
  BY <1>1 DEF WrtRecord, WrtServerRecord

\* A step of one session, and of what the map of the server says of it.
LEMMA WrtOneSession ==
    ASSUME WrtInv, NEW s \in WrtIds, NEW new \in WrtRecord, NEW server \in WrtServerRecord,
           wrtSession' = [wrtSession EXCEPT ![s] = new], wrtServer' = server,
           server.loop = wrtServer.loop, server.canceled = wrtServer.canceled,
           \A d \in WrtIds \ {s} : d \in wrtServer.sessions => d \in server.sessions,
           WrtFits(s, new, server)
    PROVE  WrtInv'
<1>1. wrtSession \in [WrtIds -> WrtRecord] /\ (wrtServer.loop # "runs" => wrtServer.canceled)
  BY DEF WrtInv
<1>2. ASSUME NEW d \in WrtIds \ {s} PROVE WrtFits(d, wrtSession[d], server)
  <2>1. WrtFits(d, wrtSession[d], wrtServer)
    BY DEF WrtInv
  <2> QED
    BY <2>1 DEF WrtFits
<1>3. wrtSession' \in [WrtIds -> WrtRecord] /\ \A d \in WrtIds : WrtFits(d, wrtSession'[d], server)
  BY <1>1, <1>2
<1> QED
  BY <1>1, <1>3 DEF WrtInv

\* A step of one session that leaves the map as it is.
LEMMA WrtOneFits ==
    ASSUME WrtInv, NEW s \in WrtIds, NEW new \in WrtRecord, wrtSession' = [wrtSession EXCEPT ![s] = new],
           wrtServer' = wrtServer, WrtFits(s, new, wrtServer)
    PROVE  WrtInv'
<1>1. wrtSession \in [WrtIds -> WrtRecord]
  BY DEF WrtInv
<1>2. wrtSession' \in [WrtIds -> WrtRecord] /\ \A d \in WrtIds : WrtFits(d, wrtSession'[d], wrtServer)
  BY <1>1 DEF WrtInv
<1> QED
  BY <1>2 DEF WrtInv

LEMMA WrtMovesFits ==
    ASSUME WrtInv, NEW s \in WrtIds, NEW new \in WrtRecord, NEW from, WrtMoves(s, from, new), WrtFits(s, new, wrtServer)
    PROVE  WrtInv'
  BY WrtOneFits DEF WrtMoves

LEMMA WrtSessionNext ==
    ASSUME WrtInv, NEW s \in WrtIds,
           \/ WrtNeverAsked(s) \/ WrtAnswer(s) \/ WrtNotConnected(s) \/ WrtConnected(s) \/ WrtJoined(s)
           \/ WrtServedEnds(s) \/ WrtUnwind(s) \/ WrtReturns(s)
    PROVE  WrtInv'
<1> DEFINE session == wrtSession[s]
<1>1. /\ session \in WrtRecord /\ WrtFits(s, session, wrtServer) /\ session.attached \in BOOLEAN
      /\ session.canceled \in BOOLEAN /\ session.publish \in BOOLEAN
  BY WrtFields
<1>2. CASE WrtNeverAsked(s)
  <2> DEFINE new == [session EXCEPT !.pc = "ends", !.canceled = TRUE]
  <2>1. WrtMoves(s, "waits", new) /\ session.pc = "waits"
    BY <1>2 DEF WrtNeverAsked, WrtMoves
  <2>2. new \in WrtRecord /\ WrtFits(s, new, wrtServer)
    BY <1>1, <2>1 DEF WrtRecord, WrtPcs, WrtInside, WrtFits
  <2> HIDE DEF new
  <2> QED
    BY <2>1, <2>2, WrtMovesFits
<1>3. CASE WrtAnswer(s)
  <2>1. CASE WrtMoves(s, "offer", [session EXCEPT !.pc = "leaves", !.code = TRUE])
    <3> DEFINE new == [session EXCEPT !.pc = "leaves", !.code = TRUE]
    <3>1. WrtMoves(s, "offer", new) /\ session.pc = "offer"
      BY <2>1 DEF WrtMoves
    <3>2. new \in WrtRecord /\ WrtFits(s, new, wrtServer)
      BY <1>1, <3>1 DEF WrtRecord, WrtPcs, WrtInside, WrtFits
    <3> HIDE DEF new
    <3> QED
      BY <3>1, <3>2, WrtMovesFits
  <2>2. CASE WrtMoves(s, "offer", [session EXCEPT !.pc = "connects", !.post = "answered", !.candidates = "runs"])
    <3> DEFINE new == [session EXCEPT !.pc = "connects", !.post = "answered", !.candidates = "runs"]
    <3>1. WrtMoves(s, "offer", new) /\ session.pc = "offer"
      BY <2>2 DEF WrtMoves
    <3>2. new \in WrtRecord /\ WrtFits(s, new, wrtServer)
      BY <1>1, <3>1 DEF WrtRecord, WrtPcs, WrtPosts, WrtTakes, WrtInside, WrtFits
    <3> HIDE DEF new
    <3> QED
      BY <3>1, <3>2, WrtMovesFits
  <2> QED
    BY <1>3, <2>1, <2>2 DEF WrtAnswer
<1>4. ASSUME NEW from \in WrtInside, NEW pc \in WrtInside, WrtMoves(s, from, [session EXCEPT !.pc = pc]) PROVE WrtInv'
  <2> DEFINE new == [session EXCEPT !.pc = pc]
  <2>1. WrtMoves(s, from, new) /\ session.pc = from
    BY <1>4 DEF WrtMoves
  <2>2. new \in WrtRecord /\ WrtFits(s, new, wrtServer)
    BY <1>1, <2>1 DEF WrtRecord, WrtPcs, WrtInside, WrtFits
  <2> HIDE DEF new
  <2> QED
    BY <2>1, <2>2, WrtMovesFits
<1>5. CASE \/ WrtNotConnected(s) \/ WrtConnected(s) \/ WrtServedEnds(s)
           \/ WrtMoves(s, "joins", [session EXCEPT !.pc = "leaves"])
  <2>1. PICK from \in WrtInside, pc \in WrtInside : WrtMoves(s, from, [session EXCEPT !.pc = pc])
    <3>1. "connects" \in WrtInside /\ "serves" \in WrtInside /\ "joins" \in WrtInside /\ "leaves" \in WrtInside
      BY DEF WrtInside
    <3>2. CASE WrtConnected(s)
      <4>1. PICK pc \in {"joins", "serves"} : WrtMoves(s, "connects", [session EXCEPT !.pc = pc])
        BY <1>1, <3>2 DEF WrtConnected
      <4> QED
        BY <3>1, <4>1
    <3> QED
      BY <1>5, <3>1, <3>2 DEF WrtNotConnected, WrtServedEnds
  <2> QED
    BY <1>4, <2>1
<1>6. CASE WrtMoves(s, "joins", [session EXCEPT !.pc = "serves", !.attached = TRUE])
  <2> DEFINE new == [session EXCEPT !.pc = "serves", !.attached = TRUE]
  <2>1. WrtMoves(s, "joins", new) /\ session.pc = "joins"
    BY <1>6 DEF WrtMoves
  <2>2. new \in WrtRecord /\ WrtFits(s, new, wrtServer)
    BY <1>1, <2>1 DEF WrtRecord, WrtPcs, WrtInside, WrtFits
  <2> HIDE DEF new
  <2> QED
    BY <2>1, <2>2, WrtMovesFits
<1>7. CASE WrtUnwind(s)
  <2>1. CASE WrtMoves(s, "leaves", [session EXCEPT !.attached = FALSE])
    <3> DEFINE new == [session EXCEPT !.attached = FALSE]
    <3>1. WrtMoves(s, "leaves", new)
      BY <2>1
    <3>2. new \in WrtRecord /\ WrtFits(s, new, wrtServer)
      BY <1>1 DEF WrtRecord, WrtFits
    <3> HIDE DEF new
    <3> QED
      BY <3>1, <3>2, WrtMovesFits
  <2>2. CASE WrtMoves(s, "leaves", [session EXCEPT !.peer = "closed"])
    <3> DEFINE new == [session EXCEPT !.peer = "closed"]
    <3>1. WrtMoves(s, "leaves", new)
      BY <2>2
    <3>2. new \in WrtRecord /\ WrtFits(s, new, wrtServer)
      BY <1>1 DEF WrtRecord, WrtPeers, WrtFits
    <3> HIDE DEF new
    <3> QED
      BY <3>1, <3>2, WrtMovesFits
  <2> QED
    BY <1>7, <2>1, <2>2 DEF WrtUnwind
<1>8. CASE WrtReturns(s)
  <2> DEFINE new == [session EXCEPT !.pc = "returned"]
  <2>1. WrtMoves(s, "leaves", new) /\ session.pc = "leaves" /\ ~session.attached /\ session.peer # "open"
    BY <1>8 DEF WrtReturns, WrtMoves, WrtUnwound
  <2>2. new \in WrtRecord /\ WrtFits(s, new, wrtServer)
    BY <1>1, <2>1 DEF WrtRecord, WrtPcs, WrtFits
  <2> HIDE DEF new
  <2> QED
    BY <2>1, <2>2, WrtMovesFits
<1> QED
  BY <1>2, <1>3, <1>5, <1>6, <1>7, <1>8 DEF WrtJoined

LEMMA WrtFoundNext ==
    ASSUME WrtInv, NEW s \in WrtIds, WrtFound(s) \/ WrtReturned(s)
    PROVE  WrtInv'
<1> DEFINE session == wrtSession[s]
<1>1. /\ session \in WrtRecord /\ WrtFits(s, session, wrtServer) /\ session.attached \in BOOLEAN
      /\ session.canceled \in BOOLEAN /\ session.publish \in BOOLEAN
  BY WrtFields
<1>2. CASE WrtFound(s)
  <2>1. session.pc = "asks" /\ ~session.attached /\ session.peer # "open"
    BY <1>1, <1>2 DEF WrtFound, WrtMoves, WrtFits, WrtInside
  <2>2. PICK joins \in BOOLEAN : joins = ~session.publish
    BY <1>1
  <2>3. PICK new :
          /\ WrtMoves(s, "asks", new)
          /\ \/ new = [session EXCEPT !.pc = "returned", !.code = TRUE]
             \/ new = [session EXCEPT !.attached = joins, !.pc = "leaves", !.code = TRUE]
             \/ new = [session EXCEPT !.attached = joins, !.pc = "offer", !.peer = "open"]
    <3> DEFINE joined == [session EXCEPT !.attached = joins]
    <3>1. joined = [session EXCEPT !.attached = ~session.publish]
      BY <2>2
    <3>2. \/ WrtMoves(s, "asks", [session EXCEPT !.pc = "returned", !.code = TRUE])
          \/ WrtMoves(s, "asks", [joined EXCEPT !.pc = "leaves", !.code = TRUE])
          \/ WrtMoves(s, "asks", [joined EXCEPT !.pc = "offer", !.peer = "open"])
      BY <1>2, <3>1, Zenon DEF WrtFound
    <3>3. /\ [joined EXCEPT !.pc = "leaves", !.code = TRUE]
                = [session EXCEPT !.attached = joins, !.pc = "leaves", !.code = TRUE]
          /\ [joined EXCEPT !.pc = "offer", !.peer = "open"]
                = [session EXCEPT !.attached = joins, !.pc = "offer", !.peer = "open"]
      BY <1>1 DEF WrtRecord
    <3> QED
      BY <3>2, <3>3, Zenon
  <2>4. new \in WrtRecord /\ WrtFits(s, new, wrtServer)
    BY <1>1, <2>1, <2>3 DEF WrtRecord, WrtPcs, WrtPeers, WrtInside, WrtFits
  <2> QED
    BY <2>3, <2>4, WrtMovesFits
<1>3. CASE WrtReturned(s)
  <2>1. PICK post \in WrtPosts : /\ WrtMoves(s, "returned", [session EXCEPT !.pc = "ends", !.canceled = TRUE, !.post = post])
                                 /\ post = session.post \/ post = "failed"
    <3>1. session.post \in WrtPosts /\ "failed" \in WrtPosts
      BY <1>1 DEF WrtRecord, WrtPosts
    <3> QED
      BY <1>3, <3>1 DEF WrtReturned
  <2> DEFINE new == [session EXCEPT !.pc = "ends", !.canceled = TRUE, !.post = post]
  <2>2. WrtMoves(s, "returned", new) /\ session.pc = "returned"
    BY <2>1 DEF WrtMoves
  <2>3. new \in WrtRecord /\ WrtFits(s, new, wrtServer)
    BY <1>1, <2>1, <2>2 DEF WrtRecord, WrtPcs, WrtInside, WrtFits
  <2> HIDE DEF new
  <2> QED
    BY <2>2, <2>3, WrtMovesFits
<1> QED
  BY <1>2, <1>3

\* What a handler, the terminator or the path does to a session.
LEMMA WrtHandlersNext ==
    ASSUME WrtInv, NEW s \in WrtIds,
           WrtPost(s) \/ WrtWake(s) \/ WrtCandidatesEnd(s) \/ WrtTerminate(s) \/ WrtPathCloses(s)
    PROVE  WrtInv'
<1> DEFINE session == wrtSession[s]
<1>1. /\ session \in WrtRecord /\ WrtFits(s, session, wrtServer) /\ session.attached \in BOOLEAN
      /\ session.canceled \in BOOLEAN /\ wrtSession \in [WrtIds -> WrtRecord]
  BY WrtFields DEF WrtInv
<1>2. ASSUME NEW new \in WrtRecord, wrtSession' = [wrtSession EXCEPT ![s] = new], wrtServer' = wrtServer,
             WrtFits(s, new, wrtServer)
      PROVE  WrtInv'
  BY <1>2, WrtOneFits
<1>3. CASE WrtPost(s)
  <2>1. PICK publish \in BOOLEAN :
           /\ wrtSession' = [wrtSession EXCEPT ![s] = [session EXCEPT !.post = "server", !.publish = publish]]
           /\ wrtServer' = wrtServer /\ session.post = "none"
    BY <1>1, <1>3 DEF WrtPost
  <2> DEFINE new == [session EXCEPT !.post = "server", !.publish = publish]
  <2>2. new \in WrtRecord /\ WrtFits(s, new, wrtServer)
    BY <1>1, <2>1 DEF WrtRecord, WrtPosts, WrtFits
  <2>3. wrtSession' = [wrtSession EXCEPT ![s] = new]
    BY <2>1
  <2> HIDE DEF new
  <2> QED
    BY <1>2, <2>1, <2>2, <2>3
<1>4. CASE WrtWake(s)
  <2>1. wrtServer' = wrtServer /\ session.post = "session"
    BY <1>4 DEF WrtWake
  <2>2. CASE session.pc = "waits" /\ wrtSession' = [wrtSession EXCEPT ![s].post = "waits", ![s].pc = "asks"]
    <3> DEFINE new == [session EXCEPT !.post = "waits", !.pc = "asks"]
    <3>1. wrtSession' = [wrtSession EXCEPT ![s] = new]
      BY <1>1, <2>2
    <3>2. new \in WrtRecord /\ WrtFits(s, new, wrtServer)
      BY <1>1, <2>2 DEF WrtRecord, WrtPosts, WrtPcs, WrtInside, WrtFits
    <3> HIDE DEF new
    <3> QED
      BY <1>2, <2>1, <3>1, <3>2
  <2>3. CASE wrtSession' = [wrtSession EXCEPT ![s].post = "failed"]
    <3> DEFINE new == [session EXCEPT !.post = "failed"]
    <3>1. wrtSession' = [wrtSession EXCEPT ![s] = new]
      BY <1>1, <2>3
    <3>2. new \in WrtRecord /\ WrtFits(s, new, wrtServer)
      BY <1>1 DEF WrtRecord, WrtPosts, WrtFits
    <3> HIDE DEF new
    <3> QED
      BY <1>2, <2>1, <3>1, <3>2
  <2> QED
    BY <1>4, <2>2, <2>3 DEF WrtWake
<1>5. CASE WrtCandidatesEnd(s)
  <2> DEFINE new == [session EXCEPT !.candidates = "ended"]
  <2>1. wrtSession' = [wrtSession EXCEPT ![s] = new] /\ wrtServer' = wrtServer
    BY <1>1, <1>5 DEF WrtCandidatesEnd
  <2>2. new \in WrtRecord /\ WrtFits(s, new, wrtServer)
    BY <1>1 DEF WrtRecord, WrtTakes, WrtFits
  <2> HIDE DEF new
  <2> QED
    BY <1>2, <2>1, <2>2
<1>6. CASE WrtTerminate(s)
  <2> DEFINE new == [session EXCEPT !.peer = "closed"]
  <2>1. wrtSession' = [wrtSession EXCEPT ![s] = new] /\ wrtServer' = wrtServer
    BY <1>1, <1>6 DEF WrtTerminate
  <2>2. new \in WrtRecord /\ WrtFits(s, new, wrtServer)
    BY <1>1 DEF WrtRecord, WrtPeers, WrtFits
  <2> HIDE DEF new
  <2> QED
    BY <1>2, <2>1, <2>2
<1>7. CASE WrtPathCloses(s)
  <2> DEFINE new == [session EXCEPT !.canceled = TRUE]
  <2>1. wrtSession' = [wrtSession EXCEPT ![s] = new] /\ wrtServer' = wrtServer
    BY <1>1, <1>7 DEF WrtPathCloses
  <2>2. new \in WrtRecord /\ WrtFits(s, new, wrtServer)
    BY <1>1 DEF WrtRecord, WrtFits
  <2> HIDE DEF new
  <2> QED
    BY <1>2, <2>1, <2>2
<1> QED
  BY <1>3, <1>4, <1>5, <1>6, <1>7

\* A session enters the map of the server, or leaves it.
LEMMA WrtServesNext ==
    ASSUME WrtInv, NEW s \in WrtIds, WrtNewSession(s) \/ WrtDelete(s) \/ WrtEnds(s)
    PROVE  WrtInv'
<1> DEFINE session == wrtSession[s]
<1>1. /\ session \in WrtRecord /\ WrtFits(s, session, wrtServer) /\ session.attached \in BOOLEAN
      /\ session.canceled \in BOOLEAN /\ wrtSession \in [WrtIds -> WrtRecord] /\ wrtServer \in WrtServerRecord
      /\ wrtServer.sessions \in SUBSET WrtIds
  BY WrtFields DEF WrtInv
<1>2. ASSUME NEW sessions \in SUBSET WrtIds
      PROVE  LET server == [wrtServer EXCEPT !.sessions = sessions]
             IN  /\ server \in WrtServerRecord /\ server.loop = wrtServer.loop
                 /\ server.canceled = wrtServer.canceled /\ server.sessions = sessions
  BY <1>1 DEF WrtServerRecord
<1>3. CASE WrtNewSession(s)
  <2>1. session.post = "server"
    BY <1>3 DEF WrtNewSession
  <2>2. CASE /\ wrtServer.loop = "runs" /\ wrtServer' = [wrtServer EXCEPT !.sessions = @ \cup {s}]
             /\ wrtSession' = [wrtSession EXCEPT ![s].post = "session", ![s].pc = "waits"]
    <3> DEFINE new == [session EXCEPT !.post = "session", !.pc = "waits"]
               server == [wrtServer EXCEPT !.sessions = wrtServer.sessions \cup {s}]
    <3>1. wrtSession' = [wrtSession EXCEPT ![s] = new] /\ wrtServer' = server
      BY <1>1, <2>2
    <3>2. /\ server \in WrtServerRecord /\ server.loop = wrtServer.loop /\ server.canceled = wrtServer.canceled
          /\ server.sessions = wrtServer.sessions \cup {s}
      BY <1>1, <1>2
    <3> HIDE DEF server
    <3>3. new \in WrtRecord
      BY <1>1 DEF WrtRecord, WrtPosts, WrtPcs
    <3>4. WrtFits(s, new, server)
      BY <1>1, <2>1, <2>2, <3>2 DEF WrtRecord, WrtInside, WrtFits
    <3> HIDE DEF new
    <3> QED
      BY <3>1, <3>2, <3>3, <3>4, WrtOneSession
  <2>3. CASE wrtServer' = wrtServer /\ wrtSession' = [wrtSession EXCEPT ![s].post = "failed"]
    <3> DEFINE new == [session EXCEPT !.post = "failed"]
    <3>1. wrtSession' = [wrtSession EXCEPT ![s] = new]
      BY <1>1, <2>3
    <3>2. new \in WrtRecord /\ WrtFits(s, new, wrtServer)
      BY <1>1 DEF WrtRecord, WrtPosts, WrtFits
    <3> HIDE DEF new
    <3> QED
      BY <2>3, <3>1, <3>2, WrtOneFits
  <2> QED
    BY <1>3, <2>2, <2>3 DEF WrtNewSession
<1>4. CASE WrtDelete(s)
  <2> DEFINE new == [session EXCEPT !.canceled = TRUE]
             server == [wrtServer EXCEPT !.sessions = wrtServer.sessions \ {s}]
  <2>1. wrtSession' = [wrtSession EXCEPT ![s] = new] /\ wrtServer' = server
    BY <1>1, <1>4 DEF WrtDelete, WrtRemoved
  <2>2. /\ server \in WrtServerRecord /\ server.loop = wrtServer.loop /\ server.canceled = wrtServer.canceled
        /\ server.sessions = wrtServer.sessions \ {s}
    BY <1>1, <1>2
  <2> HIDE DEF server
  <2>3. new \in WrtRecord
    BY <1>1 DEF WrtRecord
  <2>4. WrtFits(s, new, server)
    BY <1>1, <2>2 DEF WrtRecord, WrtFits
  <2> HIDE DEF new
  <2> QED
    BY <2>1, <2>2, <2>3, <2>4, WrtOneSession
<1>5. CASE WrtEnds(s)
  <2> DEFINE new == [session EXCEPT !.pc = "gone"]
  <2>1. wrtSession' = [wrtSession EXCEPT ![s] = new] /\ session.pc = "ends"
    BY <1>1, <1>5 DEF WrtEnds
  <2>2. new \in WrtRecord
    BY <1>1 DEF WrtRecord, WrtPcs
  <2>3. ~session.attached /\ session.peer # "open" /\ session.post \notin {"none", "server"}
    BY <1>1, <2>1 DEF WrtFits, WrtInside
  <2>4. ASSUME NEW server PROVE WrtFits(s, new, server)
    BY <1>1, <2>3 DEF WrtFits, WrtRecord
  <2> HIDE DEF new
  <2>5. CASE wrtServer' = [wrtServer EXCEPT !.sessions = wrtServer.sessions \ {s}]
    <3> DEFINE server == [wrtServer EXCEPT !.sessions = wrtServer.sessions \ {s}]
    <3>1. /\ server \in WrtServerRecord /\ server.loop = wrtServer.loop /\ server.canceled = wrtServer.canceled
          /\ server.sessions = wrtServer.sessions \ {s} /\ wrtServer' = server
      BY <1>1, <1>2, <2>5
    <3> HIDE DEF server
    <3> QED
      BY <2>1, <2>2, <2>4, <3>1, WrtOneSession
  <2>6. CASE wrtServer' = wrtServer
    BY <2>1, <2>2, <2>4, <2>6, WrtOneFits
  <2> QED
    BY <1>5, <2>5, <2>6 DEF WrtEnds
<1> QED
  BY <1>3, <1>4, <1>5

\* A PATCH changes a session at most by a candidate that it cannot use.
LEMMA WrtPatchNext ==
    ASSUME WrtInv, NEW p \in WrtPatches,
           (\E s \in WrtIds : WrtPatchAsks(p, s)) \/ WrtPatchFound(p) \/ WrtTakeCandidates(p) \/ WrtPatchFails(p)
    PROVE  WrtInv'
<1>1. wrtServer' = wrtServer
  BY DEF WrtPatchAsks, WrtPatchFound, WrtTakeCandidates, WrtPatchFails
<1>2. CASE wrtSession' = wrtSession
  BY <1>1, <1>2 DEF WrtInv
<1>3. CASE \E s \in WrtIds : wrtSession' = [wrtSession EXCEPT ![s].candidates = "stuck"]
  <2>1. PICK s \in WrtIds : wrtSession' = [wrtSession EXCEPT ![s].candidates = "stuck"]
    BY <1>3
  <2> DEFINE new == [wrtSession[s] EXCEPT !.candidates = "stuck"]
  <2>2. wrtSession[s] \in WrtRecord /\ WrtFits(s, wrtSession[s], wrtServer) /\ wrtSession \in [WrtIds -> WrtRecord]
    BY WrtFields DEF WrtInv
  <2>3. new \in WrtRecord /\ WrtFits(s, new, wrtServer) /\ wrtSession' = [wrtSession EXCEPT ![s] = new]
    BY <2>1, <2>2 DEF WrtRecord, WrtTakes, WrtFits
  <2> HIDE DEF new
  <2> QED
    BY <1>1, <2>3, WrtOneFits
<1>4. CASE \E s : s \notin WrtIds /\ wrtSession' = [wrtSession EXCEPT ![s].candidates = "stuck"]
  <2>1. wrtSession' = wrtSession
    BY <1>4 DEF WrtInv
  <2> QED
    BY <1>2, <2>1
<1>5. wrtSession' = wrtSession \/ \E s : wrtSession' = [wrtSession EXCEPT ![s].candidates = "stuck"]
  BY DEF WrtPatchAsks, WrtPatchFound, WrtTakeCandidates, WrtPatchFails
<1> QED
  BY <1>2, <1>3, <1>4, <1>5

LEMMA WrtInvNext ==
    ASSUME WrtInv, [WrtNext]_WrtVars PROVE WrtInv'
<1>1. CASE UNCHANGED WrtVars
  BY <1>1 DEF WrtVars, WrtInv
<1>2. CASE WrtClose \/ WrtLoopStops \/ WrtClosed
  <2>1. wrtServer \in WrtServerRecord /\ (wrtServer.loop # "runs" => wrtServer.canceled)
    BY DEF WrtInv
  <2>2. PICK server \in WrtServerRecord :
           /\ wrtServer' = server /\ wrtSession' = wrtSession /\ server.sessions = wrtServer.sessions
           /\ wrtServer.canceled => server.canceled
           /\ server.loop # "runs" => server.canceled
           /\ server.loop = "closed" => wrtServer.loop = "closed" \/ WrtWaits
    <3>1. \/ wrtServer' = [wrtServer EXCEPT !.canceled = TRUE]
          \/ wrtServer' = [wrtServer EXCEPT !.loop = "stopped"] /\ wrtServer.canceled
          \/ wrtServer' = [wrtServer EXCEPT !.loop = "closed"] /\ WrtWaits /\ wrtServer.loop = "stopped"
      BY <1>2 DEF WrtClose, WrtLoopStops, WrtClosed
    <3>2. wrtSession' = wrtSession
      BY <1>2 DEF WrtClose, WrtLoopStops, WrtClosed
    <3> QED
      BY <2>1, <3>1, <3>2 DEF WrtServerRecord
  <2>3. ASSUME NEW s \in WrtIds PROVE WrtFits(s, wrtSession[s], server)
    <3>1. WrtFits(s, wrtSession[s], wrtServer)
      BY DEF WrtInv
    <3> QED
      BY <2>2, <3>1 DEF WrtFits, WrtWaits, WrtRuns
  <2> QED
    BY <2>2, <2>3 DEF WrtInv
<1> QED
  BY <1>1, <1>2, WrtSessionNext, WrtFoundNext, WrtHandlersNext, WrtServesNext, WrtPatchNext, Zenon
     DEF WrtNext, WrtSessionMoves

LEMMA WrtInvInit ==
    ASSUME WrtInit PROVE WrtInv
<1>1. wrtSession = [s \in WrtIds |-> WrtNew] /\ WrtNew \in WrtRecord
  BY DEF WrtInit, WrtNew, WrtRecord, WrtPcs, WrtPosts, WrtPeers, WrtTakes
<1>2. wrtServer = [loop |-> "runs", canceled |-> FALSE, sessions |-> {}]
  BY DEF WrtInit
<1>3. wrtServer \in WrtServerRecord
  BY <1>2 DEF WrtServerRecord
<1>4. \A s \in WrtIds : WrtFits(s, WrtNew, wrtServer)
  BY <1>2 DEF WrtFits, WrtNew
<1> QED
  BY <1>1, <1>2, <1>3, <1>4 DEF WrtInv

\* What ends a session also ends what it holds.
LEMMA WrtNoneForgotten ==
    ASSUME WrtInv PROVE WrtSessionsLeave
<1>1. ASSUME NEW s \in WrtIds PROVE WrtFits(s, wrtSession[s], wrtServer)
  BY DEF WrtInv
<1> QED
  BY <1>1 DEF WrtSessionsLeave, WrtAttachedIsKnown, WrtClosedIsQuiet, WrtGoneHasLeft, WrtFits, WrtInside, WrtCanceled

\* A WebRTC session that is in a path is known to the server or told to end, and one that returned, or whose
\* server closed, has left its path and closed its peer connection (webrtc/server.go, webrtc/session.go).
THEOREM WrtSessionsLeaveHolds == WrtSpec => []WrtSessionsLeave
<1>1. WrtInit => WrtInv
  BY WrtInvInit
<1>2. WrtInv /\ [WrtNext]_WrtVars => WrtInv'
  BY WrtInvNext
<1>3. WrtInv => WrtSessionsLeave
  BY WrtNoneForgotten
<1> QED
  BY <1>1, <1>2, <1>3, PTL DEF WrtSpec

----------------------------------------------------------------------------
(* MtxSources: Run of a static source.                                     *)

SrcRuns == {"dial", "probe", "asks", "wait", "drain", "leaves", "returned", "idle", "out"}
SrcReaders == {"none", "probe", "asks", "reads", "leaves", "sends", "ended"}
SrcRecord ==
    [kind : SrcKinds, run : SrcRuns, reader : SrcReaders, conn : {"none", "open", "closed"},
     ready : BOOLEAN, stopped : BOOLEAN, ctx : BOOLEAN, reload : {"none", "new", "old"},
     result : {"error", "nil"}, runs : Nat]

\* Where Run and the reader are tells what they hold; only a handler that stops cancels Run.
SrcFits(s) ==
    /\ s.run \in {"probe", "asks", "leaves"} => s.kind = "whep"
    /\ s.run = "dial" => s.conn = "none"
    /\ s.run \in {"dial", "probe", "asks"} => s.reader = "none" /\ ~s.ready
    /\ s.run \in {"wait", "drain"} => s.reader \in {"probe", "asks", "reads", "leaves", "sends"}
    /\ s.kind = "whep" => s.reader \notin {"probe", "asks", "leaves"}
    /\ s.run \in {"leaves", "returned", "idle", "out"} => s.conn # "open" /\ s.reader \in {"none", "ended"}
    /\ s.run \in {"returned", "idle", "out"} => ~s.ready
    /\ s.kind # "whep" /\ s.ready => s.reader \in {"reads", "leaves"}
    /\ s.run \notin {"idle", "out"} /\ s.ctx => s.stopped
    /\ s.run = "drain" => s.ctx
    /\ s.run \in {"leaves", "returned"} /\ ~s.ctx => s.result = "error"

SrcInv == src \in SrcRecord /\ SrcFits(src)

\* Run that returns, fails in the path manager's answer, or is started.
LEMMA SrcReturnFits ==
    ASSUME NEW s \in SrcRecord, NEW result \in {"error", "nil"}, result = "error" \/ s.ctx,
           s.kind # "whep" => ~s.ready, s.reader \in {"none", "ended"}, s.ctx => s.stopped
    PROVE  SrcReturn(s, result) \in SrcRecord /\ SrcFits(SrcReturn(s, result))
<1> DEFINE e == SrcReturn(s, result)
           conn == IF s.conn = "open" THEN "closed" ELSE s.conn
           run == IF s.kind = "whep" /\ s.ready THEN "leaves" ELSE "returned"
<1>1. s.conn \in {"none", "open", "closed"} /\ s.kind \in SrcKinds /\ s.ready \in BOOLEAN
  BY DEF SrcRecord
<1>2. e = [s EXCEPT !.conn = conn, !.result = result, !.run = run]
  BY DEF SrcReturn
<1>3. conn \in {"none", "closed"} /\ run \in {"leaves", "returned"}
  BY <1>1
<1>4. (run = "leaves" => s.kind = "whep") /\ (run = "returned" => ~s.ready)
  OBVIOUS
<1> HIDE DEF e, conn, run
<1>5. /\ e \in SrcRecord /\ e.kind = s.kind /\ e.run = run /\ e.reader = s.reader /\ e.conn = conn /\ e.ready = s.ready
      /\ e.stopped = s.stopped /\ e.ctx = s.ctx /\ e.result = result
  BY <1>2, <1>3, ZenonT(40) DEF SrcRecord, SrcRuns
<1>6. SrcFits(e)
  BY <1>3, <1>4, <1>5 DEF SrcFits
<1> QED
  BY <1>5, <1>6 DEF e

LEMMA SrcFailFits ==
    ASSUME NEW s \in SrcRecord, SrcFits(s),
           (s.kind = "whep" /\ s.run \in {"probe", "asks"}) \/ (s.kind # "whep" /\ s.reader \in {"probe", "asks"})
    PROVE  SrcFail(s) \in SrcRecord /\ SrcFits(SrcFail(s))
<1>1. CASE s.kind = "whep"
  BY <1>1, SrcReturnFits DEF SrcFail, SrcFits
<1>2. CASE s.kind # "whep"
  BY <1>2 DEF SrcFail, SrcFits, SrcRecord, SrcReaders, SrcKinds
<1> QED
  BY <1>1, <1>2

LEMMA SrcCallFits ==
    ASSUME NEW s \in SrcRecord, ~s.ready PROVE SrcCall(s) \in SrcRecord /\ SrcFits(SrcCall(s))
<1>1. PICK b \in BOOLEAN : b = FALSE
  OBVIOUS
<1> DEFINE e == SrcCall(s)
           reload == IF s.reload = "new" THEN "old" ELSE s.reload
           runs == s.runs + 1
<1>2. e = [s EXCEPT !.run = "dial", !.reader = "none", !.conn = "none", !.ctx = b, !.reload = reload, !.runs = runs]
  BY <1>1, Zenon DEF SrcCall
<1>3. reload \in {"none", "new", "old"} /\ runs \in Nat /\ s.kind \in SrcKinds /\ b \in BOOLEAN
  BY <1>1 DEF SrcRecord
<1> HIDE DEF e, reload, runs
<1>4. "dial" \in SrcRuns /\ "none" \in SrcReaders /\ "none" \in {"none", "open", "closed"}
  BY DEF SrcRuns, SrcReaders
<1>5. /\ e \in SrcRecord /\ e.kind = s.kind /\ e.run = "dial" /\ e.reader = "none" /\ e.conn = "none" /\ e.ready = s.ready
      /\ e.ctx = b
  BY <1>2, <1>3, <1>4 DEF SrcRecord
<1>6. SrcFits(e)
  BY <1>1, <1>3, <1>5 DEF SrcFits
<1> QED
  BY <1>5, <1>6 DEF e

LEMMA SrcInvInit == SrcInit => SrcInv
<1> SUFFICES ASSUME SrcInit PROVE SrcInv
  OBVIOUS
<1>1. PICK b \in BOOLEAN, kind \in SrcKinds :
         /\ ~b
         /\ src = SrcCall([kind |-> kind, run |-> "idle", reader |-> "none", conn |-> "none",
                           ready |-> b, stopped |-> b, ctx |-> b, reload |-> "none",
                           result |-> "error", runs |-> 0])
  BY Zenon DEF SrcInit
<1> DEFINE s == [kind |-> kind, run |-> "idle", reader |-> "none", conn |-> "none",
                 ready |-> b, stopped |-> b, ctx |-> b, reload |-> "none", result |-> "error", runs |-> 0]
<1>2. s \in SrcRecord /\ ~s.ready
  BY <1>1 DEF SrcRecord, SrcRuns, SrcReaders
<1>3. src = SrcCall(s)
  BY <1>1
<1> HIDE DEF s
<1> QED
  BY <1>2, <1>3, SrcCallFits DEF SrcInv

LEMMA SrcInvNext == SrcInv /\ [SrcNext]_src => SrcInv'
<1> SUFFICES ASSUME SrcInv, [SrcNext]_src PROVE SrcInv'
  OBVIOUS
<1> USE DEF SrcInv
<1>1. CASE SrcDial
  <2>1. CASE src' = SrcReturn(src, "error")
    BY <1>1, <2>1, SrcReturnFits DEF SrcDial, SrcFits
  <2>2. CASE src' = [src EXCEPT !.conn = "open", !.run = "probe"] /\ src.kind = "whep"
    BY <1>1, <2>2 DEF SrcDial, SrcFits, SrcRecord, SrcRuns
  <2>3. CASE src' = [src EXCEPT !.conn = "open", !.run = "wait", !.reader = "probe"] /\ src.kind # "whep"
    BY <1>1, <2>3 DEF SrcDial, SrcFits, SrcRecord, SrcRuns, SrcReaders
  <2> QED
    BY <1>1, <2>1, <2>2, <2>3 DEF SrcDial
<1>2. CASE SrcReceive
  BY <1>2, SrcReturnFits DEF SrcReceive, SrcFits, SrcRecord, SrcRuns, SrcReaders
<1>3. CASE SrcTakeReload
  BY <1>3 DEF SrcTakeReload, SrcFits, SrcRecord
<1>4. CASE SrcCanceled
  BY <1>4 DEF SrcCanceled, SrcFits, SrcRecord, SrcRuns
<1>5. CASE SrcRunLeaves
  BY <1>5 DEF SrcRunLeaves, SrcFits, SrcRecord, SrcRuns
<1>6. CASE SrcProbe
  BY <1>6, SrcFailFits DEF SrcProbe, SrcAsker, SrcAskerAt, SrcFits, SrcRecord, SrcRuns, SrcReaders
<1>7. CASE SrcAccepted
  BY <1>7 DEF SrcAccepted, SrcAsker, SrcFits, SrcRecord, SrcRuns, SrcReaders
<1>8. CASE SrcRefused
  BY <1>8, SrcFailFits DEF SrcRefused, SrcAsker
<1>9. CASE SrcReadFails
  BY <1>9 DEF SrcReadFails, SrcFits, SrcRecord, SrcReaders
<1>10. CASE SrcReaderLeaves
  BY <1>10 DEF SrcReaderLeaves, SrcFits, SrcRecord, SrcReaders
<1>11. CASE SrcStop
  BY <1>11 DEF SrcStop, SrcFits, SrcRecord
<1>12. CASE SrcReload \/ SrcReloadDropped
  BY <1>12 DEF SrcReload, SrcReloadDropped, SrcFits, SrcRecord
<1>13. CASE SrcTold
  BY <1>13 DEF SrcTold, SrcFits, SrcRecord, SrcRuns
<1>14. CASE SrcRecreate
  BY <1>14, SrcCallFits DEF SrcRecreate, SrcFits
<1>15. CASE SrcHandlerEnds
  BY <1>15, ZenonT(40) DEF SrcHandlerEnds, SrcFits, SrcRecord, SrcRuns
<1>16. CASE SrcHandlerDone
  BY <1>16 DEF SrcHandlerDone, SrcFits, SrcRecord, SrcRuns
<1>17. CASE UNCHANGED src
  BY <1>17
<1> QED
  BY <1>1, <1>2, <1>3, <1>4, <1>5, <1>6, <1>7, <1>8, <1>9, <1>10, <1>11, <1>12, <1>13, <1>14, <1>15, <1>16, <1>17
     DEF SrcNext, SrcRunNext, SrcReaderNext, SrcHandlerNext

LEMMA SrcCleanFits == SrcInv => SrcEndsClean
  BY DEF SrcInv, SrcFits, SrcEndsClean, SrcRunCleans, SrcErrorIsReal

\* When Run of a static source has returned its connection is closed, its reader has ended and the path knows
\* that it is not ready, and it returned an error unless its context was cancelled (staticsources/handler.go,
\* staticsources/rtsp, rtmp, srt, mpegts, rtp, webrtc).
THEOREM SrcEndsCleanHolds == SrcSpec => []SrcEndsClean
<1>1. SrcInit => SrcInv
  BY SrcInvInit
<1>2. SrcInv /\ [SrcNext]_src => SrcInv'
  BY SrcInvNext
<1>3. SrcInv => SrcEndsClean
  BY SrcCleanFits
<1> QED
  BY <1>1, <1>2, <1>3, PTL DEF SrcSpec

----------------------------------------------------------------------------
(* MtxCommands: the commands of the hooks and their pool.                  *)

CmdAts == {"none", "starts", "runs", "killed", "pause", "done"}
CmdRecord == [at : CmdAts, terminate : BOOLEAN, process : {"none", "up", "ended"}]

\* A process belongs to a command that runs or is being killed, and a command to the hook that made it;
\* once the pool waits the hook is not open, and does not open any more.
CmdInv ==
    /\ cmd \in [CmdIds -> CmdRecord]
    /\ \A c \in CmdIds : cmd[c].process # "none" => cmd[c].at \in {"runs", "killed"}
    /\ hook = "none" => cmd["on"].at = "none"
    /\ hook # "left" => cmd["un"].at = "none"
    /\ pool # "open" => hook # "open"
    /\ pool = "closed" => \A c \in CmdIds : cmd[c].at \in {"none", "done"}

\* A step of one command.
LEMMA CmdToFits ==
    ASSUME CmdInv, NEW c \in CmdIds, NEW at \in CmdAts, NEW process \in {"none", "up", "ended"}, CmdTo(c, at, process),
           process # "none" => at \in {"runs", "killed"}, cmd[c].at \notin {"none", "done"}
    PROVE  CmdInv'
<1> DEFINE d == [cmd[c] EXCEPT !.at = at, !.process = process]
<1>1. cmd' = [cmd EXCEPT ![c] = d] /\ hook' = hook /\ pool' = pool
  BY DEF CmdTo, CmdInv, CmdRecord
<1>2. cmd[c] \in CmdRecord /\ d \in CmdRecord /\ d.at = at /\ d.process = process
  BY DEF CmdInv, CmdRecord
<1> HIDE DEF d
<1> QED
  BY <1>1, <1>2 DEF CmdInv, CmdIds

LEMMA CmdInvNext == CmdInv /\ [CmdNext]_CmdVars => CmdInv'
<1> SUFFICES ASSUME CmdInv, [CmdNext]_CmdVars PROVE CmdInv'
  OBVIOUS
<1>1. CASE CmdOpen
  <2>1. PICK new : cmd' = new /\ new \in {cmd, [cmd EXCEPT !["on"].at = "starts"]}
    BY <1>1 DEF CmdOpen, CmdNew
  <2>2. pool' = "open" /\ hook' = "open" /\ hook = "none" /\ pool = "open"
    BY <1>1 DEF CmdOpen
  <2>3. cmd \in [CmdIds -> CmdRecord] /\ cmd["on"].process = "none" /\ cmd["un"].process = "none" /\ cmd["un"].at = "none"
    BY <2>2 DEF CmdInv, CmdRecord, CmdIds
  <2>4. CASE new = cmd
    BY <2>1, <2>2, <2>4 DEF CmdInv
  <2>5. CASE new = [cmd EXCEPT !["on"].at = "starts"]
    <3>1. cmd' \in [CmdIds -> CmdRecord]
      BY <2>1, <2>3, <2>5 DEF CmdRecord, CmdIds, CmdAts
    <3>2. \A c \in CmdIds : cmd'[c].process = "none"
      BY <2>1, <2>3, <2>5 DEF CmdRecord, CmdIds
    <3>3. cmd'["un"].at = "none"
      BY <2>1, <2>3, <2>5 DEF CmdIds
    <3> QED
      BY <2>2, <3>1, <3>2, <3>3 DEF CmdInv
  <2> QED
    BY <2>1, <2>4, <2>5
<1>2. CASE CmdLeave
  <2>1. hook = "open" /\ hook' = "left" /\ pool = "open" /\ pool' = "open"
    BY <1>2 DEF CmdLeave, CmdInv
  <2>2. PICK ends \in BOOLEAN :
          \E new \in {cmd, [cmd EXCEPT !["un"].at = "starts"]} : cmd' = [new EXCEPT !["on"].terminate = ends]
    BY <1>2 DEF CmdLeave, CmdNew
  <2>3. PICK new \in {cmd, [cmd EXCEPT !["un"].at = "starts"]} : cmd' = [new EXCEPT !["on"].terminate = ends]
    BY <2>2
  <2>4. new \in [CmdIds -> CmdRecord] /\ \A c \in CmdIds : new[c].process # "none" => new[c].at \in {"runs", "killed"}
    <3>1. cmd \in [CmdIds -> CmdRecord] /\ cmd["un"].process = "none"
          /\ \A c \in CmdIds : cmd[c].process # "none" => cmd[c].at \in {"runs", "killed"}
      BY <2>1 DEF CmdInv, CmdIds
    <3>2. CASE new = cmd
      BY <3>1, <3>2
    <3>3. CASE new = [cmd EXCEPT !["un"].at = "starts"]
      <4>1. new \in [CmdIds -> CmdRecord]
        BY <3>1, <3>3 DEF CmdRecord, CmdIds, CmdAts
      <4>2. new["on"] = cmd["on"] /\ new["un"].process = "none"
        BY <3>1, <3>3 DEF CmdIds, CmdRecord
      <4> QED
        BY <3>1, <4>1, <4>2 DEF CmdIds
    <3> QED
      BY <2>3, <3>2, <3>3
  <2>5. cmd' \in [CmdIds -> CmdRecord] /\ \A c \in CmdIds : cmd'[c].process = new[c].process /\ cmd'[c].at = new[c].at
    <3>1. PICK on \in BOOLEAN : cmd' = [new EXCEPT !["on"] = [new["on"] EXCEPT !.terminate = on]] /\ new["on"] \in CmdRecord
      BY <2>2, <2>3, <2>4 DEF CmdIds
    <3>2. \A record \in CmdRecord : LET next == [record EXCEPT !.terminate = on]
                                  IN  next \in CmdRecord /\ next.process = record.process /\ next.at = record.at
      BY DEF CmdRecord
    <3> QED
      BY <2>4, <3>1, <3>2 DEF CmdIds
  <2> QED
    BY <2>1, <2>4, <2>5 DEF CmdInv
<1>3. ASSUME NEW c \in CmdIds, CmdRuns(c) PROVE CmdInv'
  <2>1. cmd[c].process \in {"none", "up", "ended"} /\ cmd[c].at \in CmdAts
        /\ (cmd[c].process # "none" => cmd[c].at \in {"runs", "killed"})
    BY DEF CmdInv, CmdRecord
  <2>2. PICK at \in CmdAts, process \in {"none", "up", "ended"} :
           /\ CmdTo(c, at, process) /\ cmd[c].at \notin {"none", "done"}
           /\ process # "none" => at \in {"runs", "killed"}
    <3>1. CASE CmdStart(c)
      BY <3>1 DEF CmdStart, CmdAfterExit, CmdAts
    <3>2. CASE CmdProcessEnds(c)
      BY <2>1, <3>2 DEF CmdProcessEnds
    <3>3. CASE CmdExited(c)
      BY <3>3 DEF CmdExited, CmdAfterExit, CmdAts
    <3>4. CASE CmdKill(c)
      BY <2>1, <3>4 DEF CmdKill, CmdAts
    <3>5. CASE CmdKilled(c) \/ CmdAgain(c) \/ CmdNotAgain(c)
      BY <3>5 DEF CmdKilled, CmdAgain, CmdNotAgain, CmdAts
    <3> QED
      BY <1>3, <3>1, <3>2, <3>3, <3>4, <3>5 DEF CmdRuns
  <2> QED
    BY <2>2, CmdToFits
<1>4. CASE CmdPoolClose \/ CmdPoolClosed
  BY <1>4 DEF CmdPoolClose, CmdPoolClosed, CmdInv
<1>5. CASE UNCHANGED CmdVars
  BY <1>5 DEF CmdVars, CmdInv
<1> QED
  BY <1>1, <1>2, <1>3, <1>4, <1>5 DEF CmdNext

LEMMA CmdInvInit == CmdInit => CmdInv
<1> SUFFICES ASSUME CmdInit PROVE CmdInv
  OBVIOUS
<1>1. PICK b \in BOOLEAN : hook = "none" /\ pool = "open"
                           /\ cmd = [c \in CmdIds |-> [at |-> "none", terminate |-> b, process |-> "none"]]
  BY Zenon DEF CmdInit
<1> QED
  BY <1>1 DEF CmdInv, CmdRecord, CmdAts, CmdIds

LEMMA CmdNoneLeftFits == CmdInv => CmdNoneLeft
  BY DEF CmdInv, CmdRecord, CmdAts, CmdNoneLeft

\* No process of a hook outlives the pool of commands, and none belongs to a command that has ended
\* (externalcmd/cmd.go, externalcmd/pool.go, hooks).
THEOREM CmdNoneLeftHolds == CmdSpec => []CmdNoneLeft
<1>1. CmdInit => CmdInv
  BY CmdInvInit
<1>2. CmdInv /\ [CmdNext]_CmdVars => CmdInv'
  BY CmdInvNext
<1>3. CmdInv => CmdNoneLeft
  BY CmdNoneLeftFits
<1> QED
  BY <1>1, <1>2, <1>3, PTL DEF CmdSpec

----------------------------------------------------------------------------
(* MCMediaMtx: the parts side by side.                                     *)

MtxSessionsInv == ConIndInv /\ RtsInv /\ WrtInv /\ SrcInv /\ CmdInv

LEMMA MtxSessionsInvInit == MtxInit => MtxSessionsInv
  BY ConInvInit, RtsInvInit, WrtInvInit, SrcInvInit, CmdInvInit, Zenon DEF MtxInit, MtxSessionsInv

LEMMA MtxSessionsInvNext == MtxSessionsInv /\ [MtxNext]_MtxVars => MtxSessionsInv'
<1> SUFFICES ASSUME MtxSessionsInv, [MtxNext]_MtxVars PROVE MtxSessionsInv'
  OBVIOUS
<1>1. [ConNext]_ConVars /\ [RtsNext]_RtsVars /\ [WrtNext]_WrtVars /\ [SrcNext]_src /\ [CmdNext]_CmdVars
  BY Zenon DEF MtxNext, MtxVars
<1> QED
  BY <1>1, ConInvNext, RtsInvNext, WrtInvNext, SrcInvNext, CmdInvNext, Zenon DEF MtxSessionsInv

\* Whoever ends, by itself, by a kick or with the server, leaves the path and the tables and nothing that
\* runs: the servers of the protocols, the static sources and the commands of the hooks, side by side.
THEOREM MtxSessionsLeaveHolds == MtxSpec => []MtxSessionsLeave
<1>1. MtxSessionsInv => MtxSessionsLeave
  BY ConNoneForgotten, RtsNoneForgotten, WrtNoneForgotten, SrcCleanFits, CmdNoneLeftFits, Zenon
     DEF MtxSessionsInv, MtxSessionsLeave
<1> QED
  BY <1>1, MtxSessionsInvInit, MtxSessionsInvNext, PTL DEF MtxSpec

----------------------------------------------------------------------------
(* The types of all parts.                                                 *)

\* A reload takes a configuration that an edit put there, and an instance is numbered by the reload
\* that makes it, so that no number is higher than the edits allow.
CorOne(b) == IF b THEN 1 ELSE 0
CorWaiting == Cardinality(corApi.sends) + CorOne(corFile.signal) + CorOne(corApi.handler = "sends")
CorBudget ==
    /\ IsFiniteSet(corApi.sends) /\ cor.edits <= CorMaxEdits
    /\ cor.reloads + CorWaiting <= cor.edits
    /\ \A r \in CorResources : corUp[r].id \in 0..(cor.reloads + 1)

CorTypedInv == CorInv /\ CorBudget

LEMMA CorIsTyped ==
    ASSUME CorInv
    PROVE  /\ cor \in CorRecord /\ corFile.signal \in BOOLEAN
           /\ cor.reloads \in Nat /\ cor.edits \in Nat /\ CorMaxEdits \in Nat
           /\ corApi \in [conf : CorConfs, handler : {"none", "sends"}, sends : SUBSET CorConfs]
           /\ corFile \in [conf : CorConfs, signal : BOOLEAN]
           /\ corUp = [r \in CorResources |-> corUp[r]]
<1>1. /\ cor \in CorRecord /\ corFile \in [conf : CorConfs, signal : BOOLEAN]
      /\ corApi \in [conf : CorConfs, handler : {"none", "sends"}, sends : SUBSET CorConfs]
      /\ corUp = [r \in CorResources |-> corUp[r]]
  BY DEF CorInv, CorTypes
<1> QED
  BY <1>1, CorAssumption DEF CorRecord

LEMMA CorOneIs == \A b \in BOOLEAN : CorOne(b) \in 0..1 /\ CorOne(FALSE) = 0 /\ CorOne(TRUE) = 1
  BY DEF CorOne

\* The budget of the next state from what a step does to its terms: the waiting configurations as
\* sends, signal and handler.
LEMMA CorBudgetStep ==
    ASSUME CorInv, CorBudget, IsFiniteSet(corApi'.sends), cor'.edits \in Nat, cor'.reloads \in Nat,
           cor'.edits <= CorMaxEdits, cor'.reloads >= cor.reloads,
           cor'.reloads + CorWaiting' - cor'.edits <= cor.reloads + CorWaiting - cor.edits,
           \A r \in CorResources : corUp'[r].id = corUp[r].id \/ corUp'[r].id \in 0..(cor'.reloads + 1)
    PROVE  CorBudget'
<1>1. CorWaiting \in Nat
  <2>1. Cardinality(corApi.sends) \in Nat
    BY FS_CardinalityType DEF CorBudget
  <2> QED
    BY <2>1 DEF CorWaiting, CorOne
<1>2. CorWaiting' \in Nat
  <2>1. Cardinality(corApi'.sends) \in Nat
    BY FS_CardinalityType
  <2> QED
    BY <2>1 DEF CorWaiting, CorOne
<1>3. cor'.reloads + CorWaiting' <= cor'.edits
  <2> HIDE DEF CorWaiting
  <2> QED
    BY <1>1, <1>2, CorIsTyped DEF CorBudget
<1>4. \A r \in CorResources : corUp'[r].id \in 0..(cor'.reloads + 1)
  BY CorIsTyped DEF CorBudget
<1> QED
  BY <1>3, <1>4 DEF CorBudget

\* A step that touches neither the edits nor the reloads nor what waits.
LEMMA CorBudgetSame ==
    ASSUME CorInv, CorBudget, cor'.edits = cor.edits, cor'.reloads = cor.reloads,
           corApi'.sends = corApi.sends, corApi'.handler = corApi.handler, corFile'.signal = corFile.signal,
           \A r \in CorResources : corUp'[r].id = corUp[r].id \/ corUp'[r].id \in 0..(cor.reloads + 1)
    PROVE  CorBudget'
<1>1. CorWaiting' = CorWaiting
  BY DEF CorWaiting
<1>2. \A r \in CorResources : corUp'[r].id \in 0..(cor.reloads + 1)
  BY DEF CorBudget
<1> QED
  BY <1>1, <1>2 DEF CorBudget

LEMMA CorBudgetNext == CorInv /\ CorBudget /\ [CorNext]_CorVars => CorBudget'
<1> SUFFICES ASSUME CorInv, CorBudget, [CorNext]_CorVars PROVE CorBudget'
  OBVIOUS
<1>1. /\ cor \in CorRecord /\ corFile.signal \in BOOLEAN
      /\ cor.reloads \in Nat /\ cor.edits \in Nat /\ CorMaxEdits \in Nat
      /\ corApi \in [conf : CorConfs, handler : {"none", "sends"}, sends : SUBSET CorConfs]
      /\ corFile \in [conf : CorConfs, signal : BOOLEAN]
      /\ corUp = [r \in CorResources |-> corUp[r]]
  BY CorIsTyped
<1>2. IsFiniteSet(corApi.sends) /\ Cardinality(corApi.sends) \in Nat /\ cor.edits <= CorMaxEdits
  BY FS_CardinalityType DEF CorBudget
<1>3. ASSUME NEW new, NEW b, CorReload(new, b)
      PROVE  cor'.edits = cor.edits /\ cor'.reloads = cor.reloads + 1 /\ cor'.edits \in Nat /\ cor'.reloads \in Nat
             /\ cor'.edits <= CorMaxEdits
  BY <1>1, <1>2, <1>3 DEF CorReload, CorRecord
<1>4. CASE CorReloadFile
  <2>1. /\ corFile.signal /\ corFile' = [corFile EXCEPT !.signal = FALSE] /\ CorReload(corFile.conf, FALSE)
        /\ UNCHANGED <<corUp, corApi>>
    BY <1>4 DEF CorReloadFile
  <2>2. corFile.signal = TRUE /\ corFile'.signal = FALSE
    BY <1>1, <2>1
  <2>3. CorWaiting = CorWaiting' + 1
    BY <1>1, <1>2, <2>1, <2>2 DEF CorWaiting, CorOne
  <2>4. CorWaiting \in Nat /\ CorWaiting' \in Nat
    BY <1>1, <1>2, <2>1, <2>2 DEF CorWaiting, CorOne
  <2>5. cor'.edits = cor.edits /\ cor'.reloads = cor.reloads + 1 /\ cor'.edits \in Nat /\ cor'.reloads \in Nat
        /\ cor'.edits <= CorMaxEdits
    BY <1>3, <2>1
  <2> HIDE DEF CorWaiting
  <2>6. /\ cor'.reloads >= cor.reloads
        /\ cor'.reloads + CorWaiting' - cor'.edits <= cor.reloads + CorWaiting - cor.edits
    BY <1>1, <2>3, <2>4, <2>5
  <2> QED
    BY <1>2, <2>1, <2>5, <2>6, CorBudgetStep
<1>5. CASE CorCloseOne
  <2>1. /\ cor' = [cor EXCEPT !.todo = @ \ {CorNextToClose(cor.todo)}] /\ UNCHANGED <<corFile, corApi>>
        /\ corUp' = [corUp EXCEPT ![CorNextToClose(cor.todo)] = CorDown]
    BY <1>5 DEF CorCloseOne
  <2>2. \A r \in CorResources : corUp'[r].id = corUp[r].id \/ corUp'[r].id \in 0..(cor.reloads + 1)
    BY <1>1, <2>1 DEF CorDown
  <2> QED
    BY <1>1, <2>1, <2>2, CorBudgetSame DEF CorRecord
<1>6. CASE CorApiReload
  BY <1>1, <1>6, CorBudgetSame DEF CorApiReload, CorRecord
<1>7. CASE CorClosed \/ CorCreateFails \/ CorCreated \/ CorStopped \/ CorClose
  BY <1>1, <1>7, CorBudgetSame DEF CorClosed, CorCreateFails, CorCreated, CorStopped, CorClose, CorRecord
<1>8. CASE CorCreateOne
  <2> DEFINE r == CorNextToMake(cor.todo)
             made == [id |-> cor.reloads + 1, from |-> [g \in CorSettings(r) |-> cor.conf[g]],
                      holds |-> [d \in CorHolds(r) |-> corUp[d].id]]
  <2>1. /\ cor' = [cor EXCEPT !.todo = @ \ {r}] /\ UNCHANGED corFile
        /\ corUp' = [corUp EXCEPT ![r] = made]
        /\ corApi' = corApi \/ corApi' = [corApi EXCEPT !.conf = cor.conf]
    BY <1>8 DEF CorCreateOne
  <2>2. made.id = cor.reloads + 1
    OBVIOUS
  <2> HIDE DEF made
  <2>3. \A q \in CorResources : corUp'[q].id = corUp[q].id \/ corUp'[q].id \in 0..(cor.reloads + 1)
    BY <1>1, <2>1, <2>2
  <2>4. corApi'.sends = corApi.sends /\ corApi'.handler = corApi.handler /\ corFile'.signal = corFile.signal
    BY <1>1, <2>1
  <2>5. cor'.edits = cor.edits /\ cor'.reloads = cor.reloads
    BY <1>1, <2>1 DEF CorRecord
  <2> QED
    BY <2>3, <2>4, <2>5, CorBudgetSame
<1>9. ASSUME CorTakeHandler PROVE CorBudget'
  <2>1. /\ corApi.handler = "sends" /\ corApi' = [corApi EXCEPT !.handler = "none"] /\ UNCHANGED <<corUp, corFile>>
        /\ CorReload(corApi.conf, TRUE) \/ UNCHANGED cor
    BY <1>9 DEF CorTakeHandler
  <2>2. corApi'.sends = corApi.sends /\ corApi'.handler = "none"
    BY <1>1, <2>1
  <2>3. CorWaiting = CorWaiting' + 1 /\ CorWaiting \in Nat /\ CorWaiting' \in Nat
    BY <1>1, <1>2, <2>1, <2>2 DEF CorWaiting, CorOne
  <2>4. cor'.edits = cor.edits /\ cor'.reloads \in {cor.reloads, cor.reloads + 1}
    BY <1>3, <2>1
  <2> HIDE DEF CorWaiting
  <2>5. /\ cor'.reloads >= cor.reloads /\ cor'.reloads \in Nat /\ cor'.edits \in Nat /\ cor'.edits <= CorMaxEdits
        /\ cor'.reloads + CorWaiting' - cor'.edits <= cor.reloads + CorWaiting - cor.edits
    BY <1>1, <1>2, <2>3, <2>4
  <2> QED
    BY <1>2, <2>1, <2>2, <2>5, CorBudgetStep
<1>10. ASSUME NEW conf \in corApi.sends, CorTakeSent(conf) PROVE CorBudget'
  <2>1. /\ corApi' = [corApi EXCEPT !.sends = corApi.sends \ {conf}] /\ UNCHANGED <<corUp, corFile>>
        /\ CorReload(conf, TRUE) \/ UNCHANGED cor
    BY <1>10 DEF CorTakeSent
  <2>2. corApi'.sends = corApi.sends \ {conf} /\ corApi'.handler = corApi.handler
    BY <1>1, <2>1
  <2>3. IsFiniteSet(corApi'.sends) /\ Cardinality(corApi'.sends) = Cardinality(corApi.sends) - 1
    BY <1>2, <1>10, <2>2, FS_RemoveElement
  <2>4. CorWaiting = CorWaiting' + 1 /\ CorWaiting \in Nat /\ CorWaiting' \in Nat
    <3>1. Cardinality(corApi'.sends) \in Nat
      BY <2>3, FS_CardinalityType
    <3> QED
      BY <1>1, <1>2, <2>1, <2>2, <2>3, <3>1 DEF CorWaiting, CorOne
  <2>5. cor'.edits = cor.edits /\ cor'.reloads \in {cor.reloads, cor.reloads + 1}
    BY <1>3, <2>1
  <2> HIDE DEF CorWaiting
  <2>6. /\ cor'.reloads >= cor.reloads /\ cor'.reloads \in Nat /\ cor'.edits \in Nat /\ cor'.edits <= CorMaxEdits
        /\ cor'.reloads + CorWaiting' - cor'.edits <= cor.reloads + CorWaiting - cor.edits
    BY <1>1, <1>2, <2>4, <2>5
  <2> QED
    BY <2>1, <2>3, <2>6, CorBudgetStep
<1>11. ASSUME CorCounted
       PROVE  cor'.edits = cor.edits + 1 /\ cor'.reloads = cor.reloads /\ cor'.edits \in Nat /\ cor'.reloads \in Nat
              /\ cor'.edits <= CorMaxEdits
  BY <1>1, <1>11 DEF CorCounted, CorRecord
<1>12. ASSUME NEW e \in CorEdits, CorFileChanges(e) PROVE CorBudget'
  <2>1. CorCounted /\ UNCHANGED <<corUp, corApi>>
    BY <1>12 DEF CorFileChanges
  <2>2. PICK seen \in BOOLEAN :
          corFile' = [conf |-> CorEdited(corFile.conf, e), signal |-> corFile.signal \/ seen]
    BY <1>12 DEF CorFileChanges
  <2>3. corFile'.signal \in BOOLEAN
    BY <2>2, Zenon
  <2>4. CorWaiting' <= CorWaiting + 1 /\ CorWaiting \in Nat /\ CorWaiting' \in Nat
    BY <1>1, <1>2, <2>1, <2>3 DEF CorWaiting, CorOne
  <2> HIDE DEF CorWaiting
  <2>5. cor'.edits = cor.edits + 1 /\ cor'.reloads = cor.reloads /\ cor'.edits \in Nat /\ cor'.reloads \in Nat
        /\ cor'.edits <= CorMaxEdits
    BY <1>11, <2>1
  <2>6. /\ cor'.reloads >= cor.reloads
        /\ cor'.reloads + CorWaiting' - cor'.edits <= cor.reloads + CorWaiting - cor.edits
    BY <1>1, <2>4, <2>5
  <2> QED
    BY <1>2, <2>1, <2>5, <2>6, CorBudgetStep
<1>13. ASSUME NEW e, NEW inGoroutine, CorEdit(e, inGoroutine) PROVE CorBudget'
  <2> DEFINE new == CorEdited(corApi.conf, e)
  <2>1. /\ CorCounted /\ UNCHANGED <<corUp, corFile>> /\ corApi.handler = "none"
        /\ \/ corApi' = [corApi EXCEPT !.conf = new, !.sends = corApi.sends \cup {new}]
           \/ corApi' = [corApi EXCEPT !.conf = new, !.handler = "sends"]
    BY <1>13 DEF CorEdit
  <2> HIDE DEF new
  <2>2. CASE corApi' = [corApi EXCEPT !.conf = new, !.sends = corApi.sends \cup {new}]
    <3>1. corApi'.sends = corApi.sends \cup {new} /\ corApi'.handler = corApi.handler
      BY <1>1, <2>2
    <3>2. IsFiniteSet(corApi'.sends) /\ Cardinality(corApi'.sends) <= Cardinality(corApi.sends) + 1
          /\ Cardinality(corApi'.sends) \in Nat
      <4>1. IsFiniteSet(corApi.sends \cup {new})
            /\ Cardinality(corApi.sends \cup {new}) \in {Cardinality(corApi.sends), Cardinality(corApi.sends) + 1}
        BY <1>2, FS_AddElement
      <4> QED
        BY <1>2, <3>1, <4>1
    <3>3. CorWaiting' <= CorWaiting + 1 /\ CorWaiting \in Nat /\ CorWaiting' \in Nat
      BY <1>1, <1>2, <2>1, <3>1, <3>2 DEF CorWaiting, CorOne
    <3> HIDE DEF CorWaiting
    <3>4. cor'.edits = cor.edits + 1 /\ cor'.reloads = cor.reloads /\ cor'.edits \in Nat /\ cor'.reloads \in Nat
          /\ cor'.edits <= CorMaxEdits
      BY <1>11, <2>1
    <3>5. /\ cor'.reloads >= cor.reloads
          /\ cor'.reloads + CorWaiting' - cor'.edits <= cor.reloads + CorWaiting - cor.edits
      BY <1>1, <3>3, <3>4
    <3> QED
      BY <2>1, <3>2, <3>4, <3>5, CorBudgetStep
  <2>3. CASE corApi' = [corApi EXCEPT !.conf = new, !.handler = "sends"]
    <3>1. corApi'.sends = corApi.sends /\ corApi'.handler = "sends"
      BY <1>1, <2>3
    <3>2. CorWaiting' = CorWaiting + 1 /\ CorWaiting \in Nat /\ CorWaiting' \in Nat
      BY <1>1, <1>2, <2>1, <3>1 DEF CorWaiting, CorOne
    <3> HIDE DEF CorWaiting
    <3>3. cor'.edits = cor.edits + 1 /\ cor'.reloads = cor.reloads /\ cor'.edits \in Nat /\ cor'.reloads \in Nat
          /\ cor'.edits <= CorMaxEdits
      BY <1>11, <2>1
    <3>4. /\ cor'.reloads >= cor.reloads
          /\ cor'.reloads + CorWaiting' - cor'.edits <= cor.reloads + CorWaiting - cor.edits
      BY <1>1, <3>2, <3>3
    <3> QED
      BY <1>2, <2>1, <3>1, <3>3, <3>4, CorBudgetStep
  <2> QED
    BY <2>1, <2>2, <2>3
<1>14. ASSUME NEW e \in CorEdits, CorPatchGlobal(e) \/ CorPatchPaths(e) PROVE CorBudget'
  BY <1>13, <1>14 DEF CorPatchGlobal, CorPatchPaths
<1>15. CASE UNCHANGED CorVars
  BY <1>15, CorBudgetSame DEF CorVars
<1> QED
  BY <1>4, <1>5, <1>6, <1>7, <1>8, <1>9, <1>10, <1>12, <1>14, <1>15 DEF CorNext

LEMMA CorBudgetInit == CorInit => CorBudget
<1> SUFFICES ASSUME CorInit PROVE CorBudget
  OBVIOUS
<1>1. cor.edits = 0 /\ cor.reloads = 0 /\ corFile.signal = FALSE /\ corApi.handler = "none" /\ corApi.sends = {}
      /\ \A r \in CorResources : corUp[r].id = 0
  BY DEF CorInit, CorDown
<1>2. CorWaiting = 0
  BY <1>1, FS_EmptySet DEF CorWaiting, CorOne
<1> QED
  BY <1>1, <1>2, FS_EmptySet, CorAssumption DEF CorBudget

\* The hook and the pool, which CmdInv leaves to their actions.
CmdHookTyped == hook \in {"none", "open", "left"} /\ pool \in {"open", "waits", "closed"}

LEMMA CmdHookTypedInit == CmdInit => CmdHookTyped
  BY DEF CmdInit, CmdHookTyped

LEMMA CmdHookTypedNext == CmdHookTyped /\ [CmdNext]_CmdVars => CmdHookTyped'
<1> SUFFICES ASSUME CmdHookTyped, [CmdNext]_CmdVars PROVE CmdHookTyped'
  OBVIOUS
<1> USE DEF CmdHookTyped
<1>1. CASE CmdOpen \/ CmdLeave
  <2>1. hook' \in {"open", "left"} /\ pool' = pool
    BY <1>1, Zenon DEF CmdOpen, CmdLeave
  <2> QED
    BY <2>1
<1>2. CASE CmdPoolClose \/ CmdPoolClosed
  BY <1>2 DEF CmdPoolClose, CmdPoolClosed
<1>3. ASSUME NEW c \in CmdIds, CmdRuns(c) PROVE CmdHookTyped'
  <2>1. UNCHANGED <<hook, pool>>
    BY <1>3, Zenon
       DEF CmdRuns, CmdStart, CmdProcessEnds, CmdExited, CmdKill, CmdKilled, CmdAgain, CmdNotAgain, CmdTo
  <2> QED
    BY <2>1
<1>4. CASE UNCHANGED CmdVars
  BY <1>4 DEF CmdVars
<1> QED
  BY <1>1, <1>2, <1>3, <1>4 DEF CmdNext

\* What the invariant of each part says of its types.
LEMMA MstIsTyped == MstInv => MstTypeOK
  BY DEF MstInv, MstRecord, MstTypeOK

LEMMA CorIsTypedOK == CorInv /\ CorBudget => CorTypeOK
<1> SUFFICES ASSUME CorInv, CorBudget PROVE CorTypeOK
  OBVIOUS
<1>1. cor.reloads <= CorMaxEdits
  <2>1. CorWaiting \in Nat
    <3>1. Cardinality(corApi.sends) \in Nat
      BY FS_CardinalityType DEF CorBudget
    <3> QED
      BY <3>1 DEF CorWaiting, CorOne
  <2> HIDE DEF CorWaiting
  <2> QED
    BY <2>1, CorIsTyped DEF CorBudget
<1>2. \A r \in CorResources : corUp[r].id \in 0..(CorMaxEdits + 1)
  BY <1>1, CorIsTyped DEF CorBudget
<1>3. cor.pc \in {"run", "close", "create", "stop", "done"} /\ cor.todo \subseteq CorResources
      /\ corApi.handler \in {"none", "sends"}
  BY CorIsTyped DEF CorRecord
<1> QED
  BY <1>2, <1>3 DEF CorTypeOK

LEMMA MpIsTyped == MpInv => MpTypeOK
<1> SUFFICES ASSUME MpInv PROVE MpTypeOK
  OBVIOUS
<1>1. mp \in MpRecord /\ mp.stream <= mp.made
  BY DEF MpInv, MpFits
<1>2. /\ mp.pc \in {"run", "stopping run", "stopping done", "done", "panic"} /\ mp.source \in MpSources
      /\ mp.stream \in 0..MpMaxStreams /\ mp.made \in 0..MpMaxStreams
      /\ mp.demand \in {"initial", "waitingReady", "ready", "closing"}
      /\ mp.readers \in SUBSET MpClients /\ mp.sessions \in MpSessions
  BY <1>1 DEF MpRecord
<1>3. mp.made \in mp.stream..MpMaxStreams
  <2>1. mp.stream \in 0..MpMaxStreams /\ mp.made \in 0..MpMaxStreams /\ mp.stream <= mp.made
    BY <1>1, <1>2
  <2> QED
    BY <2>1, MpNaturals
<1> QED
  BY <1>2, <1>3 DEF MpSources, MpSessions, MpTypeOK

LEMMA PmIsTyped == PmInv => PmTypeOK
<1> SUFFICES ASSUME PmInv PROVE PmTypeOK
  OBVIOUS
<1>1. /\ pm \in PmRecord /\ pmPath \in [PmIds -> PmPathRecord] /\ pmClient \in [PmClients -> PmClientRecord]
      /\ \A n \in DOMAIN pm.paths : PmListed(n)
  BY DEF PmInv, PmTypes
<1>2. pm.pc \in {"run", "reload", "wait", "done"} /\ pm.confs \in PmConfMaps /\ pm.paths \in PmTables
      /\ pm.hls \in PmServers
  BY <1>1 DEF PmRecord
<1>3. PICK ns \in SUBSET PmNames : pm.paths \in [ns -> PmEntries]
  BY <1>2 DEF PmTables
<1>4. \A n \in DOMAIN pm.paths : pm.paths[n].path \in PmMade
  <2> SUFFICES ASSUME NEW n \in DOMAIN pm.paths PROVE pm.paths[n].path \in PmMade
    OBVIOUS
  <2>1. pm.paths[n].path \in PmIds
    BY <1>3 DEF PmEntries
  <2>2. pmPath[pm.paths[n].path].pc # "none"
    BY <1>1 DEF PmListed, PmEntryFits
  <2> QED
    BY <2>1, <2>2 DEF PmMade
<1>5. \A i \in PmIds : /\ pmPath[i].pc \in {"none", "run", "ending", "done"}
                       /\ pmPath[i].tells \in {"nothing", "ready", "notReady", "close"}
  BY <1>1 DEF PmPathRecord
<1>6. \A x \in PmClients : pmClient[x].is \in {"idle", "found", "asked", "using"}
  BY <1>1 DEF PmClientRecord
<1>7. DOMAIN pm.paths \subseteq PmNames /\ pm.hls.ready \subseteq PmIds
  BY <1>2, <1>3 DEF PmServers
<1> QED
  BY <1>2, <1>4, <1>5, <1>6, <1>7 DEF PmTypeOK

LEMMA PcoIsTyped == PcoInv => PcoTypeOK
<1> SUFFICES ASSUME PcoInv PROVE PcoTypeOK
  OBVIOUS
<1>1. /\ pco.user \in PcoUsers /\ pco.closer \in {"watches", "closing", "closed"}
      /\ pco.run \in {"loop", "closing", "graceful", "waits", "done"}
      /\ pco.started \in SUBSET PcoTracks /\ pco.released \in SUBSET PcoTracks
  BY DEF PcoInv, PcoRecord
<1> QED
  BY <1>1 DEF PcoUsers, PcoTypeOK

LEMMA SessionsAreTyped ==
    ConInv /\ RtsInv /\ WrtInv /\ SrcInv /\ CmdInv /\ CmdHookTyped =>
        ConTypeOK /\ RtsTypeOK /\ WrtTypeOK /\ SrcTypeOK /\ CmdTypeOK
<1>1. ConInv => ConTypeOK
  BY DEF ConInv, ConServerRecord, ConRecord, ConSocks, ConTypeOK
<1>2. RtsInv => RtsTypeOK
  BY DEF RtsInv, RtsServerRecord, RtsRecordSet, RtsStates, RtsTypeOK
<1>3. WrtInv => WrtTypeOK
  BY DEF WrtInv, WrtServerRecord, WrtRecord, WrtPosts, WrtPeers, WrtTakes, WrtTypeOK
<1>4. SrcInv => SrcTypeOK
  BY DEF SrcInv, SrcRecord, SrcRuns, SrcReaders, SrcTypeOK
<1>5. CmdInv /\ CmdHookTyped => CmdTypeOK
  BY DEF CmdInv, CmdRecord, CmdAts, CmdHookTyped, CmdTypeOK
<1> QED
  BY <1>1, <1>2, <1>3, <1>4, <1>5

\* The invariants of all parts together.
MtxInv ==
    /\ MpInv /\ PmInv /\ MstInv /\ CorInv /\ CorBudget /\ RecInv /\ PcoInv
    /\ MtxSessionsInv /\ CmdHookTyped

LEMMA MtxInvInit == MtxInit => MtxInv
  BY MpInvInit, PmInvInit, MstInvInit, CorInvInit, CorBudgetInit, RecInitFits, PcoInvInit, MtxSessionsInvInit,
     CmdHookTypedInit, Zenon DEF MtxInit, MtxInv

LEMMA MtxInvNext == MtxInv /\ [MtxNext]_MtxVars => MtxInv'
<1> SUFFICES ASSUME MtxInv, [MtxNext]_MtxVars PROVE MtxInv'
  OBVIOUS
<1>1. /\ [MpNext]_mp /\ [PmNext]_PmVars /\ [MstNext]_MstVars /\ [CorNext]_CorVars /\ [RecNext]_rec
      /\ [PcoNext]_pco /\ [CmdNext]_CmdVars
  BY Zenon DEF MtxNext, MtxVars
<1>2. RecInv'
  BY <1>1, RecNextKeeps, Zenon DEF MtxInv
<1>3. MtxSessionsInv'
  BY MtxSessionsInvNext, Zenon DEF MtxInv
<1> QED
  BY <1>1, <1>2, <1>3, MpInvNext, PmInvNext, MstInvNext, CorInvNext, CorBudgetNext, PcoInvNext, CmdHookTypedNext, Zenon
     DEF MtxInv

\* Every part of MediaMTX is in one of its places and keeps to its bounds: no resource is numbered beyond the
\* reloads that edits account for, no path has more streams than it made, every entry of the table stands for
\* a path that was made, and no buffer holds more than its size.
THEOREM MtxTypeOKHolds == MtxSpec => []MtxTypeOK
<1>1. MtxInv => MtxTypeOK
  <2> SUFFICES ASSUME MtxInv PROVE MtxTypeOK
    OBVIOUS
  <2>1. MpTypeOK /\ PmTypeOK /\ MstTypeOK /\ CorTypeOK /\ PcoTypeOK
    BY MpIsTyped, PmIsTyped, MstIsTyped, CorIsTypedOK, PcoIsTyped, Zenon DEF MtxInv
  <2>2. RecTypeOK
    BY RecInvSays, Zenon DEF MtxInv
  <2>3. ConTypeOK /\ RtsTypeOK /\ WrtTypeOK /\ SrcTypeOK /\ CmdTypeOK
    BY SessionsAreTyped, Zenon DEF MtxInv, MtxSessionsInv, ConIndInv
  <2> QED
    BY <2>1, <2>2, <2>3, Zenon DEF MtxTypeOK
<1> QED
  BY <1>1, MtxInvInit, MtxInvNext, PTL DEF MtxSpec
=============================================================================
