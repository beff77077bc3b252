----------------------------- MODULE MCMediaMtx -----------------------------
(***************************************************************************)
(* The parts of MediaMTX on small instances.  Each module's environment    *)
(* stands for the parts it talks to, so the parts are explored side by     *)
(* side: a behaviour is one of one part, chosen at first, and the others   *)
(* stay as they begin.                                                     *)
(***************************************************************************)
EXTENDS MtxPath, MtxPathManager, MtxStream, MtxCore, MtxConns, MtxRtsp, MtxWebrtc, MtxRecorder,
        MtxPeerConn, MtxSources, MtxCommands

CONSTANTS pathA, r1, r2, c1, c2, s1, p1, p2

VARIABLE part    \* the part that moves

----------------------------------------------------------------------------
(* The instances.                                                          *)

Readers == {r1, r2}
\* The loops of the two servers are the same code: two connections of one of them will do.
Conns == [kind \in ConKinds |-> IF kind = "rtmp" THEN {c1, c2} ELSE {c1}]
Sessions == {s1}
Patches == {p1, p2}

MpIs(source, demand, regexp, override, readers) ==
    [source |-> source, demand |-> demand, regexp |-> regexp, override |-> override,
     maxReaders |-> readers, record |-> FALSE]

IdlePathConf == MpIs("static", FALSE, FALSE, FALSE, 0)

PathConfs ==
    {IdlePathConf, MpIs("redirect", FALSE, TRUE, FALSE, 0), MpIs("static", TRUE, TRUE, FALSE, 1),
     MpIs("publisher", FALSE, TRUE, TRUE, 0), MpIs("publisher", TRUE, TRUE, TRUE, 0),
     MpIs("publisher", TRUE, FALSE, FALSE, 1)}

PmIs(conf, regexp, static, base, hot) ==
    [conf |-> conf, regexp |-> regexp, static |-> static, base |-> base, hot |-> hot]

\* The only name is matched by a regular expression, or has a configuration of its own.
ByRegexp == [n \in PmNames |-> PmIs("all", TRUE, FALSE, 1, 0)]
StaticConf == [n \in PmNames |-> PmIs(pathA, FALSE, TRUE, 2, 0)]
ConfMaps ==
    {ByRegexp, StaticConf, [n \in PmNames |-> PmIs(pathA, FALSE, FALSE, 1, 0)]}

\* An edit changes a group of settings to another value, or switches a server off.
Edits == {<<group, "b">> : group \in {"rtmps", "cleaner", "hooks"}}
         \cup {<<"rtspEncryption", "no">>, <<"rtmp", "off">>, <<"metrics", "off">>}

IdleSetup == <<"fmp4", "av1">>
Setups == {IdleSetup, <<"fmp4", "skip">>, <<"mpegts", "h26x">>}
Steps == {-1, 1, 2}

----------------------------------------------------------------------------
PartNames == {"path", "manager", "stream", "core", "conns", "rtsp", "webrtc", "recorder", "peer",
              "source", "commands"}

MtxVars == <<part, mp, PmVars, MstVars, CorVars, ConVars, RtsVars, WrtVars, rec, pco, src,
             CmdVars>>

MtxInit ==
    /\ part \in PartNames
    /\ MpInit /\ PmInit /\ MstInit /\ CorInit /\ ConInit /\ RtsInit /\ WrtInit /\ RecInit /\ PcoInit
    /\ SrcInit /\ CmdInit
    /\ part = "path" \/ mp.conf = IdlePathConf
    /\ pm.confs = ByRegexp \/ (part = "manager" /\ pm.confs = StaticConf)
    /\ part = "conns" \/ conServer.kind = "rtmp"
    /\ part = "recorder" \/ rec.setup = IdleSetup
    /\ part = "peer" \/ pco.role = "publish"
    /\ part = "source" \/ src.kind = "stream"
    /\ part = "commands" \/ ~restart

MtxNext ==
    /\ UNCHANGED part
    /\ IF part = "path" THEN MpNext ELSE UNCHANGED mp
    /\ IF part = "manager" THEN PmNext ELSE UNCHANGED PmVars
    /\ IF part = "stream" THEN MstNext ELSE UNCHANGED MstVars
    /\ IF part = "core" THEN CorNext ELSE UNCHANGED CorVars
    /\ IF part = "conns" THEN ConNext ELSE UNCHANGED ConVars
    /\ IF part = "rtsp" THEN RtsNext ELSE UNCHANGED RtsVars
    /\ IF part = "webrtc" THEN WrtNext ELSE UNCHANGED WrtVars
    /\ IF part = "recorder" THEN RecNext ELSE UNCHANGED rec
    /\ IF part = "peer" THEN PcoNext ELSE UNCHANGED pco
    /\ IF part = "source" THEN SrcNext ELSE UNCHANGED src
    /\ IF part = "commands" THEN CmdNext ELSE UNCHANGED CmdVars

\* The fairness of every module, in lots of one step each: as only one part moves, a
\* condition on a lot says the same as one on each of its steps.
MtxMoving ==
    CASE part = "path" -> mp [] part = "manager" -> PmVars [] part = "stream" -> MstVars
      [] part = "core" -> CorVars [] part = "conns" -> ConVars [] part = "rtsp" -> RtsVars
      [] part = "webrtc" -> WrtVars [] part = "recorder" -> rec [] part = "peer" -> pco
      [] part = "source" -> src [] part = "commands" -> CmdVars

MtxGoesOn(k) ==
    /\ UNCHANGED part
    /\ CASE part = "path" -> (k = 1 /\ MpGoesOn) \/ (k = 2 /\ MpHandlerGoesOn)
         [] part = "manager" -> (k = 1 /\ PmPathEnded) \/ (k \in 2..3 /\ PmNotHeard(k - 1))
         [] part = "stream" ->
              \/ k \in 1..2 /\ MstPullClosed(<<r1, r2>>[k])
              \/ k \in 3..4 /\ MstSessionGoesOn(<<r1, r2>>[k - 2])
         [] part = "conns" ->
              \/ k = 1 /\ ConLoopGoesOn
              \/ k = 2 /\ ConListenerEnds
              \/ k \in 3..4 /\ ConGoesOn(<<c1, c2>>[k - 2])
         [] part = "webrtc" ->
              \/ k = 1 /\ WrtLoopGoesOn
              \/ k = 2 /\ WrtPostGoesOn(s1)
              \/ k = 3 /\ WrtGoesOn(s1)
              \/ k = 4 /\ WrtTerminate(s1)
              \/ k = 5 /\ WrtCandidatesEnd(s1)
              \/ k \in 6..7 /\ WrtPatchGoesOn(<<p1, p2>>[k - 5])
         [] part = "recorder" ->
              (k = 1 /\ RecInstanceEnds("none")) \/ (k = 2 /\ RecSupervisorGoesOn)
         [] part = "peer" ->
              \/ k = 1 /\ PcoReports
              \/ k = 2 /\ PcoRunGoesOn
              \/ k = 3 /\ PcoCloseGoesOn
              \/ k = 4 /\ PcoUserGoesOn
         [] part = "source" ->
              \/ k = 1 /\ SrcRunGoesOn
              \/ k = 2 /\ SrcReaderGoesOn
              \/ k = 3 /\ SrcHandlerGoesOn
              \/ k = 4 /\ SrcReloadDropped
         [] part = "commands" -> k \in 1..2 /\ CmdGoesOn(<<"on", "un">>[k])
         [] OTHER -> FALSE

MtxAtLast(k) ==
    /\ UNCHANGED part
    /\ CASE part = "path" -> k = 1 /\ MpHandlerCanceled
         [] part = "manager" -> PmToldCloses(k)
         [] part = "stream" -> MstRemoveReader(<<r1, r2>>[k])
         [] part = "recorder" -> k = 1 /\ RecTerminated
         [] part = "peer" -> (k = 1 /\ PcoDropped) \/ (k = 2 /\ PcoTerminated)
         [] part = "commands" -> CmdTerminated(<<"on", "un">>[k])
         [] OTHER -> FALSE

MtxFairness ==
    /\ \A k \in 1..7 : WF_MtxMoving(MtxGoesOn(k))
    /\ \A k \in 1..2 : SF_MtxMoving(MtxAtLast(k))

MtxSpec == MtxInit /\ [][MtxNext]_MtxVars /\ MtxFairness

----------------------------------------------------------------------------
(* Properties over the parts.                                              *)

\* The steps and tables of every part.
MtxTypeOK ==
    /\ MpTypeOK /\ PmTypeOK /\ MstTypeOK /\ CorTypeOK /\ ConTypeOK /\ RtsTypeOK /\ WrtTypeOK
    /\ RecTypeOK /\ PcoTypeOK /\ SrcTypeOK /\ CmdTypeOK

\* The servers of the protocols, the static sources and the commands: whoever ends,
\* by itself, by a kick or with the server, leaves the path, the tables and nothing
\* that runs.
MtxSessionsLeave ==
    ConSessionsLeave /\ RtsSessionsLeave /\ WrtSessionsLeave /\ SrcEndsClean /\ CmdNoneLeft

\* Nobody waits for ever for a goroutine that has ended or waits in turn: stopping
\* a source, reloading, removing a reader, closing a server, an answer to WHIP, the
\* end of a recorder, a peer connection, a source and a command.  As only one part moves, this is
\* MpStopReturns, PmReloadReturns, MstRemoveEnds, ConServerEnds, WrtPostAnswered,
\* WrtPatchAnswered, RecCloseReturns, RecRecordsAgain, PcoCloseEnds, PcoCancelEnds,
\* SrcStopReturns and CmdEnds.
MtxServed(k) ==
    /\ MpServed /\ PmServed /\ ConServed /\ SrcServed
    /\ k \in 1..2 => MstServed(<<r1, r2>>[k]) /\ WrtPatchServed(<<p1, p2>>[k])
                  /\ CmdServed(<<"on", "un">>[k])
    /\ k = 1 => RecCloseServed /\ PcoCloseServed
    /\ k = 2 => RecRecords /\ PcoCancelServed
    /\ k = 3 => WrtPostServed(s1)
MtxNobodyWaits == \A k \in 1..3 : []<>MtxServed(k)
=============================================================================
