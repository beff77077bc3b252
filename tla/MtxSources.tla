----------------------------- MODULE MtxSources -----------------------------
(***************************************************************************)
(* The static sources of MediaMTX: Source.Run over RTSP, RTMP, SRT,        *)
(* MPEG-TS, RTP and WHEP, with the goroutine that reads, and the part of   *)
(* staticsources.Handler.run that starts Run, cancels its context and      *)
(* waits for it.  What the handler and the path do with the requests is in *)
(* MtxPath.  "stream" stands for the RTSP, RTMP and SRT sources, "packets" *)
(* for MPEG-TS and RTP over a socket: they only differ in what Run returns *)
(* when it is cancelled.  The source of a WHEP server asks the path from   *)
(* Run itself; the others from the reader.                                 *)
(***************************************************************************)
EXTENDS Naturals

CONSTANT SrcMaxRuns         \* bound: how often the handler calls Run
ASSUME SrcAssumption == SrcMaxRuns \in Nat \ {0}

VARIABLE src
(* kind     which source                                                   *)
(* run      where Run is; "idle" between two runs, "out" after the handler *)
(* reader   where the goroutine that reads is                              *)
(* conn     the connection to the camera                                   *)
(* ready    SetReady was answered and SetNotReady not yet called           *)
(* stopped  Handler.Stop has cancelled the handler's context               *)
(* ctx      the handler has cancelled the context of Run                   *)
(* reload   a goroutine of ReloadConf waits to hand over a configuration:  *)
(*          "new" for this call of Run, "old" for an earlier one           *)
(* result   what Run returned                                              *)

SrcKinds == {"stream", "packets", "whep"}

SrcCall(s) ==
    [s EXCEPT !.run = "dial", !.reader = "none", !.conn = "none", !.ctx = FALSE,
              !.reload = IF @ = "new" THEN "old" ELSE @, !.runs = @ + 1]

SrcInit ==
    \E kind \in SrcKinds :
        src = SrcCall([kind |-> kind, run |-> "idle", reader |-> "none", conn |-> "none",
                       ready |-> FALSE, stopped |-> FALSE, ctx |-> FALSE, reload |-> "none",
                       result |-> "error", runs |-> 0])

\* Who asks the path: Run of the WHEP source, the reader of the others.
SrcAsker == IF src.kind = "whep" THEN src.run ELSE src.reader
SrcAskerAt(step) ==
    IF src.kind = "whep" THEN [src EXCEPT !.run = step] ELSE [src EXCEPT !.reader = step]

\* Run returns; the WHEP source calls SetNotReady first, if it was ready.
SrcReturn(s, result) ==
    [s EXCEPT !.conn = IF @ = "open" THEN "closed" ELSE @, !.result = result,
              !.run = IF s.kind = "whep" /\ s.ready THEN "leaves" ELSE "returned"]

\* The asker meets an error: the reader hands it to Run.
SrcFail(s) ==
    IF s.kind = "whep" THEN SrcReturn(s, "error") ELSE [s EXCEPT !.reader = "sends"]

----------------------------------------------------------------------------
(* Run.                                                                    *)

SrcDial ==
    /\ src.run = "dial"
    /\ \/ src' = SrcReturn(src, "error")
       \/ src.kind = "whep" /\ src' = [src EXCEPT !.conn = "open", !.run = "probe"]
       \/ src.kind # "whep" /\ src' = [src EXCEPT !.conn = "open", !.run = "wait", !.reader = "probe"]

\* The first case of the select, or the reception after the context was cancelled.
SrcReceive ==
    /\ src.reader = "sends"
    /\ src.run \in {"wait", "drain"}
    /\ LET nil == src.run = "drain" /\ src.kind = "stream"
       IN  src' = SrcReturn([src EXCEPT !.reader = "ended"], IF nil THEN "nil" ELSE "error")

SrcTakeReload == src.run = "wait" /\ src.reload # "none" /\ src' = [src EXCEPT !.reload = "none"]

SrcCanceled ==
    src.run = "wait" /\ src.ctx /\ src' = [src EXCEPT !.conn = "closed", !.run = "drain"]

SrcRunLeaves ==
    src.run = "leaves" /\ src' = [src EXCEPT !.ready = FALSE, !.run = "returned"]

----------------------------------------------------------------------------
(* The reader: the tracks are found, the path is asked, units are read.    *)

SrcProbe ==
    /\ SrcAsker = "probe"
    /\ src' = SrcFail(src) \/ (src.conn = "open" /\ src' = SrcAskerAt("asks"))

\* The path takes the source, or refuses; once the handler stops, it is the handler that refuses.
SrcAccepted ==
    /\ SrcAsker = "asks" /\ ~src.stopped
    /\ src' = [src EXCEPT !.ready = TRUE, !.run = "wait", !.reader = "reads"]
SrcRefused == SrcAsker = "asks" /\ src' = SrcFail(src)

\* The camera ends, the read deadline passes or the connection was closed.
SrcReadFails ==
    /\ src.reader = "reads"
    /\ src' = [src EXCEPT !.reader = IF src.kind = "whep" THEN "sends" ELSE "leaves"]

SrcReaderLeaves ==
    src.reader = "leaves" /\ src' = [src EXCEPT !.ready = FALSE, !.reader = "sends"]

----------------------------------------------------------------------------
(* The handler.                                                            *)

SrcStop == ~src.stopped /\ src' = [src EXCEPT !.stopped = TRUE]

SrcReload ==
    /\ src.run \notin {"idle", "out"} /\ ~src.stopped /\ src.reload = "none"
    /\ src' = [src EXCEPT !.reload = "new"]
SrcReloadDropped ==
    /\ src.reload = "old" \/ (src.reload = "new" /\ src.ctx)
    /\ src' = [src EXCEPT !.reload = "none"]

\* The handler is told that Run returned, and logs the error.
SrcTold ==
    /\ src.run = "returned" /\ ~src.ctx
    /\ src' = [src EXCEPT !.run = "idle", !.ctx = TRUE]

SrcRecreate == src.run = "idle" /\ src.runs < SrcMaxRuns /\ src' = SrcCall(src)

\* The handler sees the end of its context: it cancels Run, if one runs, and waits for it.
SrcHandlerEnds ==
    /\ src.stopped
    /\ \/ src.run = "idle" /\ src' = [src EXCEPT !.run = "out"]
       \/ src.run \notin {"idle", "out"} /\ ~src.ctx /\ src' = [src EXCEPT !.ctx = TRUE]
SrcHandlerDone == src.run = "returned" /\ src.ctx /\ src' = [src EXCEPT !.run = "out"]

SrcRunNext ==
    SrcDial \/ SrcReceive \/ SrcTakeReload \/ SrcCanceled \/ SrcRunLeaves
SrcReaderNext == SrcProbe \/ SrcAccepted \/ SrcRefused \/ SrcReadFails \/ SrcReaderLeaves
SrcHandlerNext ==
    \/ SrcStop \/ SrcReload \/ SrcReloadDropped \/ SrcTold \/ SrcRecreate
    \/ SrcHandlerEnds \/ SrcHandlerDone

SrcNext == SrcRunNext \/ SrcReaderNext \/ SrcHandlerNext

\* Run goes on; so does the reader, which may read on for ever as long as the connection is open;
\* and the handler.
SrcRunGoesOn == SrcDial \/ SrcReceive \/ SrcCanceled \/ SrcRunLeaves
SrcReaderGoesOn ==
    \/ SrcProbe \/ SrcRefused \/ SrcReaderLeaves
    \/ src.conn = "closed" /\ SrcReadFails
SrcHandlerGoesOn == SrcTold \/ SrcHandlerEnds \/ SrcHandlerDone

SrcFair ==
    /\ WF_src(SrcRunGoesOn) /\ WF_src(SrcReaderGoesOn) /\ WF_src(SrcHandlerGoesOn)
    /\ WF_src(SrcReloadDropped)

SrcSpec == SrcInit /\ [][SrcNext]_src /\ SrcFair

----------------------------------------------------------------------------
(* Properties.                                                             *)

\* Run, the reader and what the handler waits with.
SrcTypeOK ==
    /\ src.run \in {"dial", "probe", "asks", "wait", "drain", "leaves", "returned", "idle", "out"}
    /\ src.reader \in {"none", "probe", "asks", "reads", "leaves", "sends", "ended"}
    /\ src.conn \in {"none", "open", "closed"}
    /\ src.reload \in {"none", "new", "old"}

\* Run leaves nothing behind, however it ends: the connection is closed, the reader has ended, and
\* a path that was told that the source is ready was told that it is not.
SrcRunCleans ==
    src.run \in {"returned", "idle", "out"} =>
        src.conn # "open" /\ src.reader \in {"none", "ended"} /\ ~src.ready

\* The handler logs the error of a Run it did not cancel: that error is never nil, or the log would
\* end the process.
SrcErrorIsReal == src.run = "returned" /\ ~src.ctx => src.result = "error"

\* Both.
SrcEndsClean == SrcRunCleans /\ SrcErrorIsReal

\* Handler.Stop returns, wherever Run and the reader are, and no goroutine of a reload waits on.
SrcServed == src.stopped => src.run = "out" /\ src.reload = "none"
SrcStopReturns == []<>SrcServed
=============================================================================
