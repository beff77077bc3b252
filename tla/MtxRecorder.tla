---------------------------- MODULE MtxRecorder ----------------------------
(***************************************************************************)
(* The recorder of a path (mediamtx-main/internal/recorder).  Recorder.run *)
(* keeps one recorderInstance going; the instance's stream reader calls    *)
(* the format with every unit, the format cuts the units into segments     *)
(* (files) and parts (what reaches the disk at once), and a failed write   *)
(* ends the instance, which is replaced after a pause.                     *)
(*                                                                         *)
(* fMP4 holds one sample per track back, since a sample's duration is      *)
(* known from the next one; MPEG-TS writes through a buffer that outlives  *)
(* the segment.  Time is counted in parts of the concatenation tolerance   *)
(* of one second (RecTolerance).                                           *)
(***************************************************************************)
EXTENDS Integers, Sequences, FiniteSets, TLC

CONSTANTS
    RecSetups,      \* formats and video codecs
    RecSteps,       \* bound: how far a unit is from the one before it
    RecMaxUnits,    \* bound: units received
    RecBuffer,      \* units the MPEG-TS buffer takes before it spills
    RecFileFaults,  \* operations on files that may fail
    RecMaxFaults    \* bound: operations on files that fail

VARIABLE rec   \* the recorder, its instance, its current segment and the files it left

RecTracks == {"video", "audio"}
RecPart == 1
RecSegment == 2
RecTolerance == 1

\* Video codecs by how the callbacks treat them: H26x and MPEG-1/4 refuse time that runs
\* backwards; AV1 and VP9 do not; every JPEG is a sync sample; "skip": no supported track.
RecKnownSetups == {<<"fmp4", "h26x">>, <<"fmp4", "av1">>, <<"fmp4", "jpeg">>, <<"fmp4", "skip">>,
                   <<"mpegts", "h26x">>, <<"mpegts", "mpeg">>}

ASSUME RecAssumption ==
    RecSetups \subseteq RecKnownSetups /\ RecSteps \subseteq Int
    /\ RecFileFaults \subseteq {"create", "header", "write", "duration", "close", "size"}
    /\ RecBuffer \in Nat \ {0} /\ RecMaxUnits \in Nat /\ RecMaxFaults \in Nat

RecIsFmp4 == rec.setup[1] = "fmp4"
RecGated == rec.setup \in {<<"fmp4", "h26x">>, <<"fmp4", "av1">>, <<"mpegts", "h26x">>}
RecOrdered == rec.setup[2] \in {"h26x", "mpeg"}

RecSyncAlways(t) == t = "audio" \/ rec.setup[2] = "jpeg"

RecNone == [id |-> 0]
RecNoPart == [start |-> -1, end |-> -1, samples |-> << >>]
RecNoSegment == [start |-> -1]

RecMaximum(a, b) == IF a >= b THEN a ELSE b

\* initialize of both segments; part is the open part (fMP4) or what the buffer holds
\* (MPEG-TS), fd the file descriptor.
RecNewSegment(start, buffered) ==
    [start |-> start, end |-> start, part |-> [RecNoPart EXCEPT !.samples = buffered],
     flushed |-> start, fd |-> "none", bad |-> FALSE, samples |-> << >>,
     created |-> 0, completed |-> 0, duration |-> 0, rotated |-> FALSE]

RecFreshInstance(s) ==
    [setup |-> s, run |-> "watching", asked |-> FALSE, past |-> << >>, late |-> {}, units |-> 0, faults |-> 0,
     inst |-> "on", told |-> FALSE, pending |-> [t \in RecTracks |-> RecNone],
     begun |-> {}, last |-> [t \in RecTracks |-> -1], hasVideo |-> FALSE, seg |-> RecNoSegment,
     failed |-> FALSE, accepted |-> {}]

\* Recorder.Initialize and recorderInstance.initialize.
RecInit == \E s \in RecSetups : rec = RecFreshInstance(s)

--------------------------------------------------------------------------
(* Segments.  Every operator takes the segment and the operation that      *)
(* fails ("none" when all succeed) and gives the segment and whether the   *)
(* code returned nil.                                                      *)

RecResult(s, ok) == [seg |-> s, ok |-> ok]

\* The creation at the first write: the hook runs before the header is written.
RecOpenFile(s, fail) ==
    IF s.fd # "none" THEN RecResult(s, s.fd = "open")
    ELSE IF fail = "create" THEN RecResult(s, FALSE)
    ELSE LET made == [s EXCEPT !.created = @ + 1]
         IN IF RecIsFmp4 /\ fail = "header" THEN RecResult(made, FALSE)
            ELSE RecResult([made EXCEPT !.fd = "open"], TRUE)

\* closeCurPart (fMP4), Flush of the bufio.Writer, whose errors stick (MPEG-TS).
RecFlush(s, fail) ==
    IF RecIsFmp4 \/ s.part.samples # << >>
    THEN LET o == RecOpenFile(s, fail)
             ok == o.ok /\ fail # "write" /\ ~s.bad
         IN RecResult([o.seg EXCEPT !.samples = IF ok THEN @ \o s.part.samples ELSE @,
                                    !.part = IF ok /\ ~RecIsFmp4 THEN RecNoPart ELSE @,
                                    !.bad = ~RecIsFmp4 /\ ~ok], ok)
    ELSE RecResult(s, ~s.bad)

RecHasPart(s) == ~RecIsFmp4 \/ s.part # RecNoPart

\* What close does before it closes the file.
RecBeforeClose(s, fail) == IF RecHasPart(s) THEN RecFlush(s, fail) ELSE RecResult(s, TRUE)

\* The file is closed and, when that succeeds, reported complete.
RecShut(s, fail) ==
    LET closes == s.fd = "open" /\ fail # "close"
    IN RecResult([s EXCEPT !.fd = "shut", !.completed = IF closes THEN @ + 1 ELSE @,
                           !.duration = s.end - s.start],
                 closes /\ ~(RecIsFmp4 /\ fail = "duration"))

\* close of both segments.
RecSegmentClose(s, fail) ==
    LET b == RecBeforeClose(s, fail)
        c == RecShut(b.seg, fail)
    IN IF b.seg.fd = "none" THEN b ELSE RecResult(c.seg, b.ok /\ c.ok)

\* Mutant: the part that was written stays open.
RecNextPartSame(s, x) == [s EXCEPT !.part.samples = Append(@, x)]

\* A part that begins with this sample.
RecNextPart(s, x) ==
    [s EXCEPT !.part = [start |-> x.dts, end |-> x.dts + x.duration, samples |-> <<x>>]]

\* A part that goes on with this sample.
RecSamePart(s, x) ==
    [s EXCEPT !.part = [s.part EXCEPT !.samples = Append(@, x), !.end = RecMaximum(@, x.dts + x.duration)]]

\* The segment ends with the latest end of its samples.
RecEnd(s, x) == [s EXCEPT !.end = RecMaximum(@, x.dts + x.duration)]

\* formatFMP4Segment.write and formatFMP4Part.write; "size": the sample exceeds the part.
RecSegmentWrite(s0, x, fail) ==
    LET s == RecEnd(s0, x)
        f == RecFlush(s, fail)
    IN IF s.part # RecNoPart /\ s.part.end - s.part.start >= RecPart /\ ~f.ok
       THEN RecResult([f.seg EXCEPT !.part = RecNoPart], FALSE)
       ELSE IF fail = "size" THEN RecResult(s, FALSE)
       ELSE IF s.part = RecNoPart THEN RecResult(RecNextPart(s, x), TRUE)
       ELSE IF s.part.end - s.part.start >= RecPart THEN RecResult(RecNextPart(f.seg, x), TRUE)
       ELSE RecResult(RecSamePart(s, x), TRUE)

--------------------------------------------------------------------------
(* The callbacks of a unit.                                                *)

RecHeld(pending) == {pending[t] : t \in RecTracks} \ {RecNone}

\* nextSegmentStartingPos: the oldest held sample within the tolerance of the newest.
RecNextStart(pending) ==
    LET newest == CHOOSE d \in {x.dts : x \in RecHeld(pending)} :
                        \A x \in RecHeld(pending) : x.dts <= d
        near == {x.dts : x \in {y \in RecHeld(pending) : newest - y.dts <= RecTolerance}}
    IN CHOOSE d \in near : \A e \in near : d <= e

\* The video, or the audio alone, begins a segment at a sync sample.
RecRotates(r, t, x) ==
    (~r.hasVideo \/ t = "video") /\ x.sync /\ x.dts - r.seg.start >= RecSegment

RecFail(r) == [r EXCEPT !.inst = "failed", !.failed = TRUE]

\* The current segment ends and the next one begins at start.
RecRotate(r, start, fail) ==
    LET c == RecSegmentClose(r.seg, fail)
        done == [c.seg EXCEPT !.rotated = TRUE]
    IN IF ~c.ok THEN RecFail([r EXCEPT !.seg = c.seg])
       ELSE [r EXCEPT !.past = IF done.created > 0 THEN Append(@, done) ELSE @,
                      !.seg = RecNewSegment(start, IF RecIsFmp4 THEN << >> ELSE done.part.samples)]

\* The base time would be negative.
RecTooLate(r, dts) == r.seg # RecNoSegment /\ dts < r.seg.start

\* formatFMP4Track.write: the sample held back is written, this one takes its place.
RecFmp4Write(before, t, new, fail) ==
    LET held == before.pending[t]
        next == IF held # RecNone /\ new.dts < held.dts THEN [new EXCEPT !.dts = held.dts] ELSE new
        x == [held EXCEPT !.duration = next.dts - held.dts]
        kept == [before EXCEPT !.hasVideo = @ \/ t = "video", !.pending[t] = next]
        open == IF kept.seg = RecNoSegment THEN [kept EXCEPT !.seg = RecNewSegment(x.dts, << >>)] ELSE kept
        w == RecSegmentWrite(open.seg, x, fail)
        written == [open EXCEPT !.seg = w.seg]
    IN IF held = RecNone THEN kept
       ELSE IF RecTooLate(kept, x.dts) THEN [kept EXCEPT !.late = @ \cup {held}]
       ELSE IF ~w.ok THEN RecFail(written)
       ELSE IF RecRotates(written, t, next) THEN RecRotate(written, RecNextStart(written.pending), fail)
       ELSE written

\* formatMPEGTS.write; a full buffer spills into the file.
RecTsWrite(before, t, x, fail) ==
    LET kept == [before EXCEPT !.hasVideo = @ \/ t = "video"]
        rotates == kept.seg # RecNoSegment /\ RecRotates(kept, t, x)
        due == kept.seg # RecNoSegment /\ ~rotates /\ x.dts - kept.seg.flushed >= RecPart
        f == RecFlush(kept.seg, fail)
        open == IF kept.seg = RecNoSegment THEN [kept EXCEPT !.seg = RecNewSegment(x.dts, << >>)]
              ELSE IF rotates THEN RecRotate([kept EXCEPT !.seg.end = x.dts], x.dts, fail)
              ELSE IF ~due THEN kept
              ELSE IF f.ok THEN [kept EXCEPT !.seg = [f.seg EXCEPT !.flushed = x.dts]]
              ELSE RecFail([kept EXCEPT !.seg = f.seg])
        s == [open.seg EXCEPT !.end = x.dts, !.part.samples = Append(@, x)]
        g == RecFlush(s, fail)
    IN IF open.inst = "failed" THEN open
       ELSE IF Len(s.part.samples) < RecBuffer THEN [open EXCEPT !.seg = s]
       ELSE IF g.ok THEN [open EXCEPT !.seg = g.seg]
       ELSE RecFail([open EXCEPT !.seg = g.seg])

\* H26x, AV1 and VP9 are recorded from the first random access on.
RecIgnored(t, sync) == t = "video" /\ RecGated /\ "video" \notin rec.begun /\ ~sync

\* The callbacks: what becomes of the recorder.
RecReceived(t, dts, sync, fail) ==
    LET x == [id |-> rec.units + 1, track |-> t, dts |-> dts, duration |-> 0, sync |-> sync]
        r == [rec EXCEPT !.units = @ + 1]
        a == [r EXCEPT !.begun = @ \cup {t}, !.last[t] = dts, !.accepted = @ \cup {x.id}]
    IN IF RecIgnored(t, sync) THEN r
       ELSE IF t = "video" /\ RecOrdered /\ dts < rec.last[t] THEN RecFail(r)
       ELSE IF RecIsFmp4 THEN RecFmp4Write(a, t, x, fail)
       ELSE RecTsWrite(a, t, x, fail)

\* A unit of track t arrives, dts later (or earlier) than the one before it.
RecData(t, step, sync, fail) ==
    LET dts == IF rec.last[t] = -1 THEN step ELSE rec.last[t] + step
        r == RecReceived(t, dts, sync, fail)
    IN /\ rec.inst = "on" /\ rec.setup[2] # "skip" /\ rec.units < RecMaxUnits
       /\ dts >= 0 /\ (RecSyncAlways(t) => sync)
       /\ fail = "none" \/ (rec.faults < RecMaxFaults /\ r # RecReceived(t, dts, sync, "none"))
       /\ rec' = IF fail = "none" THEN r ELSE [r EXCEPT !.faults = @ + 1]

--------------------------------------------------------------------------
(* The instance and its supervisor.                                        *)

\* close of both formats.
RecLastClose(fail) == RecSegmentClose(rec.seg, fail)

\* The select of recorderInstance.run.
RecMayEnd == rec.inst = "failed" \/ rec.told

\* recorderInstance.run: the reader failed or the instance is told to stop.
RecInstanceEnds(fail) ==
    /\ rec.inst \in {"on", "failed"} /\ RecMayEnd
    /\ fail = "none" \/ (rec.seg # RecNoSegment /\ rec.faults < RecMaxFaults
                          /\ RecLastClose(fail) # RecLastClose("none"))
    /\ LET s == RecLastClose(fail).seg
           r == [rec EXCEPT !.inst = "done", !.faults = IF fail = "none" THEN @ ELSE @ + 1]
       IN rec' = IF rec.seg = RecNoSegment THEN r
                 ELSE [r EXCEPT !.seg = RecNoSegment,
                                !.past = IF s.created > 0 THEN Append(@, s) ELSE @]

\* Recorder.run: an instance that has ended is followed by a pause.
RecSupervise ==
    /\ rec.run = "watching" /\ rec.inst = "done"
    /\ rec' = [rec EXCEPT !.told = TRUE, !.run = "pausing"]

\* Close.
RecStop == ~rec.asked /\ rec' = [rec EXCEPT !.asked = TRUE]

\* terminate: the instance is told, and waited for.
RecTerminated ==
    /\ rec.asked
    /\ \/ rec.run = "watching" /\ rec' = [rec EXCEPT !.told = TRUE, !.run = "closing"]
       \/ rec.run = "closing" /\ rec.inst = "done" /\ rec' = [rec EXCEPT !.run = "closed"]
       \/ rec.run = "pausing" /\ rec' = [rec EXCEPT !.run = "closed"]

RecReplacement ==
    [RecFreshInstance(rec.setup) EXCEPT !.asked = rec.asked, !.past = rec.past, !.late = rec.late,
                                        !.units = rec.units, !.faults = rec.faults]

\* restartPause is over.
RecRestart == rec.run = "pausing" /\ rec' = RecReplacement

RecNext ==
    \/ \E t \in RecTracks, step \in RecSteps, sync \in BOOLEAN, fail \in RecFileFaults \cup {"none"} :
            RecData(t, step, sync, fail)
    \/ \E fail \in RecFileFaults \cup {"none"} : RecInstanceEnds(fail)
    \/ RecSupervise \/ RecStop \/ RecTerminated \/ RecRestart

\* The goroutine that supervises the instance.
RecSupervisorGoesOn == RecSupervise \/ RecRestart

\* The goroutines go on; a select that can take <-terminate again and again takes it.
RecFair == WF_rec(RecInstanceEnds("none")) /\ WF_rec(RecSupervisorGoesOn) /\ SF_rec(RecTerminated)

RecSpec == RecInit /\ [][RecNext]_rec /\ RecFair

--------------------------------------------------------------------------
(* Properties.                                                             *)

RecFiles == {rec.past[i] : i \in 1..Len(rec.past)}
             \cup (IF rec.seg = RecNoSegment THEN {} ELSE {rec.seg})

\* The phases of the goroutines, the bounds and the descriptors.
RecTypeOK ==
    /\ rec.setup \in RecSetups /\ rec.run \in {"watching", "pausing", "closing", "closed"}
    /\ rec.inst \in {"on", "failed", "done"} /\ rec.units \in 0..RecMaxUnits
    /\ \A s \in RecFiles : s.fd \in {"none", "open", "shut"} /\ s.created \in 0..2

RecCountIn(q, id) == Cardinality({i \in 1..Len(q) : q[i].id = id})
RecPlaces(id) ==
    (IF rec.inst = "done" THEN 0 ELSE Cardinality({t \in RecTracks : rec.pending[t].id = id}))
    + Cardinality({x \in rec.late : x.id = id})
    + (IF rec.seg = RecNoSegment \/ (RecIsFmp4 /\ rec.seg.fd = "shut") THEN 0
       ELSE RecCountIn(rec.seg.part.samples, id))
    + Cardinality({p \in (1..Len(rec.past)) \X (1..RecMaxUnits) :
                     LET q == rec.past[p[1]].samples IN p[2] <= Len(q) /\ q[p[2]].id = id})
    + (IF rec.seg = RecNoSegment THEN 0 ELSE RecCountIn(rec.seg.samples, id))

\* The samples an instance that has ended still held back: nobody writes them.
RecUnwritten == IF rec.inst = "done" THEN {rec.pending[t].id : t \in RecTracks} ELSE {}

\* As long as no operation has failed, every unit the last instance accepted is in exactly one
\* place: a file, the part being gathered, the sample held back, or dropped as too late.  Cutting
\* parts and segments neither loses nor repeats a sample.  Closing repeats none, and loses only what
\* was held back, one sample of each track in fMP4 and none in MPEG-TS.
RecNothingLostOrTwice ==
    ~rec.failed /\ rec.faults = 0 =>
        /\ \A id \in rec.accepted : RecPlaces(id) = IF id \in RecUnwritten THEN 0 ELSE 1
        /\ ~RecIsFmp4 => rec.accepted \cap RecUnwritten = {}

\* No sample of an fMP4 file is older than the file's start: its base time would be negative,
\* which wraps to an enormous unsigned number.
RecBaseTimes ==
    RecIsFmp4 => \A s \in RecFiles : \A i \in 1..Len(s.samples) : s.samples[i].dts >= s.start

\* The video of a file begins with a sync sample, so every file can be played on its own, unless
\* a late video sample was dropped (the audio ran ahead by more than the tolerance); MPEG-1/4
\* in MPEG-TS is recorded from any picture on.
RecFilesPlayAlone ==
    rec.setup # <<"mpegts", "mpeg">> /\ (\A x \in rec.late : x.track # "video") =>
        \A s \in RecFiles : \A i \in 1..Len(s.samples) :
            (s.samples[i].track = "video" /\ \A j \in 1..(i - 1) : s.samples[j].track # "video")
                => s.samples[i].sync

\* The hook of a complete segment runs once at most for a file, only for a file the create hook
\* was told of; and an instance that has ended when no operation on a file failed has completed every file.
RecHooksPaired ==
    /\ \A s \in RecFiles : s.completed <= 1 /\ (s.completed = 1 => s.created >= 1)
    /\ rec.inst = "done" /\ rec.faults = 0 => \A s \in RecFiles : s.completed = 1

\* A segment that ends because the next one begins has the minimum duration of the settings, and
\* its reported duration reaches past every sample of it.
RecDurations ==
    \A s \in RecFiles : s.completed = 1 =>
        /\ s.rotated => s.duration >= RecSegment
        /\ RecIsFmp4 => \A i \in 1..Len(s.samples) :
                            s.start + s.duration >= s.samples[i].dts + s.samples[i].duration

\* A new fMP4 segment starts no later than any held sample that is within the tolerance of the
\* newest one: such a sample is not late for the segment it goes to.
RecRotationKeeps ==
    [][RecIsFmp4 /\ rec.seg # RecNoSegment /\ rec'.seg # RecNoSegment /\ rec'.seg.start # rec.seg.start =>
         \A t, u \in RecTracks :
            rec'.pending[t] # RecNone /\ rec'.pending[u] # RecNone
            /\ (\A v \in RecTracks : rec'.pending[v] # RecNone => rec'.pending[v].dts <= rec'.pending[u].dts)
            /\ rec'.pending[u].dts - rec'.pending[t].dts <= RecTolerance
            => rec'.seg.start <= rec'.pending[t].dts]_rec

\* All of them: what is written is in the files, once, and the hooks and durations tell of it.
RecFilesAreTrue ==
    /\ [](RecNothingLostOrTwice /\ RecBaseTimes /\ RecFilesPlayAlone /\ RecHooksPaired /\ RecDurations)
    /\ RecRotationKeeps

\* Recorder.Close returns, whatever the instance is doing.
RecCloseServed == rec.asked => rec.run = "closed"
RecCloseReturns == []<>RecCloseServed

\* An instance that failed is replaced, unless the recorder is closed.
RecRecords == rec.inst = "on" \/ rec.asked
RecRecordsAgain == []<>RecRecords
=============================================================================
