------------------------- MODULE MtxRecorderProofs -------------------------
(***************************************************************************)
(* Proofs about MtxRecorder, for every number of units and of faults, all  *)
(* formats and every choice of tracks: the files tell what was recorded    *)
(* (RecFilesAreTrue).                                                      *)
(*                                                                         *)
(* The inductive invariant RecInv types the recorder and says, of each     *)
(* place a sample can be in, what it holds: the samples held back and the  *)
(* late ones, the current segment with its part or buffer, and the past    *)
(* files.  As long as no operation on a file has failed it says besides    *)
(* that each accepted unit is in one place (RecOnce) and that video plays  *)
(* from its first sample.  The places are counted by cardinalities, so     *)
(* that no step needs an induction over the samples of a file.             *)
(***************************************************************************)
EXTENDS MtxRecorder, TLAPS, SequenceTheorems, FiniteSetTheorems, FunctionTheorems

----------------------------------------------------------------------------
(* Samples, parts and segments, and what is done to a segment.             *)

\* Samples, parts and segments, typed.
RecSamples == [id : Nat \ {0}, track : RecTracks, dts : Nat, duration : Nat, sync : BOOLEAN]
RecParts == [start : Nat \cup {-1}, end : Nat \cup {-1}, samples : Seq(RecSamples)]
RecFds == {"none", "open", "shut"}
RecSegments ==
    [start : Nat, end : Nat, part : RecParts, flushed : Nat, fd : RecFds, bad : BOOLEAN,
     samples : Seq(RecSamples), created : Nat, completed : Nat, duration : Int, rotated : BOOLEAN]
RecFaults == {"none", "create", "header", "write", "duration", "close", "size"}

\* Of samples in their order: known ids, within the segment, without video, video from a sync sample on.
RecIds(q, units) == \A i \in 1..Len(q) : q[i].id <= units
RecWithin(q, start, end) ==
    \A i \in 1..Len(q) : start <= q[i].dts /\ q[i].dts + q[i].duration <= end
RecNoVideo(q) == \A i \in 1..Len(q) : q[i].track # "video"
RecPlays(q) ==
    \A i \in 1..Len(q) :
        (q[i].track = "video" /\ \A j \in 1..(i - 1) : q[j].track # "video") => q[i].sync

RecRoom(q, p, units) == Len(q) + Len(p) <= units

\* What a segment has gathered.
RecGather(s) == s.samples \o s.part.samples

LEMMA RecAppendIs ==
    ASSUME NEW q \in Seq(RecSamples), NEW x \in RecSamples
    PROVE  /\ Append(q, x) \in Seq(RecSamples) /\ Len(Append(q, x)) = Len(q) + 1
           /\ \A i \in 1..Len(q) : Append(q, x)[i] = q[i]
           /\ Append(q, x)[Len(q) + 1] = x
           /\ \A units \in Nat : RecIds(q, units) /\ x.id <= units => RecIds(Append(q, x), units)
           /\ \A a, b, c \in Nat : RecWithin(q, a, b) /\ b <= c /\ a <= x.dts /\ x.dts + x.duration <= c
                                   => RecWithin(Append(q, x), a, c)
           /\ RecNoVideo(Append(q, x)) => RecNoVideo(q) /\ x.track # "video"
           /\ RecPlays(q) /\ (x.track = "video" /\ RecNoVideo(q) => x.sync) => RecPlays(Append(q, x))
<1> DEFINE a == Append(q, x)
           n == Len(q)
<1>1. /\ a \in Seq(RecSamples) /\ Len(a) = n + 1 /\ n \in Nat
      /\ (\A i \in 1..n : a[i] = q[i]) /\ a[n + 1] = x
  OBVIOUS
<1>2. \A i \in 1..Len(a) : i \in 1..n \/ i = n + 1
  BY <1>1
<1>3. \A i \in 1..n : q[i] \in RecSamples
  OBVIOUS
<1> HIDE DEF a, n
<1>4. ASSUME NEW units \in Nat, RecIds(q, units), x.id <= units PROVE RecIds(a, units)
  BY <1>1, <1>2, <1>4 DEF RecIds, n
<1>5. ASSUME NEW lo \in Nat, NEW b \in Nat, NEW c \in Nat, RecWithin(q, lo, b), b <= c, lo <= x.dts,
             x.dts + x.duration <= c
      PROVE  RecWithin(a, lo, c)
  <2>1. \A i \in 1..n : q[i].dts \in Nat /\ q[i].duration \in Nat
    BY <1>3 DEF RecSamples
  <2> QED
    BY <1>1, <1>2, <1>5, <2>1 DEF RecWithin, n
<1>6. RecNoVideo(a) => RecNoVideo(q) /\ x.track # "video"
  BY <1>1 DEF RecNoVideo, n
<1>7. ASSUME RecPlays(q), x.track = "video" /\ RecNoVideo(q) => x.sync PROVE RecPlays(a)
  <2> SUFFICES ASSUME NEW i \in 1..Len(a), a[i].track = "video", \A j \in 1..(i - 1) : a[j].track # "video"
               PROVE  a[i].sync
    BY DEF RecPlays
  <2>1. CASE i \in 1..n
    <3>1. \A j \in 1..(i - 1) : j \in 1..n
      BY <1>1, <2>1
    <3> QED
      BY <1>1, <1>7, <2>1, <3>1 DEF RecPlays, n
  <2>2. CASE i = n + 1
    BY <1>1, <1>7, <2>2 DEF RecNoVideo, n
  <2> QED
    BY <1>2, <2>1, <2>2
<1> QED
  BY <1>1, <1>4, <1>5, <1>6, <1>7 DEF a, n

LEMMA RecConcatIs ==
    ASSUME NEW q \in Seq(RecSamples), NEW p \in Seq(RecSamples)
    PROVE  /\ q \o p \in Seq(RecSamples) /\ Len(q \o p) = Len(q) + Len(p)
           /\ \A units \in Nat : RecIds(q, units) /\ RecIds(p, units) => RecIds(q \o p, units)
           /\ \A a, b \in Nat : RecWithin(q, a, b) /\ RecWithin(p, a, b) => RecWithin(q \o p, a, b)
           /\ RecPlays(q \o p) => RecPlays(q)
           /\ \A x \in RecSamples : q \o Append(p, x) = Append(q \o p, x)
           /\ q \o << >> = q /\ << >> \o q = q
<1> DEFINE a == q \o p
           n == Len(q)
<1>1. /\ a \in Seq(RecSamples) /\ Len(a) = n + Len(p) /\ n \in Nat /\ Len(p) \in Nat
      /\ (\A i \in 1..n : a[i] = q[i]) /\ (\A i \in (n + 1)..Len(a) : a[i] = p[i - n])
  OBVIOUS
<1>2. \A i \in 1..Len(a) : i \in 1..n \/ (i \in (n + 1)..Len(a) /\ (i - n) \in 1..Len(p))
  BY <1>1
<1>3. \A x \in RecSamples : q \o Append(p, x) = Append(q \o p, x)
  OBVIOUS
<1>4. q \o << >> = q /\ << >> \o q = q
  OBVIOUS
<1> HIDE DEF a, n
<1>5. ASSUME NEW units \in Nat, RecIds(q, units), RecIds(p, units) PROVE RecIds(a, units)
  BY <1>1, <1>2, <1>5 DEF RecIds, n
<1>6. ASSUME NEW lo \in Nat, NEW b \in Nat, RecWithin(q, lo, b), RecWithin(p, lo, b)
      PROVE  RecWithin(a, lo, b)
  BY <1>1, <1>2, <1>6 DEF RecWithin, n
<1>7. ASSUME RecPlays(a) PROVE RecPlays(q)
  <2>1. \A i \in 1..n : i \in 1..Len(a) /\ \A j \in 1..(i - 1) : j \in 1..n
    BY <1>1
  <2> QED
    BY <1>1, <1>7, <2>1 DEF RecPlays, n
<1> QED
  BY <1>1, <1>3, <1>4, <1>5, <1>6, <1>7 DEF a, n

\* There are no more samples than units, whichever way they are cut.
LEMMA RecConcatAppend ==
    ASSUME NEW q \in Seq(RecSamples), NEW p \in Seq(RecSamples), NEW x \in RecSamples
    PROVE  q \o Append(p, x) = Append(q \o p, x)
  OBVIOUS

LEMMA RecRoomIs ==
    ASSUME NEW q \in Seq(RecSamples), NEW p \in Seq(RecSamples), NEW x \in RecSamples,
           NEW u \in Nat, RecRoom(q, p, u)
    PROVE  /\ RecRoom(q, << >>, u) /\ RecRoom(q, << >>, u + 1)
           /\ RecRoom(q \o p, <<x>>, u + 1)
           /\ RecRoom(q, <<x>>, u + 1) /\ RecRoom(q, Append(p, x), u + 1)
<1>1. Len(q) \in Nat /\ Len(p) \in Nat /\ Len(<< >>) = 0 /\ Len(<<x>>) = 1
  OBVIOUS
<1>2. Len(q \o p) = Len(q) + Len(p) /\ Len(Append(p, x)) = Len(p) + 1
  OBVIOUS
<1> QED
  BY <1>1, <1>2 DEF RecRoom

LEMMA RecRoomShort ==
    ASSUME NEW q \in Seq(RecSamples), NEW p \in Seq(RecSamples), NEW u \in Nat, RecRoom(q, p, u)
    PROVE  RecRoom(q, << >>, u)
<1>1. Len(q) \in Nat /\ Len(p) \in Nat /\ Len(<< >>) = 0
  OBVIOUS
<1> QED
  BY <1>1 DEF RecRoom

LEMMA RecRoomOf ==
    ASSUME NEW q \in Seq(RecSamples), NEW p \in Seq(RecSamples), NEW u \in Nat, NEW v \in Nat, u <= v,
           RecRoom(q, p, u)
    PROVE  RecRoom(q, p, v) /\ RecRoom(q \o p, << >>, v)
<1>1. Len(q) \in Nat /\ Len(p) \in Nat /\ Len(<< >>) = 0 /\ Len(q \o p) = Len(q) + Len(p)
  OBVIOUS
<1> QED
  BY <1>1 DEF RecRoom

----------------------------------------------------------------------------

\* The fields of a typed segment.
LEMMA RecSegmentFields ==
    ASSUME NEW s \in RecSegments
    PROVE  /\ s.start \in Nat /\ s.end \in Nat /\ s.flushed \in Nat /\ s.fd \in RecFds /\ s.bad \in BOOLEAN
           /\ s.created \in Nat /\ s.completed \in Nat /\ s.duration \in Int /\ s.rotated \in BOOLEAN
           /\ s.samples \in Seq(RecSamples) /\ s.part \in RecParts /\ s.part.samples \in Seq(RecSamples)
           /\ s.part.start \in Nat \cup {-1} /\ s.part.end \in Nat \cup {-1}
           /\ RecGather(s) \in Seq(RecSamples) /\ Len(RecGather(s)) = Len(s.samples) + Len(s.part.samples)
           /\ Len(s.samples) \in Nat /\ Len(s.part.samples) \in Nat
           /\ s # RecNoSegment
<1>1. /\ s.start \in Nat /\ s.end \in Nat /\ s.flushed \in Nat /\ s.fd \in RecFds /\ s.bad \in BOOLEAN
      /\ s.created \in Nat /\ s.completed \in Nat /\ s.duration \in Int /\ s.rotated \in BOOLEAN
      /\ s.samples \in Seq(RecSamples) /\ s.part \in RecParts
  BY DEF RecSegments
<1>2. /\ s.part.samples \in Seq(RecSamples)
      /\ s.part.start \in Nat \cup {-1} /\ s.part.end \in Nat \cup {-1}
  BY <1>1 DEF RecParts
<1>3. RecGather(s) \in Seq(RecSamples) /\ Len(RecGather(s)) = Len(s.samples) + Len(s.part.samples)
  BY <1>1, <1>2, RecConcatIs DEF RecGather
<1>4. RecNoSegment.start = -1 /\ -1 \notin Nat
  BY DEF RecNoSegment
<1>5. s # RecNoSegment
  BY <1>1, <1>4
<1>6. Len(s.samples) \in Nat /\ Len(s.part.samples) \in Nat
  BY <1>1, <1>2
<1> QED
  BY <1>1, <1>2, <1>3, <1>5, <1>6

\* Two segments that differ at most in their file.
RecSameData(s, t) ==
    /\ t.start = s.start /\ t.end = s.end /\ t.part = s.part /\ t.flushed = s.flushed /\ t.bad = s.bad
    /\ t.samples = s.samples /\ t.completed = s.completed /\ t.duration = s.duration
    /\ t.rotated = s.rotated

\* The file of a segment is made at its first write, once unless its header fails.
LEMMA RecOpenIs ==
    ASSUME NEW s \in RecSegments, NEW fail \in RecFaults
    PROVE  LET o == RecOpenFile(s, fail)
           IN  /\ o.seg \in RecSegments /\ o.ok \in BOOLEAN
               /\ RecSameData(s, o.seg)
               /\ s.fd # "none" => o.seg = s /\ o.ok = (s.fd = "open")
               /\ s.fd = "none" => /\ o.seg.fd = IF o.ok THEN "open" ELSE "none"
                                   /\ o.seg.created \in {s.created, s.created + 1}
                                   /\ o.ok => o.seg.created = s.created + 1
               /\ fail = "none" /\ s.fd # "shut" => o.ok
<1> DEFINE made == [s EXCEPT !.created = @ + 1]
           open == [made EXCEPT !.fd = "open"]
           o == RecOpenFile(s, fail)
<1>1. made \in RecSegments /\ made.fd = s.fd /\ made.created = s.created + 1 /\ RecSameData(s, made)
  BY DEF RecSegments, RecSameData
<1> HIDE DEF made
<1>6. open \in RecSegments /\ open.fd = "open" /\ open.created = s.created + 1 /\ RecSameData(s, open)
  BY <1>1 DEF RecSegments, RecFds, RecSameData
<1>7. RecSameData(s, s)
  BY DEF RecSameData
<1>2. CASE s.fd # "none"
  <2>1. o.seg = s /\ o.ok = (s.fd = "open")
    BY <1>2 DEF RecOpenFile, RecResult
  <2> QED
    BY <1>2, <1>7, <2>1, RecSegmentFields DEF RecFds
<1>3. CASE s.fd = "none" /\ fail = "create"
  <2>1. o.seg = s /\ o.ok = FALSE
    BY <1>3 DEF RecOpenFile, RecResult
  <2> QED
    BY <1>3, <1>7, <2>1
<1>4. CASE s.fd = "none" /\ fail # "create" /\ RecIsFmp4 /\ fail = "header"
  <2>1. o.seg = made /\ o.ok = FALSE
    BY <1>4 DEF RecOpenFile, RecResult, made
  <2> QED
    BY <1>1, <1>4, <2>1
<1>5. CASE s.fd = "none" /\ fail # "create" /\ ~(RecIsFmp4 /\ fail = "header")
  <2>1. o.seg = open /\ o.ok = TRUE
    BY <1>5 DEF RecOpenFile, RecResult, made
  <2> HIDE DEF open, o
  <2> QED
    BY <1>5, <1>6, <2>1 DEF o
<1> QED
  BY <1>2, <1>3, <1>4, <1>5

\* A part or the buffer reaches the file, or the write fails and the file has what it had.
LEMMA RecFlushIs ==
    ASSUME NEW s \in RecSegments, NEW fail \in RecFaults
    PROVE  LET f == RecFlush(s, fail)
               has == RecIsFmp4 \/ s.part.samples # << >>
           IN  /\ f.seg \in RecSegments /\ f.ok \in BOOLEAN
               /\ f.seg.start = s.start /\ f.seg.end = s.end /\ f.seg.flushed = s.flushed
               /\ f.seg.completed = s.completed /\ f.seg.duration = s.duration /\ f.seg.rotated = s.rotated
               /\ s.fd # "none" => f.seg.fd = s.fd /\ f.seg.created = s.created
               /\ s.fd = "none" => /\ f.seg.fd \in {"none", "open"}
                                   /\ f.seg.created \in {s.created, s.created + 1}
                                   /\ f.seg.fd = "open" => f.seg.created = s.created + 1
               /\ f.ok => ~s.bad /\ ~f.seg.bad
               /\ f.ok /\ has => /\ f.seg.samples = RecGather(s) /\ f.seg.fd = "open"
                                 /\ f.seg.part = IF RecIsFmp4 THEN s.part ELSE RecNoPart
               /\ ~(f.ok /\ has) => f.seg.samples = s.samples /\ f.seg.part = s.part
               /\ ~has => f.seg = s
               /\ fail = "none" /\ s.fd # "shut" /\ ~s.bad => f.ok
<1> DEFINE f == RecFlush(s, fail)
           has == RecIsFmp4 \/ s.part.samples # << >>
           o == RecOpenFile(s, fail)
           ok == o.ok /\ fail # "write" /\ ~s.bad
<1>1. CASE ~has
  <2>1. f.seg = s /\ f.ok = ~s.bad
    BY <1>1 DEF RecFlush, RecResult
  <2> HIDE DEF f
  <2>2. s.fd = "none" => s.created \in {s.created, s.created + 1}
    OBVIOUS
  <2>3. s.fd \in RecFds /\ s.bad \in BOOLEAN
    BY RecSegmentFields
  <2> QED
    BY <1>1, <2>1, <2>2, <2>3 DEF RecFds, f
<1>2. CASE has
  <2> DEFINE samples == IF ok THEN RecGather(s) ELSE s.samples
             piece == IF ok /\ ~RecIsFmp4 THEN RecNoPart ELSE s.part
             bad == ~RecIsFmp4 /\ ~ok
  <2>1. /\ o.seg \in RecSegments /\ o.ok \in BOOLEAN
        /\ RecSameData(s, o.seg)
        /\ s.fd # "none" => o.seg = s /\ o.ok = (s.fd = "open")
        /\ s.fd = "none" => /\ o.seg.fd = IF o.ok THEN "open" ELSE "none"
                            /\ o.seg.created \in {s.created, s.created + 1}
                            /\ o.ok => o.seg.created = s.created + 1
        /\ fail = "none" /\ s.fd # "shut" => o.ok
    BY RecOpenIs
  <2> HIDE DEF o
  <2>2. /\ o.seg.samples = s.samples /\ o.seg.part = s.part /\ o.seg.start = s.start /\ o.seg.end = s.end
        /\ o.seg.flushed = s.flushed /\ o.seg.completed = s.completed /\ o.seg.duration = s.duration
        /\ o.seg.rotated = s.rotated
    BY <2>1 DEF RecSameData
  <2>3. f.seg = [o.seg EXCEPT !.samples = samples, !.part = piece, !.bad = bad] /\ f.ok = ok
    BY <1>2, <2>2, Zenon DEF RecFlush, RecResult, o, RecGather
  <2>4. RecNoPart \in RecParts
    BY DEF RecNoPart, RecParts
  <2>5. samples \in Seq(RecSamples) /\ piece \in RecParts /\ bad \in BOOLEAN /\ ok \in BOOLEAN
    BY <2>1, <2>4, RecSegmentFields
  <2>6. /\ ok => samples = RecGather(s) /\ piece = IF RecIsFmp4 THEN s.part ELSE RecNoPart
        /\ ~ok => samples = s.samples /\ piece = s.part
        /\ ok => ~bad /\ ~s.bad /\ o.ok
        /\ fail = "none" /\ s.fd # "shut" /\ ~s.bad => ok
    BY <2>1
  <2> HIDE DEF samples, piece, bad, ok, f
  <2>7. /\ f.seg \in RecSegments /\ f.seg.samples = samples /\ f.seg.part = piece /\ f.seg.bad = bad
        /\ f.seg.fd = o.seg.fd /\ f.seg.created = o.seg.created
        /\ f.seg.start = s.start /\ f.seg.end = s.end /\ f.seg.flushed = s.flushed
        /\ f.seg.completed = s.completed /\ f.seg.duration = s.duration /\ f.seg.rotated = s.rotated
    BY <2>1, <2>2, <2>3, <2>5 DEF RecSegments
  <2>8. /\ s.fd # "none" => o.seg.fd = s.fd /\ o.seg.created = s.created
        /\ ok => o.seg.fd = "open"
    BY <2>1, <2>6, RecSegmentFields DEF RecFds
  <2>9. s.fd = "none" => /\ o.seg.fd \in {"none", "open"}
                         /\ o.seg.created \in {s.created, s.created + 1}
                         /\ o.seg.fd = "open" => o.seg.created = s.created + 1
    BY <2>1
  <2> QED
    BY <1>2, <2>3, <2>5, <2>6, <2>7, <2>8, <2>9 DEF f
<1> QED
  BY <1>1, <1>2

----------------------------------------------------------------------------

\* A segment on which no operation has failed.
RecQuiet(s) ==
    /\ ~s.bad /\ s.fd # "shut" /\ s.created = (IF s.fd = "open" THEN 1 ELSE 0)
    /\ s.completed = 0 /\ ~s.rotated

\* A segment: its samples, its file and its hooks.
RecFileFits(s, fmp4, units) ==
    /\ s.created \in 0..2 /\ s.completed \in 0..1
    /\ s.fd = "none" => s.samples = << >> /\ s.completed = 0
    /\ s.fd # "none" => s.created >= 1
    /\ s.fd = "open" => s.completed = 0
    /\ s.completed = 1 => s.duration = s.end - s.start /\ (s.rotated => s.duration >= RecSegment)
    /\ RecIds(s.samples, units) /\ RecIds(s.part.samples, units)
    /\ RecRoom(s.samples, << >>, units)
    /\ s.fd # "shut" => RecRoom(s.samples, s.part.samples, units)
    /\ fmp4 => RecWithin(s.samples, s.start, s.end) /\ RecWithin(s.part.samples, s.start, s.end)
    /\ ~fmp4 => s.part = [RecNoPart EXCEPT !.samples = s.part.samples]

\* The file of a segment plays alone, and will with what is still to be written.
RecPlaysOn(s) == RecPlays(s.samples) /\ (s.fd # "shut" => RecPlays(RecGather(s)))

LEMMA RecPartIs ==
    /\ << >> \in Seq(RecSamples) /\ RecNoPart \in RecParts /\ RecNoPart.samples = << >> /\ RecNoPart.start = -1
    /\ \A q \in Seq(RecSamples) : /\ [RecNoPart EXCEPT !.samples = q] \in RecParts
                                  /\ [RecNoPart EXCEPT !.samples = q].samples = q
    /\ [RecNoPart EXCEPT !.samples = << >>] = RecNoPart
  BY DEF RecNoPart, RecParts

\* The end of a segment, and what it leaves.
LEMMA RecCloseIs ==
    ASSUME NEW s \in RecSegments, NEW fail \in RecFaults, NEW units \in Nat,
           RecFileFits(s, RecIsFmp4, units), s.created \in 0..1, ~s.rotated
    PROVE  LET c == RecSegmentClose(s, fail)
           IN  /\ c.seg \in RecSegments /\ c.ok \in BOOLEAN
               /\ c.seg.start = s.start /\ c.seg.end = s.end /\ ~c.seg.rotated
               /\ RecFileFits(c.seg, RecIsFmp4, units)
               /\ RecPlaysOn(s) => RecPlaysOn(c.seg)
               /\ RecQuiet(s) => c.seg.created \in 0..1
               /\ RecQuiet(s) /\ fail = "none" => c.ok
               /\ RecQuiet(s) /\ c.ok => /\ c.seg.samples = RecGather(s)
                                         /\ ~RecIsFmp4 => c.seg.part = RecNoPart
                                         /\ c.seg.created = 0 => RecGather(s) = << >>
                                         /\ c.seg.created >= 1 => c.seg.completed = 1
<1> DEFINE b == RecBeforeClose(s, fail)
           c == RecSegmentClose(s, fail)
           wrote == b.ok /\ RecHasPart(s) /\ (RecIsFmp4 \/ s.part.samples # << >>)
<1>1. /\ s.start \in Nat /\ s.end \in Nat /\ s.fd \in RecFds /\ s.bad \in BOOLEAN /\ s.created \in Nat
      /\ s.completed \in Nat /\ s.samples \in Seq(RecSamples) /\ s.part.samples \in Seq(RecSamples)
      /\ RecGather(s) \in Seq(RecSamples) /\ Len(RecGather(s)) = Len(s.samples) + Len(s.part.samples)
  BY RecSegmentFields
<1>2. /\ b.seg \in RecSegments /\ b.ok \in BOOLEAN
      /\ b.seg.start = s.start /\ b.seg.end = s.end
      /\ b.seg.completed = s.completed /\ b.seg.duration = s.duration /\ b.seg.rotated = s.rotated
      /\ s.fd # "none" => b.seg.fd = s.fd /\ b.seg.created = s.created
      /\ s.fd = "none" => /\ b.seg.fd \in {"none", "open"}
                          /\ b.seg.created \in {s.created, s.created + 1}
                          /\ b.seg.fd = "open" => b.seg.created = s.created + 1
      /\ wrote => /\ b.seg.samples = RecGather(s) /\ b.seg.fd = "open"
                  /\ b.seg.part = IF RecIsFmp4 THEN s.part ELSE RecNoPart
      /\ ~wrote => b.seg.samples = s.samples /\ b.seg.part = s.part
      /\ fail = "none" /\ s.fd # "shut" /\ ~s.bad => b.ok
      /\ ~(RecHasPart(s) /\ (RecIsFmp4 \/ s.part.samples # << >>)) => b.seg = s
  <2>1. CASE RecHasPart(s)
    <3>1. b = RecFlush(s, fail)
      BY <2>1 DEF RecBeforeClose
    <3> HIDE DEF b
    <3> QED
      BY <2>1, <3>1, RecFlushIs
  <2>2. CASE ~RecHasPart(s)
    <3>1. b.seg = s /\ b.ok = TRUE
      BY <2>2 DEF RecBeforeClose, RecResult
    <3> HIDE DEF b
    <3>2. s.fd = "none" => s.created \in {s.created, s.created + 1} /\ s.fd \in {"none", "open"}
      OBVIOUS
    <3> QED
      BY <2>2, <3>1, <3>2
  <2> QED
    BY <2>1, <2>2
<1>3. ~RecHasPart(s) => s.part = RecNoPart
  BY DEF RecHasPart
<1>4. b.ok /\ ~wrote => RecGather(s) = s.samples /\ s.part.samples = << >>
  <2>1. b.ok /\ ~wrote => s.part.samples = << >>
    BY <1>3, RecPartIs
  <2> QED
    BY <2>1, <1>1, RecConcatIs DEF RecGather
<1>5. /\ RecIds(s.samples, units) /\ RecIds(s.part.samples, units) /\ RecRoom(s.samples, << >>, units)
      /\ s.fd # "shut" => RecRoom(s.samples, s.part.samples, units)
      /\ RecIsFmp4 => RecWithin(s.samples, s.start, s.end) /\ RecWithin(s.part.samples, s.start, s.end)
      /\ ~RecIsFmp4 => s.part = [RecNoPart EXCEPT !.samples = s.part.samples]
  BY DEF RecFileFits
<1>6. RecIds(RecGather(s), units) /\ (RecIsFmp4 => RecWithin(RecGather(s), s.start, s.end))
  BY <1>1, <1>5, RecConcatIs DEF RecGather
<1>7. /\ RecIds(b.seg.samples, units) /\ RecIds(b.seg.part.samples, units) /\ RecRoom(b.seg.samples, << >>, units)
      /\ RecIsFmp4 => RecWithin(b.seg.samples, s.start, s.end) /\ RecWithin(b.seg.part.samples, s.start, s.end)
      /\ ~RecIsFmp4 => b.seg.part = [RecNoPart EXCEPT !.samples = b.seg.part.samples]
  <2>1. CASE wrote
    <3>1. RecIds(<< >>, units)
      BY DEF RecIds
    <3>2. RecRoom(b.seg.samples, << >>, units)
      <4>1. s.fd # "shut" /\ b.seg.samples = s.samples \o s.part.samples
        BY <1>2, <2>1 DEF RecGather
      <4>2. RecRoom(s.samples, s.part.samples, units)
        BY <1>5, <4>1
      <4> QED
        BY <1>1, <4>1, <4>2, RecRoomOf
    <3> HIDE DEF wrote, b
    <3> QED
      BY <1>1, <1>2, <1>5, <1>6, <2>1, <3>1, <3>2, RecPartIs
  <2>2. CASE ~wrote
    BY <1>2, <1>5, <2>2
  <2> QED
    BY <2>1, <2>2
<1>8. /\ s.created \in 0..2 /\ s.completed \in 0..1
      /\ s.fd = "none" => s.samples = << >> /\ s.completed = 0
      /\ s.fd # "none" => s.created >= 1
      /\ s.fd = "open" => s.completed = 0
  BY DEF RecFileFits
<1>9. b.ok => b.seg.samples = RecGather(s)
  BY <1>2, <1>4
<1>10. RecPlaysOn(s) => RecPlays(b.seg.samples)
  BY <1>2 DEF RecPlaysOn
<1> HIDE DEF b
<1>11. CASE b.seg.fd = "none"
  <2>1. c = b
    BY <1>11, Zenon DEF RecSegmentClose, b
  <2>2. s.fd = "none" /\ ~wrote /\ b.seg.samples = s.samples /\ b.seg.part = s.part
    BY <1>2, <1>11
  <2>3. RecFileFits(b.seg, RecIsFmp4, units)
    <3>1. /\ b.seg.created \in 0..2 /\ b.seg.completed \in 0..1
          /\ b.seg.samples = << >> /\ b.seg.completed = 0
      BY <1>1, <1>2, <1>8, <2>2
    <3>2. RecRoom(b.seg.samples, b.seg.part.samples, units)
      BY <1>5, <2>2
    <3> QED
      BY <1>2, <1>7, <1>11, <3>1, <3>2 DEF RecFileFits
  <2>4. RecPlaysOn(s) => RecPlaysOn(b.seg)
    BY <1>11, <2>2 DEF RecPlaysOn, RecGather
  <2>5. RecQuiet(s) => b.seg.created \in 0..1 /\ (fail = "none" => b.ok)
    BY <1>1, <1>2, <2>2 DEF RecQuiet
  <2>6. ASSUME RecQuiet(s), b.ok
        PROVE  /\ b.seg.samples = RecGather(s)
               /\ ~RecIsFmp4 => b.seg.part = RecNoPart
               /\ b.seg.created = 0 => RecGather(s) = << >>
               /\ b.seg.created >= 1 => b.seg.completed = 1
    <3>1. s.part.samples = << >> /\ RecGather(s) = s.samples /\ s.samples = << >>
      BY <1>4, <1>8, <2>2, <2>6
    <3>2. ~RecIsFmp4 => s.part = RecNoPart
      BY <1>5, <3>1, RecPartIs
    <3>3. b.seg.created = 0
      <4>1. b.seg = s
        <5>1. ~(RecHasPart(s) /\ (RecIsFmp4 \/ s.part.samples # << >>))
          BY <2>2, <2>6 DEF wrote
        <5> QED
          BY <1>2, <5>1
      <4> QED
        BY <4>1, <2>2, <2>6 DEF RecQuiet
    <3> QED
      BY <2>2, <3>1, <3>2, <3>3
  <2> HIDE DEF c
  <2> QED
    BY <1>2, <2>1, <2>3, <2>4, <2>5, <2>6 DEF c
<1>12. CASE b.seg.fd # "none"
  <2> DEFINE closes == b.seg.fd = "open" /\ fail # "close"
             n == IF closes THEN b.seg.completed + 1 ELSE b.seg.completed
             d == b.seg.end - b.seg.start
             t == [b.seg EXCEPT !.fd = "shut", !.completed = n, !.duration = d]
             ok == closes /\ ~(RecIsFmp4 /\ fail = "duration")
  <2>1. /\ c.seg = t
        /\ c.ok = (b.ok /\ ok)
    <3>1. c = RecResult(RecShut(b.seg, fail).seg, b.ok /\ RecShut(b.seg, fail).ok)
      BY <1>12, Zenon DEF RecSegmentClose, b
    <3>2. RecShut(b.seg, fail) = RecResult(t, ok)
      BY Zenon DEF RecShut
    <3> HIDE DEF t, ok
    <3> QED
      BY <3>1, <3>2 DEF RecResult
  <2>2. /\ b.seg.fd \in {"open", "shut"} /\ b.seg.created \in Nat /\ b.seg.completed \in Nat
        /\ b.seg.start \in Nat /\ b.seg.end \in Nat
    BY <1>2, <1>12, RecSegmentFields DEF RecFds
  <2>3. /\ t \in RecSegments /\ t.fd = "shut" /\ t.start = b.seg.start /\ t.end = b.seg.end
        /\ t.samples = b.seg.samples /\ t.part = b.seg.part /\ t.created = b.seg.created
        /\ t.rotated = b.seg.rotated /\ t.duration = b.seg.end - b.seg.start
        /\ t.completed = IF closes THEN b.seg.completed + 1 ELSE b.seg.completed
    <3>1. n \in Nat /\ d \in Int
      BY <2>2
    <3> HIDE DEF n, d, closes
    <3>2. /\ t \in RecSegments /\ t.fd = "shut" /\ t.start = b.seg.start /\ t.end = b.seg.end
          /\ t.samples = b.seg.samples /\ t.part = b.seg.part /\ t.created = b.seg.created
          /\ t.rotated = b.seg.rotated /\ t.duration = d /\ t.completed = n
      BY <1>2, <3>1 DEF RecSegments, RecFds
    <3> QED
      BY <3>2 DEF n, d
  <2> HIDE DEF t
  <2>4. b.seg.created \in 1..2 /\ t.completed \in 0..1 /\ (closes => t.completed = 1)
    BY <1>1, <1>2, <1>8, <1>12, <2>2, <2>3 DEF RecFds
  <2>5. RecFileFits(t, RecIsFmp4, units)
    BY <1>2, <1>7, <2>3, <2>4 DEF RecFileFits
  <2>6. RecPlaysOn(s) => RecPlaysOn(t)
    BY <1>10, <2>3 DEF RecPlaysOn
  <2>7. RecQuiet(s) => t.created \in 0..1 /\ s.fd # "shut" /\ ~s.bad
    BY <1>2, <2>3, <1>12 DEF RecQuiet
  <2>8. RecQuiet(s) /\ fail = "none" => b.ok /\ closes
    BY <1>1, <1>2, <2>2, <2>7 DEF RecFds
  <2>9. b.ok => t.samples = RecGather(s) /\ (~RecIsFmp4 => t.part = RecNoPart)
    <3>1. b.ok /\ ~wrote /\ ~RecIsFmp4 => s.part = RecNoPart
      BY <1>4, <1>5, RecPartIs
    <3> QED
      BY <1>2, <1>9, <2>3, <3>1
  <2>10. ok => closes
    OBVIOUS
  <2>11. fail = "none" /\ closes => ok
    OBVIOUS
  <2>12. ok \in BOOLEAN
    OBVIOUS
  <2>13. t.created >= 1
    BY <2>3, <2>4
  <2> HIDE DEF c, closes, wrote, ok
  <2>14. /\ c.seg \in RecSegments /\ c.ok \in BOOLEAN
         /\ c.seg.start = s.start /\ c.seg.end = s.end /\ ~c.seg.rotated
    BY <1>2, <2>1, <2>3, <2>12
  <2>15. /\ RecFileFits(c.seg, RecIsFmp4, units)
         /\ RecPlaysOn(s) => RecPlaysOn(c.seg)
         /\ RecQuiet(s) => c.seg.created \in 0..1
    BY <2>1, <2>5, <2>6, <2>7
  <2>16. RecQuiet(s) /\ fail = "none" => c.ok
    BY <2>1, <2>8, <2>11
  <2>17. RecQuiet(s) /\ c.ok => /\ c.seg.samples = RecGather(s)
                                /\ ~RecIsFmp4 => c.seg.part = RecNoPart
                                /\ c.seg.created = 0 => RecGather(s) = << >>
                                /\ c.seg.created >= 1 => c.seg.completed = 1
    <3> SUFFICES ASSUME c.ok
                 PROVE  /\ c.seg.samples = RecGather(s)
                        /\ ~RecIsFmp4 => c.seg.part = RecNoPart
                        /\ c.seg.created = 0 => RecGather(s) = << >>
                        /\ c.seg.created >= 1 => c.seg.completed = 1
      OBVIOUS
    <3>1. b.ok /\ closes
      BY <2>1, <2>10
    <3>2. t.completed = 1 /\ t.created # 0
      BY <3>1, <2>3, <2>4
    <3> QED
      BY <2>1, <2>9, <3>1, <3>2
  <2> QED
    BY <2>14, <2>15, <2>16, <2>17 DEF c
<1> QED
  BY <1>11, <1>12

\* What was known stays known, and within a wider segment.
LEMMA RecWider ==
    ASSUME NEW q \in Seq(RecSamples), NEW a \in Nat, NEW b \in Nat, NEW c \in Nat, b <= c,
           RecWithin(q, a, b)
    PROVE  RecWithin(q, a, c)
<1>1. \A i \in 1..Len(q) : q[i] \in RecSamples
  OBVIOUS
<1>2. \A i \in 1..Len(q) : q[i].dts \in Nat /\ q[i].duration \in Nat
  BY <1>1 DEF RecSamples
<1> QED
  BY <1>2 DEF RecWithin

LEMMA RecIdsStill ==
    ASSUME NEW q \in Seq(RecSamples), NEW u \in Nat, NEW v \in Nat, u <= v, RecIds(q, u)
    PROVE  RecIds(q, v)
<1>1. \A i \in 1..Len(q) : q[i] \in RecSamples
  OBVIOUS
<1>2. \A i \in 1..Len(q) : q[i].id \in Nat
  BY <1>1 DEF RecSamples
<1> QED
  BY <1>2 DEF RecIds

LEMMA RecFileFitsStill ==
    ASSUME NEW s \in RecSegments, NEW u \in Nat, NEW v \in Nat, u <= v, RecFileFits(s, RecIsFmp4, u)
    PROVE  RecFileFits(s, RecIsFmp4, v)
<1>1. /\ s.samples \in Seq(RecSamples) /\ s.part.samples \in Seq(RecSamples) /\ s.start \in Nat /\ s.end \in Nat
      /\ << >> \in Seq(RecSamples)
  BY RecSegmentFields, RecPartIs
<1>2. RecIds(s.samples, v) /\ RecIds(s.part.samples, v)
  BY <1>1, RecIdsStill DEF RecFileFits
<1>3. RecRoom(s.samples, << >>, v) /\ (s.fd # "shut" => RecRoom(s.samples, s.part.samples, v))
  BY <1>1, RecRoomOf DEF RecFileFits
<1> QED
  BY <1>2, <1>3 DEF RecFileFits

\* A segment to which a part is being written, and a part that has room in it.
RecWritten(t, start, end, units) ==
    /\ t.start = start /\ t.end = end /\ t.completed = 0 /\ ~t.rotated
    /\ t.fd # "shut" /\ t.created \in 0..1
    /\ (t.fd = "none" => t.samples = << >>) /\ (t.fd = "open" => t.created = 1)
    /\ RecIds(t.samples, units) /\ RecWithin(t.samples, start, end)
RecPieceFits(p, t, start, end, units) ==
    RecIds(p.samples, units) /\ RecWithin(p.samples, start, end) /\ RecRoom(t.samples, p.samples, units)

\* The segment v is t with the part p.
RecWith(v, t, p, start, end, units) ==
    /\ v \in RecSegments /\ v.start = start /\ ~v.rotated /\ v.created \in 0..1 /\ v.end = end
    /\ RecFileFits(v, RecIsFmp4, units) /\ (RecQuiet(t) => RecQuiet(v))
    /\ v.samples = t.samples /\ v.part = p /\ v.fd = t.fd

LEMMA RecGoesOnWith ==
    ASSUME NEW t \in RecSegments, NEW p \in RecParts, NEW start \in Nat, NEW end \in Nat, NEW units \in Nat,
           RecWritten(t, start, end, units), RecPieceFits(p, t, start, end, units), RecIsFmp4,
           NEW v, v = [t EXCEPT !.part = p]
    PROVE  RecWith(v, t, p, start, end, units)
<1>1. /\ v \in RecSegments /\ v.start = t.start /\ v.rotated = t.rotated /\ v.created = t.created
      /\ v.end = t.end /\ v.samples = t.samples /\ v.part = p /\ v.fd = t.fd /\ v.completed = t.completed
      /\ v.bad = t.bad
  BY DEF RecSegments
<1>2. p.samples \in Seq(RecSamples) /\ t.samples \in Seq(RecSamples) /\ t.fd \in RecFds
  BY RecSegmentFields DEF RecParts
<1>3. RecRoom(t.samples, << >>, units)
  BY <1>2, RecRoomOf, RecPartIs, RecRoomShort DEF RecPieceFits
<1>4. v.created \in 0..2 /\ v.completed \in 0..1 /\ (v.fd # "none" => v.created >= 1)
  BY <1>1, <1>2 DEF RecFds, RecWritten
<1>5. RecFileFits(v, RecIsFmp4, units)
  BY <1>1, <1>3, <1>4 DEF RecFileFits, RecWritten, RecPieceFits
<1>6. RecQuiet(t) => RecQuiet(v)
  BY <1>1 DEF RecQuiet
<1> QED
  BY <1>1, <1>5, <1>6 DEF RecWritten, RecWith

\* A sample is written to a segment: it is gathered, unless the write fails.
LEMMA RecWriteIs ==
    ASSUME RecIsFmp4, NEW o \in RecSegments, NEW x \in RecSamples, NEW fail \in RecFaults, NEW units \in Nat,
           RecQuiet(o), RecFileFits(o, RecIsFmp4, units), o.start <= x.dts, x.id <= units
    PROVE  LET w == RecSegmentWrite(o, x, fail)
           IN  /\ w.seg \in RecSegments /\ w.ok \in BOOLEAN
               /\ w.seg.start = o.start /\ ~w.seg.rotated /\ w.seg.created \in 0..1
               /\ RecFileFits(w.seg, RecIsFmp4, units + 1)
               /\ w.ok => /\ RecQuiet(w.seg) /\ RecGather(w.seg) = Append(RecGather(o), x)
                          /\ x.dts + x.duration <= w.seg.end
               /\ ~w.ok /\ RecPlaysOn(o) => RecPlaysOn(w.seg)
               /\ fail = "none" => w.ok
<1> DEFINE s == RecEnd(o, x)
           f == RecFlush(s, fail)
           due == s.part # RecNoPart /\ s.part.end - s.part.start >= RecPart
           w == RecSegmentWrite(o, x, fail)
           g == RecGather(o)
<1>19. x.dts \in Nat /\ x.duration \in Nat /\ x.id \in Nat
  BY DEF RecSamples
<1>1. /\ x.dts \in Nat /\ x.duration \in Nat /\ x.id \in Nat
      /\ o.start \in Nat /\ o.end \in Nat /\ o.part \in RecParts /\ o.part.samples \in Seq(RecSamples)
      /\ o.samples \in Seq(RecSamples) /\ o.fd \in RecFds /\ g \in Seq(RecSamples)
      /\ << >> \in Seq(RecSamples)
  BY <1>19, RecSegmentFields, RecPartIs
<1>2. /\ s \in RecSegments /\ s.start = o.start /\ s.fd = o.fd /\ s.part = o.part /\ s.samples = o.samples
      /\ s.created = o.created /\ s.completed = o.completed /\ s.rotated = o.rotated /\ s.bad = o.bad
      /\ o.end <= s.end /\ x.dts + x.duration <= s.end /\ s.end \in Nat
  <2> DEFINE e == RecMaximum(o.end, x.dts + x.duration)
  <2>1. e \in Nat /\ o.end <= e /\ x.dts + x.duration <= e
    BY <1>1 DEF RecMaximum
  <2>2. s = [o EXCEPT !.end = e]
    BY DEF RecEnd
  <2> HIDE DEF e, s
  <2> QED
    BY <2>1, <2>2 DEF RecSegments
<1> HIDE DEF s
<1>3. RecGather(s) = g
  BY <1>2 DEF RecGather
<1>4. /\ RecIds(o.samples, units) /\ RecIds(o.part.samples, units)
      /\ RecRoom(o.samples, o.part.samples, units)
      /\ RecWithin(o.samples, o.start, o.end) /\ RecWithin(o.part.samples, o.start, o.end)
      /\ o.fd = "none" => o.samples = << >>
  BY DEF RecFileFits, RecQuiet
<1>5. /\ RecIds(o.samples, units + 1) /\ RecIds(o.part.samples, units + 1)
      /\ RecWithin(o.samples, o.start, s.end) /\ RecWithin(o.part.samples, o.start, s.end)
  <2>1. units + 1 \in Nat /\ units <= units + 1
    OBVIOUS
  <2>2. RecIds(o.samples, units + 1) /\ RecIds(o.part.samples, units + 1)
    BY <1>1, <1>4, <2>1, RecIdsStill
  <2> QED
    BY <1>1, <1>2, <1>4, <2>2, RecWider
<1>6. RecIds(g, units + 1) /\ RecWithin(g, o.start, s.end)
  BY <1>1, <1>2, <1>5, RecConcatIs DEF RecGather
<1>7. /\ <<x>> \in Seq(RecSamples) /\ Len(<<x>>) = 1 /\ Append(<< >>, x) = <<x>>
      /\ RecIds(<<x>>, units + 1) /\ RecWithin(<<x>>, o.start, s.end)
  BY <1>1, <1>2 DEF RecIds, RecWithin
<1>8. /\ f.seg \in RecSegments /\ f.ok \in BOOLEAN
      /\ f.seg.start = o.start /\ f.seg.end = s.end /\ f.seg.completed = 0 /\ ~f.seg.rotated
      /\ f.seg.fd # "shut" /\ f.seg.created \in 0..1
      /\ f.seg.fd = "none" => f.seg.samples = << >>
      /\ f.seg.fd = "open" => f.seg.created = 1
      /\ f.ok => f.seg.samples = g /\ f.seg.fd = "open" /\ RecQuiet(f.seg)
      /\ ~f.ok => f.seg.samples = o.samples
      /\ fail = "none" => f.ok
  <2>1. /\ s.bad = FALSE /\ s.fd \in {"none", "open"} /\ s.created = (IF s.fd = "open" THEN 1 ELSE 0)
        /\ s.completed = 0 /\ s.rotated = FALSE
    BY <1>1, <1>2, RecSegmentFields DEF RecQuiet, RecFds
  <2> HIDE DEF f
  <2>2. /\ f.seg \in RecSegments /\ f.ok \in BOOLEAN
        /\ f.seg.start = s.start /\ f.seg.end = s.end
        /\ f.seg.completed = s.completed /\ f.seg.rotated = s.rotated
        /\ s.fd # "none" => f.seg.fd = s.fd /\ f.seg.created = s.created
        /\ s.fd = "none" => /\ f.seg.fd \in {"none", "open"}
                            /\ f.seg.created \in {s.created, s.created + 1}
                            /\ f.seg.fd = "open" => f.seg.created = s.created + 1
        /\ f.ok => ~f.seg.bad
        /\ f.ok => f.seg.samples = RecGather(s) /\ f.seg.fd = "open"
        /\ ~f.ok => f.seg.samples = s.samples
        /\ fail = "none" /\ s.fd # "shut" /\ ~s.bad => f.ok
    BY <1>2, RecFlushIs DEF f
  <2>3. f.seg.fd # "shut" /\ f.seg.created \in 0..1 /\ (f.seg.fd = "open" => f.seg.created = 1)
    BY <2>1, <2>2
  <2>4. f.ok => RecQuiet(f.seg)
    BY <2>1, <2>2, <2>3 DEF RecQuiet
  <2> QED
    BY <1>2, <1>3, <1>4, <2>1, <2>2, <2>3, <2>4
<1>11. /\ RecQuiet(s) /\ s.completed = 0 /\ ~s.rotated /\ s.fd # "shut" /\ s.created \in 0..1
       /\ s.fd = "none" => s.samples = << >>
       /\ s.fd = "open" => s.created = 1
  BY <1>1, <1>2, <1>4 DEF RecQuiet
<1>22. units + 1 \in Nat /\ (\A q \in Seq(RecSamples) : q \o <<x>> = Append(q, x))
  OBVIOUS
<1>23. o.start \in Nat /\ s.end \in Nat /\ s \in RecSegments /\ units + 1 \in Nat
  BY <1>1, <1>2, <1>22
<1>24. RecIsFmp4
  OBVIOUS
<1>20. RecWritten(s, o.start, s.end, units + 1)
  BY <1>2, <1>5, <1>11 DEF RecWritten
<1>21. RecWritten(f.seg, o.start, s.end, units + 1)
  <2>1. CASE f.ok
    BY <1>6, <1>8, <2>1 DEF RecWritten
  <2>2. CASE ~f.ok
    BY <1>5, <1>8, <2>2 DEF RecWritten
  <2> QED
    BY <1>8, <2>1, <2>2
<1> DEFINE np == [start |-> x.dts, end |-> x.dts + x.duration, samples |-> <<x>>]
<1>12. np \in RecParts /\ np.samples = <<x>>
  BY <1>1, <1>7 DEF RecParts
<1> HIDE DEF f, np, due, w
<1>13. CASE due /\ ~f.ok
  <2> DEFINE v == [f.seg EXCEPT !.part = RecNoPart]
  <2>1. w.seg = v /\ w.ok = FALSE
    BY <1>13 DEF w, RecSegmentWrite, RecResult, s, f, due
  <2>2. /\ RecIds(<< >>, units + 1) /\ RecWithin(<< >>, o.start, s.end)
        /\ RecRoom(o.samples, << >>, units + 1)
    <3>1. RecIds(<< >>, units + 1) /\ RecWithin(<< >>, o.start, s.end)
      BY DEF RecIds, RecWithin
    <3> QED
      BY <1>1, <1>4, <3>1, RecRoomIs
  <2> HIDE DEF v
  <2>3. /\ v \in RecSegments /\ v.start = o.start /\ ~v.rotated /\ v.created \in 0..1
        /\ RecFileFits(v, RecIsFmp4, units + 1) /\ v.samples = o.samples /\ v.part = RecNoPart
    <3>1. RecPieceFits(RecNoPart, f.seg, o.start, s.end, units + 1)
      BY <1>8, <1>13, <2>2, RecPartIs DEF RecPieceFits
    <3>2. RecWith(v, f.seg, RecNoPart, o.start, s.end, units + 1)
      <4>1. v = [f.seg EXCEPT !.part = RecNoPart]
        BY DEF v
      <4>2. f.seg \in RecSegments /\ RecNoPart \in RecParts
        BY <1>8, RecPartIs
      <4> QED
        BY <1>23, <1>21, <3>1, <4>1, <1>24, <4>2, RecGoesOnWith, Zenon
    <3> QED
      BY <1>8, <1>13, <3>2 DEF RecWith
  <2>4. RecPlaysOn(o) => RecPlaysOn(v)
    BY <1>1, <2>3, RecPartIs, RecConcatIs DEF RecPlaysOn, RecGather
  <2> QED
    BY <1>8, <1>13, <2>1, <2>3, <2>4 DEF w
<1>14. CASE ~(due /\ ~f.ok) /\ fail = "size"
  <2>1. w.seg = s /\ w.ok = FALSE
    BY <1>14 DEF w, RecSegmentWrite, RecResult, s, f, due
  <2>2. RecFileFits(s, RecIsFmp4, units + 1)
    <3>1. /\ s.created \in 0..2 /\ s.completed \in 0..1 /\ (s.fd # "none" => s.created >= 1)
          /\ RecRoom(o.samples, << >>, units + 1) /\ RecRoom(o.samples, o.part.samples, units + 1)
      <4>1. s.fd \in {"none", "open"}
        BY <1>1, <1>2, <1>11 DEF RecFds
      <4>2. units + 1 \in Nat /\ units <= units + 1
        OBVIOUS
      <4>3. RecRoom(o.samples, << >>, units + 1) /\ RecRoom(o.samples, o.part.samples, units + 1)
        BY <1>1, <1>4, <4>2, RecRoomOf, RecRoomShort
      <4> QED
        BY <1>11, <4>1, <4>3
    <3> QED
      BY <1>2, <1>5, <1>11, <3>1 DEF RecFileFits
  <2>3. RecPlaysOn(o) => RecPlaysOn(s)
    BY <1>2, <1>3 DEF RecPlaysOn
  <2> QED
    BY <1>2, <1>11, <1>14, <2>1, <2>2, <2>3 DEF w
<1>15. CASE ~(due /\ ~f.ok) /\ fail # "size" /\ s.part = RecNoPart
  <2> DEFINE v == [s EXCEPT !.part = np]
  <2>1. w.seg = v /\ w.ok = TRUE
    BY <1>15 DEF w, RecSegmentWrite, RecResult, RecNextPart, s, f, due, np
  <2>2. s.part.samples = << >> /\ g = o.samples
    BY <1>1, <1>2, <1>15, RecPartIs, RecConcatIs DEF RecGather
  <2> HIDE DEF v
  <2>3. RecRoom(s.samples, np.samples, units + 1)
    BY <1>1, <1>2, <1>4, <1>12, RecRoomIs
  <2>4. /\ v \in RecSegments /\ v.start = o.start /\ ~v.rotated /\ v.created \in 0..1 /\ v.end = s.end
        /\ RecFileFits(v, RecIsFmp4, units + 1) /\ RecQuiet(v) /\ v.samples = o.samples /\ v.part = np
    <3>1. RecPieceFits(np, s, o.start, s.end, units + 1)
      BY <1>7, <1>12, <2>3 DEF RecPieceFits
    <3>2. RecWith(v, s, np, o.start, s.end, units + 1)
      <4>1. v = [s EXCEPT !.part = np]
        BY DEF v
      <4>2. np \in RecParts
        BY <1>12
      <4> QED
        BY <1>23, <1>20, <3>1, <4>1, <1>24, <4>2, RecGoesOnWith, Zenon
    <3> QED
      BY <1>2, <1>11, <3>2 DEF RecWith
  <2>5. RecGather(v) = Append(g, x)
    BY <1>1, <1>12, <1>22, <2>2, <2>4 DEF RecGather
  <2> QED
    BY <1>2, <2>1, <2>4, <2>5 DEF w
<1>16. CASE f.ok /\ due /\ fail # "size"
  <2> DEFINE v == [f.seg EXCEPT !.part = np]
  <2>1. w.seg = v /\ w.ok = TRUE
    BY <1>16 DEF w, RecSegmentWrite, RecResult, RecNextPart, s, f, due, np
  <2> HIDE DEF v
  <2>2. RecRoom(f.seg.samples, np.samples, units + 1)
    BY <1>1, <1>4, <1>8, <1>12, <1>16, RecRoomIs DEF RecGather
  <2>3. /\ v \in RecSegments /\ v.start = o.start /\ ~v.rotated /\ v.created \in 0..1 /\ v.end = s.end
        /\ RecFileFits(v, RecIsFmp4, units + 1) /\ RecQuiet(v) /\ v.samples = g /\ v.part = np
    <3>1. RecPieceFits(np, f.seg, o.start, s.end, units + 1)
      BY <1>7, <1>12, <2>2 DEF RecPieceFits
    <3>2. RecWith(v, f.seg, np, o.start, s.end, units + 1)
      <4>1. v = [f.seg EXCEPT !.part = np]
        BY DEF v
      <4>2. f.seg \in RecSegments /\ np \in RecParts
        BY <1>8, <1>12
      <4> QED
        BY <1>23, <1>21, <3>1, <4>1, <1>24, <4>2, RecGoesOnWith, Zenon
    <3> QED
      BY <1>8, <1>16, <3>2 DEF RecWith
  <2>4. g \o <<x>> = Append(g, x)
    BY <1>1
  <2>5. RecGather(v) = Append(g, x)
    BY <1>12, <2>3, <2>4 DEF RecGather
  <2> QED
    BY <1>2, <2>1, <2>3, <2>5 DEF w
<1>17. CASE ~due /\ fail # "size" /\ s.part # RecNoPart
  <2> DEFINE q == Append(s.part.samples, x)
             e == RecMaximum(s.part.end, x.dts + x.duration)
             p == [s.part EXCEPT !.samples = q, !.end = e]
             v == [s EXCEPT !.part = p]
  <2>1. w.seg = v /\ w.ok = TRUE
    <3>1. w.seg = RecSamePart(s, x) /\ w.ok = TRUE
      BY <1>17 DEF w, RecSegmentWrite, RecResult, s, f, due
    <3>2. RecSamePart(s, x) = v
      BY Zenon DEF RecSamePart, p, v, q, e
    <3> QED
      BY <3>1, <3>2
  <2>2. e \in Nat
    <3>1. s.part.end \in Nat \cup {-1}
      BY <1>2, RecSegmentFields
    <3>2. x.dts + x.duration \in Nat
      BY <1>19
    <3> QED
      BY <3>1, <3>2 DEF RecMaximum
  <2>3. /\ q \in Seq(RecSamples) /\ RecRoom(o.samples, q, units + 1)
        /\ RecIds(q, units + 1) /\ RecWithin(q, o.start, s.end)
    <3>1. q \in Seq(RecSamples) /\ RecRoom(o.samples, q, units + 1)
      <4>1. RecRoom(o.samples, o.part.samples, units) /\ q = Append(o.part.samples, x)
        BY <1>2, <1>4
      <4> HIDE DEF q
      <4>2. RecRoom(o.samples, Append(o.part.samples, x), units + 1)
        BY <1>1, <4>1, RecRoomIs
      <4>3. Append(o.part.samples, x) \in Seq(RecSamples)
        BY <1>1, RecAppendIs
      <4> QED
        BY <4>1, <4>2, <4>3
    <3>2. RecIds(q, units + 1) /\ RecWithin(q, o.start, s.end)
      <4>1. /\ RecIds(o.part.samples, units + 1) /\ x.id <= units + 1 /\ units + 1 \in Nat
            /\ RecWithin(o.part.samples, o.start, s.end) /\ o.start <= x.dts /\ x.dts + x.duration <= s.end
            /\ o.start \in Nat /\ s.end \in Nat /\ s.end <= s.end /\ q = Append(o.part.samples, x)
            /\ o.part.samples \in Seq(RecSamples)
        BY <1>1, <1>2, <1>5, <1>22
      <4> HIDE DEF q
      <4>2. /\ RecIds(Append(o.part.samples, x), units + 1)
            /\ RecWithin(Append(o.part.samples, x), o.start, s.end)
        BY <4>1, RecAppendIs
      <4> QED
        BY <4>1, <4>2
    <3> QED
      BY <3>1, <3>2
  <2> HIDE DEF q, e
  <2>4. p \in RecParts /\ p.samples = q
    <3>1. s.part \in RecParts
      BY <1>1, <1>2
    <3> QED
      BY <2>2, <2>3, <3>1 DEF RecParts
  <2> HIDE DEF p, v
  <2>5. RecRoom(s.samples, p.samples, units + 1)
    BY <1>2, <2>3, <2>4
  <2>6. /\ v \in RecSegments /\ v.start = o.start /\ ~v.rotated /\ v.created \in 0..1 /\ v.end = s.end
        /\ RecFileFits(v, RecIsFmp4, units + 1) /\ RecQuiet(v) /\ v.samples = o.samples /\ v.part = p
    <3>1. RecPieceFits(p, s, o.start, s.end, units + 1)
      BY <2>3, <2>4, <2>5 DEF RecPieceFits
    <3>2. RecWith(v, s, p, o.start, s.end, units + 1)
      <4>1. v = [s EXCEPT !.part = p]
        BY DEF v
      <4>2. p \in RecParts
        BY <2>4
      <4> QED
        BY <1>23, <1>20, <3>1, <4>1, <1>24, <4>2, RecGoesOnWith, Zenon
    <3> QED
      BY <1>2, <1>11, <3>2 DEF RecWith
  <2>7. RecGather(v) = Append(g, x)
    <3>1. o.samples \o Append(o.part.samples, x) = Append(o.samples \o o.part.samples, x)
      BY <1>1, RecConcatAppend
    <3>2. q = Append(o.part.samples, x)
      BY <1>2 DEF q
    <3> QED
      BY <2>4, <2>6, <3>1, <3>2 DEF RecGather
  <2> QED
    BY <1>2, <2>1, <2>6, <2>7 DEF w
<1>18. due => s.part # RecNoPart
  BY DEF due
<1> QED
  BY <1>8, <1>13, <1>14, <1>15, <1>16, <1>17, <1>18

----------------------------------------------------------------------------
(* In how many places a unit is.                                           *)

\* How often a sample is in each place.
RecOne(b) == IF b THEN 1 ELSE 0
RecInHeld(held, id) == Cardinality({t \in RecTracks : held[t].id = id})
RecInLate(late, id) == Cardinality({x \in late : x.id = id})
RecInSegment(s, fmp4, id) ==
    IF s = RecNoSegment THEN 0
    ELSE RecCountIn(s.samples, id) + (IF fmp4 /\ s.fd = "shut" THEN 0 ELSE RecCountIn(s.part.samples, id))
RecAt(s, j, id) == j <= Len(s.samples) /\ s.samples[j].id = id
RecHits(past, id) == {p \in (1..Len(past)) \X (1..RecMaxUnits) : RecAt(past[p[1]], p[2], id)}
RecInPast(past, id) == Cardinality(RecHits(past, id))
RecPlacesIn(held, late, s, past, fmp4, id) ==
    RecInHeld(held, id) + RecInLate(late, id) + RecInSegment(s, fmp4, id) + RecInPast(past, id)

LEMMA RecCountIsFinite ==
    ASSUME NEW q \in Seq(RecSamples), NEW id
    PROVE  IsFiniteSet({i \in 1..Len(q) : q[i].id = id}) /\ RecCountIn(q, id) \in Nat
<1>1. IsFiniteSet(1..Len(q))
  <2>1. Len(q) \in Int
    OBVIOUS
  <2> QED
    BY <2>1, FS_Interval
<1>2. IsFiniteSet({i \in 1..Len(q) : q[i].id = id})
  BY <1>1, FS_Subset
<1> QED
  BY <1>2, FS_CardinalityType DEF RecCountIn

\* A sample more is one more of its id.
LEMMA RecCountAppend ==
    ASSUME NEW q \in Seq(RecSamples), NEW x \in RecSamples, NEW id
    PROVE  RecCountIn(Append(q, x), id) = RecCountIn(q, id) + RecOne(x.id = id)
<1> DEFINE A == {i \in 1..Len(q) : q[i].id = id}
           B == {i \in 1..Len(Append(q, x)) : Append(q, x)[i].id = id}
           n == Len(q) + 1
<1>1. IsFiniteSet(A) /\ Cardinality(A) \in Nat
  BY RecCountIsFinite, FS_CardinalityType
<1>2. /\ Len(Append(q, x)) = n /\ n \in Nat /\ n - 1 = Len(q) /\ Append(q, x)[n] = x
      /\ \A i \in 1..Len(q) : Append(q, x)[i] = q[i]
  OBVIOUS
<1>3. n \notin A
  BY <1>2
<1>4. B = IF x.id = id THEN A \cup {n} ELSE A
  <2>1. \A i : i \in 1..n <=> i \in 1..Len(q) \/ i = n
    BY <1>2
  <2> QED
    BY <1>2, <1>3, <2>1
<1> HIDE DEF A, B, n
<1>5. Cardinality(B) = Cardinality(A) + RecOne(x.id = id)
  <2>1. CASE x.id = id
    <3>1. Cardinality(A \cup {n}) = Cardinality(A) + 1
      BY <1>1, <1>3, FS_AddElement
    <3> QED
      BY <1>4, <2>1, <3>1 DEF RecOne
  <2>2. CASE x.id # id
    BY <1>1, <1>4, <2>2 DEF RecOne
  <2> QED
    BY <2>1, <2>2
<1> QED
  BY <1>5 DEF RecCountIn, A, B

LEMMA RecCountConcat ==
    ASSUME NEW q \in Seq(RecSamples), NEW p \in Seq(RecSamples), NEW id
    PROVE  RecCountIn(q \o p, id) = RecCountIn(q, id) + RecCountIn(p, id)
<1> DEFINE m == Len(q)
           n == Len(p)
           A == {i \in 1..m : q[i].id = id}
           B == {i \in 1..n : p[i].id = id}
           C == {i \in (m + 1)..(m + n) : p[i - m].id = id}
           D == {i \in 1..Len(q \o p) : (q \o p)[i].id = id}
           f == [i \in B |-> i + m]
<1>1. /\ m \in Nat /\ n \in Nat /\ Len(q \o p) = m + n
      /\ \A i \in 1..m : (q \o p)[i] = q[i]
      /\ \A i \in (m + 1)..(m + n) : (q \o p)[i] = p[i - m]
  OBVIOUS
<1>2. IsFiniteSet(A) /\ IsFiniteSet(B)
  BY RecCountIsFinite
<1> HIDE DEF m, n
<1>3. D = A \cup C
  <2>1. \A i : i \in 1..(m + n) <=> i \in 1..m \/ i \in (m + 1)..(m + n)
    BY <1>1
  <2> QED
    BY <1>1, <2>1
<1>4. A \cap C = {}
  BY <1>1
<1>5. f \in Bijection(B, C)
  <2>1. f \in [B -> C]
    BY <1>1
  <2>2. \A i, j \in B : f[i] = f[j] => i = j
    BY <1>1
  <2>3. \A k \in C : \E i \in B : f[i] = k
    <3> SUFFICES ASSUME NEW k \in C PROVE \E i \in B : f[i] = k
      OBVIOUS
    <3>1. (k - m) \in B /\ (k - m) + m = k
      BY <1>1
    <3> QED
      BY <3>1
  <2> QED
    BY <2>1, <2>2, <2>3 DEF Bijection, Injection, Surjection, IsInjective
<1> HIDE DEF A, B, C, D, f
<1>6. IsFiniteSet(C) /\ Cardinality(C) = Cardinality(B)
  BY <1>2, <1>5, FS_Bijection DEF ExistsBijection
<1>7. Cardinality(D) = Cardinality(A) + Cardinality(B)
  <2>1. Cardinality(A \cup C) = Cardinality(A) + Cardinality(C) - Cardinality(A \cap C)
    BY <1>2, <1>6, FS_Union
  <2>2. Cardinality(A) \in Nat /\ Cardinality(C) \in Nat
    BY <1>2, <1>6, FS_CardinalityType
  <2>3. Cardinality(A \cap C) = 0
    BY <1>4, FS_EmptySet
  <2>4. Cardinality(A \cup C) = Cardinality(A) + Cardinality(C)
    BY <2>1, <2>2, <2>3
  <2> QED
    BY <1>3, <1>6, <2>4
<1> QED
  BY <1>7 DEF RecCountIn, A, B, D, m, n

\* Nothing is in an empty sequence, and no unit to come in one of known ids.
LEMMA RecCountNone ==
    ASSUME NEW q \in Seq(RecSamples), NEW units \in Nat, RecIds(q, units), NEW id \in Nat, id > units
    PROVE  RecCountIn(q, id) = 0
<1>1. \A i \in 1..Len(q) : q[i] \in RecSamples
  OBVIOUS
<1>4. \A i \in 1..Len(q) : q[i].id \in Nat
  BY <1>1 DEF RecSamples
<1>2. \A i \in 1..Len(q) : q[i].id # id
  BY <1>4 DEF RecIds
<1>3. {i \in 1..Len(q) : q[i].id = id} = {}
  BY <1>2
<1> QED
  BY <1>3, FS_EmptySet DEF RecCountIn

LEMMA RecCountEmpty == \A id : RecCountIn(<< >>, id) = 0
<1>1. \A id : {i \in 1..Len(<< >>) : << >>[i].id = id} = {}
  OBVIOUS
<1> QED
  BY <1>1, FS_EmptySet DEF RecCountIn

\* A sample held back instead of another.
LEMMA RecHeldIs ==
    ASSUME NEW held, NEW id
    PROVE  RecInHeld(held, id) = RecOne(held["video"].id = id) + RecOne(held["audio"].id = id)
<1> DEFINE v == {"video"}
           a == {"audio"}
           A == {t \in RecTracks : held[t].id = id}
<1>1. A = (IF held["video"].id = id THEN {"video"} ELSE {}) \cup (IF held["audio"].id = id THEN {"audio"} ELSE {})
  BY DEF RecTracks
<1>2. Cardinality({"video"}) = 1 /\ Cardinality({"audio"}) = 1 /\ Cardinality({}) = 0 /\ IsFiniteSet({"video"})
  BY FS_Singleton, FS_EmptySet
<1>3. Cardinality({"video"} \cup {"audio"}) = 2
  BY <1>2, FS_AddElement
<1>4. /\ {"video"} \cup {} = {"video"} /\ {} \cup {"audio"} = {"audio"} /\ {} \cup {} = {}
  OBVIOUS
<1> HIDE DEF A
<1>5. CASE held["video"].id = id /\ held["audio"].id = id
  BY <1>1, <1>3, <1>5 DEF RecInHeld, RecOne, A
<1>6. CASE held["video"].id = id /\ held["audio"].id # id
  BY <1>1, <1>2, <1>4, <1>6 DEF RecInHeld, RecOne, A
<1>7. CASE held["video"].id # id /\ held["audio"].id = id
  <2>1. A = {"audio"}
    BY <1>1, <1>4, <1>7
  <2> QED
    <3>1. RecOne(held["video"].id = id) = 0 /\ RecOne(held["audio"].id = id) = 1
      BY <1>7 DEF RecOne
    <3> QED
      BY <1>2, <2>1, <3>1 DEF RecInHeld, A
<1>8. CASE held["video"].id # id /\ held["audio"].id # id
  BY <1>1, <1>2, <1>4, <1>8 DEF RecInHeld, RecOne, A
<1> QED
  BY <1>5, <1>6, <1>7, <1>8

LEMMA RecHeldChange ==
    ASSUME NEW held, DOMAIN held = RecTracks, NEW t \in RecTracks, NEW x, NEW id
    PROVE  /\ RecInHeld([held EXCEPT ![t] = x], id) + RecOne(held[t].id = id) = RecInHeld(held, id) + RecOne(x.id = id)
           /\ RecInHeld(held, id) \in Nat
<1> DEFINE new == [held EXCEPT ![t] = x]
<1>1. new[t] = x /\ \A u \in RecTracks : u # t => new[u] = held[u]
  OBVIOUS
<1>2. RecInHeld(new, id) = RecOne(new["video"].id = id) + RecOne(new["audio"].id = id)
  BY RecHeldIs
<1>3. RecInHeld(held, id) = RecOne(held["video"].id = id) + RecOne(held["audio"].id = id)
  BY RecHeldIs
<1>4. \A b : RecOne(b) \in 0..1
  BY DEF RecOne
<1> HIDE DEF new
<1>5. CASE t = "video"
  <2>1. new["video"] = x /\ new["audio"] = held["audio"] /\ held[t] = held["video"]
    BY <1>1, <1>5 DEF RecTracks
  <2> DEFINE o == RecOne(held["video"].id = id)
             i == RecOne(x.id = id)
             k == RecOne(held["audio"].id = id)
  <2>5. RecInHeld(new, id) = i + k /\ RecInHeld(held, id) = o + k
    <3>1. RecInHeld(new, id) = i + k
      BY <1>2, <2>1
    <3> QED
      BY <1>3, <3>1
  <2>2. RecOne(held[t].id = id) = o
    BY <2>1
  <2>3. o \in 0..1 /\ i \in 0..1 /\ k \in 0..1
    BY <1>4
  <2> HIDE DEF o, i, k
  <2>4. i + k + o = o + k + i /\ o + k \in Nat
    BY <2>3
  <2> QED
    BY <2>2, <2>4, <2>5 DEF i, new
<1>6. CASE t = "audio"
  <2>1. new["audio"] = x /\ new["video"] = held["video"] /\ held[t] = held["audio"]
    BY <1>1, <1>6 DEF RecTracks
  <2> DEFINE o == RecOne(held["audio"].id = id)
             i == RecOne(x.id = id)
             k == RecOne(held["video"].id = id)
  <2>5. RecInHeld(new, id) = k + i /\ RecInHeld(held, id) = k + o
    <3>1. RecInHeld(new, id) = k + i
      BY <1>2, <2>1
    <3> QED
      BY <1>3, <3>1
  <2>2. RecOne(held[t].id = id) = o
    BY <2>1
  <2>3. o \in 0..1 /\ i \in 0..1 /\ k \in 0..1
    BY <1>4
  <2> HIDE DEF o, i, k
  <2>4. k + i + o = k + o + i /\ k + o \in Nat
    BY <2>3
  <2> QED
    BY <2>2, <2>4, <2>5 DEF i, new
<1> QED
  BY <1>5, <1>6 DEF RecTracks

\* A segment more among the past ones adds what it holds.
LEMMA RecPastAppend ==
    ASSUME NEW past \in Seq(RecSegments), NEW s \in RecSegments, NEW id, RecMaxUnits \in Nat,
           RecRoom(s.samples, << >>, RecMaxUnits)
    PROVE  /\ RecInPast(Append(past, s), id) = RecInPast(past, id) + RecCountIn(s.samples, id)
           /\ RecInPast(past, id) \in Nat
<1> DEFINE q == s.samples
           n == Len(past) + 1
           M == 1..RecMaxUnits
           A == RecHits(past, id)
           H == {j \in M : RecAt(s, j, id)}
           N == {n}
           B == N \X H
           C == RecHits(Append(past, s), id)
<1>1. q \in Seq(RecSamples)
  BY RecSegmentFields
<1>2. H = {i \in 1..Len(q) : q[i].id = id}
  <2>1. Len(q) <= RecMaxUnits
    <3> HIDE DEF q
    <3>1. Len(q) \in Nat /\ Len(<< >>) = 0
      BY <1>1
    <3>2. RecRoom(q, << >>, RecMaxUnits)
      BY DEF q
    <3> QED
      BY <3>1, <3>2 DEF RecRoom
  <2>2. \A j : RecAt(s, j, id) <=> j <= Len(q) /\ q[j].id = id
    BY DEF RecAt
  <2>3. Len(q) \in Nat
    BY <1>1
  <2> HIDE DEF q
  <2>4. \A j : j \in 1..Len(q) <=> j \in M /\ j <= Len(q)
    BY <2>1, <2>3
  <2> QED
    BY <2>2, <2>4
<1>3. IsFiniteSet(H) /\ Cardinality(H) = RecCountIn(q, id) /\ Cardinality(H) \in Nat
  BY <1>1, <1>2, RecCountIsFinite DEF RecCountIn
<1>4. /\ Len(Append(past, s)) = n /\ n \in Nat /\ Append(past, s)[n] = s
      /\ \A i \in 1..Len(past) : Append(past, s)[i] = past[i]
      /\ n \notin 1..Len(past) /\ 1..n = (1..Len(past)) \cup {n}
  OBVIOUS
<1>5. IsFiniteSet(A)
  <2>1. IsFiniteSet(1..Len(past)) /\ IsFiniteSet(M)
    <3>1. Len(past) \in Int /\ RecMaxUnits \in Int
      OBVIOUS
    <3> QED
      BY <3>1, FS_Interval
  <2>2. IsFiniteSet((1..Len(past)) \X M)
    BY <2>1, FS_Product
  <2>3. A \subseteq (1..Len(past)) \X M
    BY DEF RecHits
  <2> QED
    BY <2>2, <2>3, FS_Subset
<1>6. C = A \cup B
  <2> DEFINE R(p) == RecAt(Append(past, s)[p[1]], p[2], id)
  <2>1. C = {p \in (1..n) \X M : R(p)}
    BY <1>4 DEF RecHits
  <2>2. A = {p \in (1..Len(past)) \X M : R(p)}
    BY <1>4 DEF RecHits
  <2>3. B = {p \in {n} \X M : R(p)}
    BY <1>4
  <2>4. (1..n) \X M = ((1..Len(past)) \X M) \cup ({n} \X M)
    BY <1>4
  <2> HIDE DEF A, B, C, R, M, n
  <2> QED
    BY <2>1, <2>2, <2>3, <2>4
<1>7. A \cap B = {}
  BY <1>4 DEF RecHits
<1>8. IsFiniteSet(N) /\ Cardinality(N) = 1
  BY FS_Singleton
<1> HIDE DEF A, B, C, H, N
<1>9. IsFiniteSet(B) /\ Cardinality(B) = Cardinality(H)
  <2>1. IsFiniteSet(N \X H) /\ Cardinality(N \X H) = Cardinality(N) * Cardinality(H)
    BY <1>3, <1>8, FS_Product
  <2>2. Cardinality(N) * Cardinality(H) = Cardinality(H)
    <3>1. \A c \in Nat : 1 * c = c
      OBVIOUS
    <3> QED
      BY <1>3, <1>8, <3>1
  <2> QED
    BY <2>1, <2>2 DEF B
<1>10. Cardinality(C) = Cardinality(A) + Cardinality(H) /\ Cardinality(A) \in Nat
  <2>1. Cardinality(A \cup B) = Cardinality(A) + Cardinality(B) - Cardinality(A \cap B)
    BY <1>5, <1>9, FS_Union
  <2>2. Cardinality(A) \in Nat
    BY <1>5, FS_CardinalityType
  <2>3. Cardinality(A \cap B) = 0
    BY <1>7, FS_EmptySet
  <2>4. Cardinality(A \cup B) = Cardinality(A) + Cardinality(B)
    BY <1>3, <1>9, <2>1, <2>2, <2>3
  <2> QED
    BY <1>6, <1>9, <2>2, <2>4
<1> QED
  BY <1>3, <1>10 DEF RecInPast, A, C, q

----------------------------------------------------------------------------
(* The state of the recorder, typed, and its inductive invariant.          *)

RecRuns == {"watching", "pausing", "closing", "closed"}
RecInsts == {"on", "failed", "done"}
RecRecord ==
    [setup : RecSetups, run : RecRuns, asked : BOOLEAN, past : Seq(RecSegments), late : SUBSET RecSamples,
     units : 0..RecMaxUnits, faults : Nat, inst : RecInsts, told : BOOLEAN,
     pending : [RecTracks -> RecSamples \cup {RecNone}], begun : SUBSET RecTracks,
     last : [RecTracks -> Nat \cup {-1}], hasVideo : BOOLEAN, seg : RecSegments \cup {RecNoSegment},
     failed : BOOLEAN, accepted : SUBSET Nat]

\* The samples held back and the late ones; fMP4 holds one of each track that began.
RecHeldFits(r) ==
    /\ \A t \in RecTracks : r.pending[t] # RecNone => r.pending[t].track = t /\ r.pending[t].id <= r.units
    /\ r.setup[1] # "fmp4" => r.late = {} /\ \A t \in RecTracks : r.pending[t] = RecNone
    /\ r.setup[1] = "fmp4" => \A t \in RecTracks : t \in r.begun <=> r.pending[t] # RecNone
    /\ IsFiniteSet(r.late) /\ \A x \in r.late : x.id <= r.units
    /\ r.accepted \subseteq 1..r.units
    /\ (r.inst = "on" => ~r.failed) /\ (r.inst = "failed" => r.failed)
    /\ r.hasVideo <=> "video" \in r.begun

\* The current segment; clean: no operation has failed so far.
RecSegFits(s, fmp4, units, inst, clean) ==
    s # RecNoSegment => /\ inst # "done" /\ s.created \in 0..1 /\ ~s.rotated
                        /\ inst = "on" \/ clean => RecQuiet(s)
                        /\ RecFileFits(s, fmp4, units)

\* The segments that ended and left a file.
RecPastFits(past, fmp4, units, clean) ==
    \A i \in 1..Len(past) : /\ RecFileFits(past[i], fmp4, units) /\ past[i].created >= 1
                            /\ clean => past[i].completed = 1

\* The files play alone, and the current one goes on so.
RecVideoPlays(past, s) ==
    /\ \A i \in 1..Len(past) : RecPlays(past[i].samples)
    /\ s # RecNoSegment => RecPlaysOn(s)
RecNoVideoIn(s) == s = RecNoSegment \/ RecNoVideo(RecGather(s))
RecVideoNext(r) ==
    r.inst = "on" =>
        IF r.setup[1] = "fmp4"
        THEN RecNoVideoIn(r.seg) /\ r.pending["video"] # RecNone => r.pending["video"].sync
        ELSE r.hasVideo => ~RecNoVideoIn(r.seg)
RecPlayable(r) == r.setup # <<"mpegts", "mpeg">> /\ \A x \in r.late : x.track # "video"

\* Every accepted unit is in one place.
RecOnce(r, fmp4, id) == RecPlacesIn(r.pending, r.late, r.seg, r.past, fmp4, id) = 1

RecFits(r, clean) ==
    /\ RecHeldFits(r)
    /\ RecSegFits(r.seg, r.setup[1] = "fmp4", r.units, r.inst, clean)
    /\ RecPastFits(r.past, r.setup[1] = "fmp4", r.units, clean)
    /\ RecPlayable(r) => RecVideoPlays(r.past, r.seg) /\ RecVideoNext(r)
    /\ ~r.failed /\ clean => \A id \in r.accepted : RecOnce(r, r.setup[1] = "fmp4", id)

\* Two records that differ at most in the files and in whether the instance failed.
RecSameRest(n, r) ==
    /\ n.setup = r.setup /\ n.run = r.run /\ n.asked = r.asked /\ n.late = r.late /\ n.units = r.units
    /\ n.faults = r.faults /\ n.told = r.told /\ n.pending = r.pending /\ n.begun = r.begun /\ n.last = r.last
    /\ n.hasVideo = r.hasVideo /\ n.accepted = r.accepted

LEMMA RecRecordFields ==
    ASSUME NEW r \in RecRecord
    PROVE  /\ r.setup \in RecSetups /\ r.run \in RecRuns /\ r.asked \in BOOLEAN /\ r.past \in Seq(RecSegments)
           /\ r.late \subseteq RecSamples /\ r.units \in 0..RecMaxUnits /\ r.faults \in Nat /\ r.inst \in RecInsts
           /\ r.told \in BOOLEAN /\ r.pending \in [RecTracks -> RecSamples \cup {RecNone}]
           /\ r.begun \subseteq RecTracks /\ r.last \in [RecTracks -> Nat \cup {-1}] /\ r.hasVideo \in BOOLEAN
           /\ r.seg \in RecSegments \cup {RecNoSegment} /\ r.failed \in BOOLEAN /\ r.accepted \subseteq Nat
  BY DEF RecRecord

\* A segment begins empty, or with what the buffer holds.
LEMMA RecNewIs ==
    ASSUME NEW start \in Nat, NEW units \in Nat, NEW fmp4 \in BOOLEAN
    PROVE  LET s == RecNewSegment(start, << >>)
           IN  /\ s \in RecSegments /\ s.start = start /\ s.end = start /\ RecQuiet(s) /\ RecFileFits(s, fmp4, units)
               /\ RecGather(s) = << >> /\ s.samples = << >> /\ s.part = RecNoPart /\ s.part.samples = << >>
               /\ s.created = 0 /\ ~s.rotated /\ RecPlaysOn(s) /\ s.fd = "none"
<1> DEFINE s == RecNewSegment(start, << >>)
<1>1. s = [start |-> start, end |-> start, part |-> RecNoPart,
           flushed |-> start, fd |-> "none", bad |-> FALSE, samples |-> << >>,
           created |-> 0, completed |-> 0, duration |-> 0, rotated |-> FALSE]
  BY RecPartIs DEF RecNewSegment
<1> HIDE DEF s
<1>2. s \in RecSegments
  BY <1>1, RecPartIs DEF RecSegments, RecFds
<1>3. /\ s.start = start /\ s.end = start /\ s.samples = << >> /\ s.part = RecNoPart /\ s.part.samples = << >>
      /\ s.created = 0 /\ ~s.rotated /\ s.fd = "none" /\ s.completed = 0 /\ ~s.bad
  BY <1>1, RecPartIs
<1>4. RecGather(s) = << >>
  BY <1>3, RecPartIs, RecConcatIs DEF RecGather
<1>5. /\ RecIds(<< >>, units) /\ RecWithin(<< >>, start, start) /\ RecPlays(<< >>)
      /\ RecRoom(<< >>, << >>, units)
  BY DEF RecIds, RecWithin, RecPlays, RecRoom
<1>6. RecQuiet(s)
  BY <1>3 DEF RecQuiet
<1>7. RecFileFits(s, fmp4, units)
  BY <1>3, <1>5, RecPartIs DEF RecFileFits
<1>8. RecPlaysOn(s)
  BY <1>3, <1>4, <1>5 DEF RecPlaysOn
<1> QED
  BY <1>2, <1>3, <1>4, <1>6, <1>7, <1>8 DEF s

\* What is known of the past files stays known when one is added.
LEMMA RecPastGrows ==
    ASSUME NEW past \in Seq(RecSegments), NEW d \in RecSegments, NEW fmp4 \in BOOLEAN, NEW units \in Nat,
           NEW clean \in BOOLEAN, NEW now \in BOOLEAN, now => clean, RecPastFits(past, fmp4, units, clean),
           RecFileFits(d, fmp4, units), d.created >= 1, now => d.completed = 1
    PROVE  /\ Append(past, d) \in Seq(RecSegments) /\ RecPastFits(Append(past, d), fmp4, units, now)
           /\ (\A i \in 1..Len(past) : RecPlays(past[i].samples)) /\ RecPlays(d.samples) =>
                \A i \in 1..Len(Append(past, d)) : RecPlays(Append(past, d)[i].samples)
<1> DEFINE a == Append(past, d)
           n == Len(past)
<1>1. /\ a \in Seq(RecSegments) /\ n \in Nat /\ Len(a) = n + 1 /\ a[n + 1] = d
      /\ \A i \in 1..n : a[i] = past[i]
  OBVIOUS
<1>2. \A i \in 1..Len(a) : i \in 1..n \/ i = n + 1
  BY <1>1
<1> HIDE DEF a
<1>3. RecPastFits(a, fmp4, units, now)
  <2> SUFFICES ASSUME NEW i \in 1..Len(a)
               PROVE  RecFileFits(a[i], fmp4, units) /\ a[i].created >= 1 /\ (now => a[i].completed = 1)
    BY Zenon DEF RecPastFits
  <2>1. CASE i \in 1..n
    BY <1>1, <2>1 DEF RecPastFits
  <2>2. CASE i = n + 1
    BY <1>1, <2>2
  <2> QED
    BY <1>2, <2>1, <2>2
<1>4. ASSUME \A i \in 1..n : RecPlays(past[i].samples), RecPlays(d.samples)
      PROVE  \A i \in 1..Len(a) : RecPlays(a[i].samples)
  BY <1>1, <1>2, <1>4
<1> QED
  BY <1>1, <1>3, <1>4 DEF a, n

----------------------------------------------------------------------------
(* The start and the end of a segment.                                     *)

\* The same record with another segment, as it goes on or as the instance failed.
LEMMA RecSegChange ==
    ASSUME NEW r \in RecRecord, NEW s \in RecSegments
    PROVE  LET n == [r EXCEPT !.seg = s]
               f == RecFail(n)
           IN  /\ n \in RecRecord /\ RecSameRest(n, r) /\ n.seg = s /\ n.past = r.past
               /\ n.inst = r.inst /\ n.failed = r.failed
               /\ f \in RecRecord /\ RecSameRest(f, r) /\ f.seg = s /\ f.past = r.past
               /\ f.inst = "failed" /\ f.failed
<1> DEFINE n == [r EXCEPT !.seg = s]
           f == RecFail(n)
<1>1. n \in RecRecord /\ RecSameRest(n, r) /\ n.seg = s /\ n.past = r.past /\ n.inst = r.inst /\ n.failed = r.failed
  BY DEF RecRecord, RecSameRest
<1> HIDE DEF n
<1>2. f \in RecRecord /\ RecSameRest(f, n) /\ f.seg = n.seg /\ f.past = n.past /\ f.inst = "failed" /\ f.failed = TRUE
  BY <1>1 DEF RecRecord, RecSameRest, RecFail, RecInsts
<1> HIDE DEF f
<1>3. RecSameRest(f, r)
  BY <1>1, <1>2 DEF RecSameRest
<1> QED
  BY <1>1, <1>2, <1>3 DEF n, f

\* A segment that ends because the next begins.
RecRotated(n, r, start, fmp4, units, now) ==
    /\ n \in RecRecord /\ RecSameRest(n, r)
    /\ (n.inst = "failed" /\ n.failed) \/ (n.inst = r.inst /\ n.failed = r.failed)
    /\ n.seg \in RecSegments
    /\ RecSegFits(n.seg, fmp4, units, n.inst, now)
    /\ RecPastFits(n.past, fmp4, units, now)
    /\ RecVideoPlays(r.past, r.seg) => RecVideoPlays(n.past, n.seg)
    /\ n.inst = r.inst => /\ n.seg.start = start /\ RecGather(n.seg) = << >> /\ RecQuiet(n.seg)
                          /\ \A id : RecInSegment(n.seg, fmp4, id) + RecInPast(n.past, id)
                                     = RecInSegment(r.seg, fmp4, id) + RecInPast(r.past, id)

\* What a segment holds is what it gathered, once its file cannot lose it.
LEMMA RecSegmentCount ==
    ASSUME NEW s \in RecSegments, NEW fmp4 \in BOOLEAN, s.fd # "shut" \/ ~fmp4, NEW id
    PROVE  RecInSegment(s, fmp4, id) = RecCountIn(RecGather(s), id)
<1>1. s.samples \in Seq(RecSamples) /\ s.part.samples \in Seq(RecSamples) /\ s # RecNoSegment
  BY RecSegmentFields
<1>2. RecCountIn(RecGather(s), id) = RecCountIn(s.samples, id) + RecCountIn(s.part.samples, id)
  BY <1>1, RecCountConcat DEF RecGather
<1> QED
  BY <1>1, <1>2 DEF RecInSegment

LEMMA RecRotateIs ==
    ASSUME NEW r \in RecRecord, NEW s \in RecSegments, r.seg = s, NEW start \in Nat, NEW fail \in RecFaults,
           NEW units \in 0..RecMaxUnits, RecMaxUnits \in Nat, RecQuiet(s), RecFileFits(s, RecIsFmp4, units),
           s.end - s.start >= RecSegment, NEW clean \in BOOLEAN, RecPastFits(r.past, RecIsFmp4, units, clean),
           r.inst = "on"
    PROVE  /\ RecRotated(RecRotate(r, start, fail), r, start, RecIsFmp4, units, clean /\ fail = "none")
           /\ fail = "none" => RecRotate(r, start, fail).inst = "on"
<1> DEFINE now == clean /\ fail = "none"
           c == RecSegmentClose(s, fail)
           done == [c.seg EXCEPT !.rotated = TRUE]
           n == RecRotate(r, start, fail)
<1>1. units \in Nat /\ RecIsFmp4 \in BOOLEAN /\ now \in BOOLEAN /\ s.created \in 0..1 /\ ~s.rotated /\ s # RecNoSegment
      /\ s.start \in Nat /\ s.end \in Nat /\ r.past \in Seq(RecSegments) /\ s.fd # "shut"
  <2>1. units \in Nat
    OBVIOUS
  <2>2. RecIsFmp4 \in BOOLEAN /\ now \in BOOLEAN
    BY DEF RecIsFmp4
  <2>3. s # RecNoSegment /\ s.start \in Nat /\ s.end \in Nat /\ r.past \in Seq(RecSegments)
    BY RecSegmentFields, RecRecordFields
  <2>4. s.created \in 0..1 /\ ~s.rotated /\ s.fd # "shut"
    BY DEF RecQuiet
  <2> QED
    BY <2>1, <2>2, <2>3, <2>4
<1>2. /\ c.seg \in RecSegments /\ c.ok \in BOOLEAN
      /\ c.seg.start = s.start /\ c.seg.end = s.end /\ ~c.seg.rotated
      /\ RecFileFits(c.seg, RecIsFmp4, units)
      /\ RecPlaysOn(s) => RecPlaysOn(c.seg)
      /\ c.seg.created \in 0..1
      /\ fail = "none" => c.ok
      /\ c.ok => /\ c.seg.samples = RecGather(s)
                 /\ ~RecIsFmp4 => c.seg.part = RecNoPart
                 /\ c.seg.created = 0 => RecGather(s) = << >>
                 /\ c.seg.created >= 1 => c.seg.completed = 1
  <2> HIDE DEF c
  <2> QED
    BY <1>1, RecCloseIs DEF c
<1> HIDE DEF c, now
<1>3. CASE ~c.ok
  <2>1. n = RecFail([r EXCEPT !.seg = c.seg])
    BY <1>3 DEF RecRotate, c
  <2>2. /\ n \in RecRecord /\ RecSameRest(n, r) /\ n.seg = c.seg /\ n.past = r.past
        /\ n.inst = "failed" /\ n.failed
    BY <1>2, <2>1, RecSegChange
  <2> HIDE DEF n
  <2>3. ~now
    BY <1>2, <1>3 DEF now
  <2>4. RecSegFits(n.seg, RecIsFmp4, units, n.inst, now)
    BY <1>2, <2>2, <2>3 DEF RecSegFits
  <2>5. RecPastFits(n.past, RecIsFmp4, units, now)
    BY <2>2, <2>3 DEF RecPastFits
  <2>6. RecVideoPlays(r.past, s) => RecVideoPlays(n.past, n.seg)
    BY <1>1, <1>2, <2>2 DEF RecVideoPlays
  <2>7. n.inst # r.inst
    BY <2>2
  <2> QED
    BY <1>2, <1>3, <2>2, <2>4, <2>5, <2>6, <2>7 DEF RecRotated, n, now
<1>4. CASE c.ok
  <2> DEFINE new == RecNewSegment(start, << >>)
             past == IF done.created > 0 THEN Append(r.past, done) ELSE r.past
  <2>1. done \in RecSegments /\ done.samples = c.seg.samples /\ done.part = c.seg.part /\ done.fd = c.seg.fd
        /\ done.created = c.seg.created /\ done.completed = c.seg.completed /\ done.duration = c.seg.duration
        /\ done.start = c.seg.start /\ done.end = c.seg.end
    BY <1>2 DEF RecSegments
  <2> HIDE DEF done
  <2>2. RecFileFits(done, RecIsFmp4, units)
    BY <1>2, <2>1 DEF RecFileFits
  <2>3. (IF RecIsFmp4 THEN << >> ELSE done.part.samples) = << >>
    BY <1>2, <1>4, <2>1, RecPartIs
  <2>4. n = [r EXCEPT !.past = past, !.seg = new]
    BY <1>4, <2>3 DEF RecRotate, c, done
  <2>5. /\ new \in RecSegments /\ new.start = start /\ RecQuiet(new) /\ RecFileFits(new, RecIsFmp4, units)
        /\ RecGather(new) = << >> /\ new.created = 0 /\ ~new.rotated /\ RecPlaysOn(new) /\ new.fd = "none"
    BY <1>1, RecNewIs
  <2> HIDE DEF new
  <2>6. /\ past \in Seq(RecSegments) /\ RecPastFits(past, RecIsFmp4, units, now)
        /\ RecVideoPlays(r.past, s) => RecVideoPlays(past, new)
    <3>1. CASE done.created > 0
      <4>1. past = Append(r.past, done) /\ done.created >= 1 /\ done.completed = 1 /\ (now => clean)
        BY <1>2, <1>4, <2>1, <3>1 DEF now
      <4> HIDE DEF past
      <4>2. /\ past \in Seq(RecSegments) /\ RecPastFits(past, RecIsFmp4, units, now)
            /\ (\A i \in 1..Len(r.past) : RecPlays(r.past[i].samples)) /\ RecPlays(done.samples) =>
                 \A i \in 1..Len(past) : RecPlays(past[i].samples)
        BY <1>1, <2>1, <2>2, <4>1, RecPastGrows
      <4>3. RecPlaysOn(s) => RecPlays(done.samples)
        BY <1>2, <2>1 DEF RecPlaysOn
      <4> QED
        BY <1>1, <2>5, <4>2, <4>3 DEF RecVideoPlays
    <3>2. CASE ~(done.created > 0)
      <4>1. past = r.past /\ (now => clean)
        BY <3>2 DEF now
      <4> HIDE DEF past
      <4>2. RecPastFits(past, RecIsFmp4, units, now)
        BY <4>1 DEF RecPastFits
      <4> QED
        BY <1>1, <2>5, <4>1, <4>2 DEF RecVideoPlays
    <3> QED
      BY <3>1, <3>2
  <2> HIDE DEF past
  <2>7. n \in RecRecord /\ RecSameRest(n, r) /\ n.seg = new /\ n.past = past /\ n.inst = r.inst /\ n.failed = r.failed
    BY <2>4, <2>5, <2>6 DEF RecRecord, RecSameRest
  <2> HIDE DEF n
  <2>8. RecSegFits(n.seg, RecIsFmp4, units, n.inst, now)
    BY <2>5, <2>7 DEF RecSegFits
  <2>9. ASSUME NEW id
        PROVE  RecInSegment(n.seg, RecIsFmp4, id) + RecInPast(n.past, id)
               = RecInSegment(s, RecIsFmp4, id) + RecInPast(r.past, id)
    <3>1. RecInSegment(new, RecIsFmp4, id) = 0
      BY <1>1, <2>5, RecSegmentCount, RecCountEmpty
    <3>2. RecInSegment(s, RecIsFmp4, id) = RecCountIn(RecGather(s), id)
      BY <1>1, RecSegmentCount
    <3>3. RecGather(s) \in Seq(RecSamples)
      BY RecSegmentFields
    <3>4. RecCountIn(RecGather(s), id) \in Nat
      BY <3>3, RecCountIsFinite
    <3>5. RecRoom(done.samples, << >>, RecMaxUnits)
      <4>1. RecRoom(done.samples, << >>, units)
        BY <2>2 DEF RecFileFits
      <4>2. done.samples \in Seq(RecSamples) /\ << >> \in Seq(RecSamples) /\ units <= RecMaxUnits /\ units \in Nat
        <5>1. units <= RecMaxUnits /\ units \in Nat
          OBVIOUS
        <5> QED
          BY <2>1, <5>1, RecSegmentFields, RecPartIs
      <4> QED
        BY <4>1, <4>2, RecRoomShort, RecRoomOf
    <3>6. RecInPast(Append(r.past, done), id) = RecInPast(r.past, id) + RecCountIn(done.samples, id)
          /\ RecInPast(r.past, id) \in Nat
      BY <1>1, <2>1, <3>5, RecPastAppend
    <3>7. RecInPast(n.past, id) = RecInPast(r.past, id) + RecCountIn(RecGather(s), id)
      <4>1. CASE done.created > 0
        BY <1>2, <1>4, <2>1, <2>7, <3>6, <4>1 DEF past
      <4>2. CASE ~(done.created > 0)
        <5>1. done.created = 0 /\ RecGather(s) = << >>
          BY <1>2, <1>4, <2>1, <4>2
        <5>2. RecCountIn(RecGather(s), id) = 0
          BY <5>1, RecCountEmpty
        <5> QED
          BY <2>7, <3>6, <4>2, <5>2 DEF past
      <4> QED
        BY <4>1, <4>2
    <3> QED
      BY <2>7, <3>1, <3>2, <3>4, <3>6, <3>7
  <2>10. RecVideoPlays(r.past, s) => RecVideoPlays(n.past, n.seg)
    BY <2>6, <2>7
  <2>11. n.seg.start = start /\ RecGather(n.seg) = << >> /\ RecQuiet(n.seg)
    BY <2>5, <2>7
  <2> QED
    BY <2>5, <2>6, <2>7, <2>8, <2>9, <2>10, <2>11 DEF RecRotated, n, now
<1> QED
  BY <1>2, <1>3, <1>4

----------------------------------------------------------------------------
(* The samples held back.                                                  *)

\* What holds of the held samples holds as long as they and the phases that go with them stay.
LEMMA RecHeldStill ==
    ASSUME NEW r, NEW n, RecHeldFits(r), n.setup = r.setup, n.late = r.late, n.units = r.units,
           n.pending = r.pending, n.begun = r.begun, n.hasVideo = r.hasVideo, n.accepted = r.accepted,
           n.inst = "on" => ~n.failed, n.inst = "failed" => n.failed
    PROVE  RecHeldFits(n)
  BY Zenon DEF RecHeldFits

LEMMA RecPastStill ==
    ASSUME NEW past \in Seq(RecSegments), NEW u \in Nat, NEW v \in Nat, u <= v, NEW clean \in BOOLEAN,
           NEW now \in BOOLEAN, now => clean, RecPastFits(past, RecIsFmp4, u, clean)
    PROVE  RecPastFits(past, RecIsFmp4, v, now)
<1> SUFFICES ASSUME NEW i \in 1..Len(past)
             PROVE  RecFileFits(past[i], RecIsFmp4, v) /\ past[i].created >= 1 /\ (now => past[i].completed = 1)
  BY Zenon DEF RecPastFits
<1>1. past[i] \in RecSegments
  OBVIOUS
<1>2. RecFileFits(past[i], RecIsFmp4, u) /\ past[i].created >= 1 /\ (clean => past[i].completed = 1)
  BY Zenon DEF RecPastFits
<1> QED
  BY <1>1, <1>2, RecFileFitsStill

LEMMA RecSegStill ==
    ASSUME NEW s \in RecSegments \cup {RecNoSegment}, NEW u \in Nat, NEW v \in Nat, u <= v, NEW clean \in BOOLEAN,
           NEW now \in BOOLEAN, now => clean, NEW inst, RecSegFits(s, RecIsFmp4, u, inst, clean)
    PROVE  RecSegFits(s, RecIsFmp4, v, inst, now)
<1> SUFFICES ASSUME s # RecNoSegment
             PROVE  /\ inst # "done" /\ s.created \in 0..1 /\ ~s.rotated
                    /\ inst = "on" \/ now => RecQuiet(s)
                    /\ RecFileFits(s, RecIsFmp4, v)
  BY Zenon DEF RecSegFits
<1>1. /\ inst # "done" /\ s.created \in 0..1 /\ ~s.rotated
      /\ inst = "on" \/ clean => RecQuiet(s)
      /\ RecFileFits(s, RecIsFmp4, u)
  BY Zenon DEF RecSegFits
<1>2. s \in RecSegments
  OBVIOUS
<1> QED
  BY <1>1, <1>2, RecFileFitsStill

\* A failed operation asks for less.
LEMMA RecFitsLess ==
    ASSUME NEW r, NEW clean \in BOOLEAN, NEW now \in BOOLEAN, now => clean, RecFits(r, clean)
    PROVE  RecFits(r, now)
<1> DEFINE f == r.setup[1] = "fmp4"
<1>1. /\ RecHeldFits(r) /\ RecSegFits(r.seg, f, r.units, r.inst, clean) /\ RecPastFits(r.past, f, r.units, clean)
      /\ RecPlayable(r) => RecVideoPlays(r.past, r.seg) /\ RecVideoNext(r)
      /\ ~r.failed /\ clean => \A id \in r.accepted : RecOnce(r, f, id)
  BY DEF RecFits
<1> HIDE DEF f
<1>2. RecSegFits(r.seg, f, r.units, r.inst, now)
  BY <1>1 DEF RecSegFits
<1>3. RecPastFits(r.past, f, r.units, now)
  BY <1>1 DEF RecPastFits
<1>4. ~r.failed /\ now => \A id \in r.accepted : RecOnce(r, f, id)
  BY <1>1
<1> QED
  BY <1>1, <1>2, <1>3, <1>4 DEF RecFits, f

LEMMA RecPastCountIs ==
    ASSUME RecMaxUnits \in Nat, NEW r \in RecRecord, NEW id
    PROVE  IsFiniteSet(RecHits(r.past, id)) /\ RecInPast(r.past, id) \in Nat
<1>1. r.past \in Seq(RecSegments)
  BY RecRecordFields
<1>2. Len(r.past) \in Int /\ RecMaxUnits \in Int
  BY <1>1
<1>3. IsFiniteSet(1..Len(r.past)) /\ IsFiniteSet(1..RecMaxUnits)
  BY <1>2, FS_Interval
<1>4. IsFiniteSet((1..Len(r.past)) \X (1..RecMaxUnits))
  BY <1>3, FS_Product
<1>5. IsFiniteSet(RecHits(r.past, id))
  BY <1>4, FS_Subset DEF RecHits
<1> QED
  BY <1>5, FS_CardinalityType DEF RecInPast

\* The counts are numbers.
LEMMA RecCountsAre ==
    ASSUME NEW r \in RecRecord, RecMaxUnits \in Nat, NEW clean \in BOOLEAN, RecFits(r, clean), r.setup = rec.setup,
           NEW id \in Nat
    PROVE  /\ RecInHeld(r.pending, id) \in Nat /\ RecInLate(r.late, id) \in Nat
           /\ RecInSegment(r.seg, RecIsFmp4, id) \in Nat /\ RecInPast(r.past, id) \in Nat
           /\ id > r.units => /\ RecInHeld(r.pending, id) = 0 /\ RecInLate(r.late, id) = 0
                              /\ RecInSegment(r.seg, RecIsFmp4, id) = 0 /\ RecInPast(r.past, id) = 0
<1>1. /\ r.pending \in [RecTracks -> RecSamples \cup {RecNone}] /\ r.late \subseteq RecSamples
      /\ r.seg \in RecSegments \cup {RecNoSegment} /\ r.past \in Seq(RecSegments) /\ r.units \in 0..RecMaxUnits
  BY RecRecordFields
<1>10. r.units \in Nat /\ r.units <= RecMaxUnits
  BY <1>1
<1>2. RecHeldFits(r) /\ RecPastFits(r.past, RecIsFmp4, r.units, clean)
      /\ RecSegFits(r.seg, RecIsFmp4, r.units, r.inst, clean)
  BY DEF RecFits, RecIsFmp4
<1>3. RecInHeld(r.pending, id) \in Nat /\ (id > r.units => RecInHeld(r.pending, id) = 0)
  <2>1. \A b : RecOne(b) \in Nat
    BY DEF RecOne
  <2>2. RecInHeld(r.pending, id) = RecOne(r.pending["video"].id = id) + RecOne(r.pending["audio"].id = id)
    BY RecHeldIs
  <2>3. ASSUME id > r.units, NEW t \in RecTracks PROVE r.pending[t].id # id
    <3>1. CASE r.pending[t] = RecNone
      BY <1>10, <2>3, <3>1 DEF RecNone
    <3>2. CASE r.pending[t] # RecNone
      <4>1. r.pending[t] \in RecSamples /\ r.pending[t].id <= r.units
        BY <1>1, <1>2, <3>2 DEF RecHeldFits
      <4> QED
        BY <1>10, <2>3, <4>1 DEF RecSamples
    <3> QED
      BY <3>1, <3>2
  <2>4. "video" \in RecTracks /\ "audio" \in RecTracks
    BY DEF RecTracks
  <2>5. id > r.units => RecOne(r.pending["video"].id = id) = 0 /\ RecOne(r.pending["audio"].id = id) = 0
    BY <2>3, <2>4 DEF RecOne
  <2> QED
    BY <2>1, <2>2, <2>5
<1>4. RecInLate(r.late, id) \in Nat /\ (id > r.units => RecInLate(r.late, id) = 0)
  <2>1. IsFiniteSet({x \in r.late : x.id = id})
    BY <1>2, FS_Subset DEF RecHeldFits
  <2>2. ASSUME id > r.units PROVE {x \in r.late : x.id = id} = {}
    <3>1. \A x \in r.late : x.id \in Nat /\ x.id <= r.units
      BY <1>1, <1>2 DEF RecHeldFits, RecSamples
    <3> QED
      BY <1>10, <2>2, <3>1
  <2> QED
    BY <2>1, <2>2, FS_CardinalityType, FS_EmptySet DEF RecInLate
<1>5. RecInSegment(r.seg, RecIsFmp4, id) \in Nat /\ (id > r.units => RecInSegment(r.seg, RecIsFmp4, id) = 0)
  <2>1. CASE r.seg = RecNoSegment
    BY <2>1 DEF RecInSegment
  <2>2. CASE r.seg # RecNoSegment
    <3>1. r.seg.samples \in Seq(RecSamples) /\ r.seg.part.samples \in Seq(RecSamples)
      BY <1>1, <2>2, RecSegmentFields
    <3>2. RecIds(r.seg.samples, r.units) /\ RecIds(r.seg.part.samples, r.units)
      BY <1>2, <2>2 DEF RecSegFits, RecFileFits
    <3>3. RecCountIn(r.seg.samples, id) \in Nat /\ RecCountIn(r.seg.part.samples, id) \in Nat
      BY <3>1, RecCountIsFinite
    <3>4. id > r.units => RecCountIn(r.seg.samples, id) = 0 /\ RecCountIn(r.seg.part.samples, id) = 0
      BY <1>10, <3>1, <3>2, RecCountNone
    <3> QED
      BY <2>2, <3>3, <3>4 DEF RecInSegment
  <2> QED
    BY <2>1, <2>2
<1>6. RecInPast(r.past, id) \in Nat /\ (id > r.units => RecInPast(r.past, id) = 0)
  <2>1. IsFiniteSet(RecHits(r.past, id))
    BY RecPastCountIs
  <2>2. ASSUME id > r.units PROVE RecHits(r.past, id) = {}
    <3>1. ASSUME NEW i \in 1..Len(r.past), NEW j \in 1..RecMaxUnits, RecAt(r.past[i], j, id) PROVE FALSE
      <4>1. r.past[i] \in RecSegments /\ RecIds(r.past[i].samples, r.units)
        <5>1. r.past[i] \in RecSegments
          BY <1>1
        <5>2. RecFileFits(r.past[i], RecIsFmp4, r.units)
          BY <1>2, Zenon DEF RecPastFits
        <5> QED
          BY <5>1, <5>2 DEF RecFileFits
      <4>2. r.past[i].samples \in Seq(RecSamples)
        BY <4>1, RecSegmentFields
      <4> DEFINE q == r.past[i].samples
      <4>3. j \in 1..Len(q) /\ q[j].id = id
        <5>1. Len(q) \in Nat /\ j <= Len(q) /\ q[j].id = id
          BY <3>1, <4>2 DEF RecAt
        <5> QED
          BY <5>1
      <4> HIDE DEF q
      <4>4. q[j].id <= r.units
        BY <4>1, <4>3 DEF RecIds, q
      <4> QED
        BY <1>10, <2>2, <4>3, <4>4
    <3> QED
      BY <3>1 DEF RecHits
  <2> QED
    BY <2>1, <2>2, FS_CardinalityType, FS_EmptySet DEF RecInPast
<1> QED
  BY <1>3, <1>4, <1>5, <1>6

\* The start of the next segment: the oldest of the samples held that are near the newest.
LEMMA RecNextStartIs ==
    ASSUME NEW held \in [RecTracks -> RecSamples \cup {RecNone}], NEW v \in RecTracks, held[v] # RecNone
    PROVE  /\ RecNextStart(held) \in Nat
           /\ \A t, u \in RecTracks :
                held[t] # RecNone /\ held[u] # RecNone
                /\ (\A k \in RecTracks : held[k] # RecNone => held[k].dts <= held[u].dts)
                /\ held[u].dts - held[t].dts <= RecTolerance
                => RecNextStart(held) <= held[t].dts
<1> DEFINE H == RecHeld(held)
           D == {x.dts : x \in H}
           newest == CHOOSE d \in D : \A x \in H : x.dts <= d
           near == {x.dts : x \in {y \in H : newest - y.dts <= RecTolerance}}
<1>1. \A x : x \in H <=> \E t \in RecTracks : held[t] # RecNone /\ x = held[t]
  BY DEF RecHeld
<1>2. \A x \in H : x \in RecSamples /\ x.dts \in Nat
  BY <1>1 DEF RecSamples
<1>3. H \subseteq {held["video"], held["audio"]} /\ H # {}
  BY <1>1 DEF RecTracks
<1>4. \A a, b \in Nat : a <= b \/ b <= a
  OBVIOUS
<1>5. \E d \in D : \A x \in H : x.dts <= d
  <2>1. PICK m \in H : TRUE
    BY <1>3
  <2>2. CASE \A x \in H : x.dts <= m.dts
    BY <2>1, <2>2
  <2>3. CASE \E x \in H : ~(x.dts <= m.dts)
    <3>1. PICK z \in H : ~(z.dts <= m.dts)
      BY <2>3
    <3>2. m.dts <= z.dts /\ z.dts <= z.dts /\ \A x \in H : x = m \/ x = z
      BY <1>2, <1>3, <2>1, <3>1
    <3> QED
      BY <2>1, <3>1, <3>2
  <2> QED
    BY <2>2, <2>3
<1>6. newest \in D /\ \A x \in H : x.dts <= newest
  BY <1>5
<1>7. D \subseteq Nat
  BY <1>2
<1> HIDE DEF newest, H
<1>8. \E d \in near : \A e \in near : d <= e
  <2>1. PICK m \in H : m.dts = newest
    BY <1>6
  <2>2. newest - m.dts <= RecTolerance
    BY <1>6, <1>7, <2>1 DEF RecTolerance
  <2>3. m.dts \in near
    BY <2>1, <2>2
  <2>4. CASE \A e \in near : m.dts <= e
    BY <2>3, <2>4
  <2>5. CASE \E e \in near : ~(m.dts <= e)
    <3>1. PICK z \in H : newest - z.dts <= RecTolerance /\ ~(m.dts <= z.dts)
      BY <2>5
    <3>2. z.dts <= m.dts /\ z.dts <= z.dts /\ \A x \in H : x = m \/ x = z
      BY <1>2, <1>3, <2>1, <3>1
    <3>3. z.dts \in near /\ \A e \in near : z.dts <= e
      BY <3>1, <3>2
    <3> QED
      BY <3>3
  <2> QED
    BY <2>4, <2>5
<1>9. near \subseteq Nat
  BY <1>2
<1>10. RecNextStart(held) = CHOOSE d \in near : \A e \in near : d <= e
  BY DEF RecNextStart, newest, H
<1>11. RecNextStart(held) \in near /\ \A e \in near : RecNextStart(held) <= e
  BY <1>8, <1>10
<1>12. ASSUME NEW t \in RecTracks, NEW u \in RecTracks, held[t] # RecNone, held[u] # RecNone,
              \A k \in RecTracks : held[k] # RecNone => held[k].dts <= held[u].dts,
              held[u].dts - held[t].dts <= RecTolerance
       PROVE  RecNextStart(held) <= held[t].dts
  <2>1. held[t] \in H /\ held[u] \in H /\ \A x \in H : x.dts <= held[u].dts
    BY <1>1, <1>12
  <2>2. newest = held[u].dts
    <3>1. newest <= held[u].dts /\ held[u].dts <= newest /\ newest \in Nat /\ held[u].dts \in Nat
      BY <1>2, <1>6, <1>7, <2>1
    <3> QED
      BY <3>1
  <2>3. held[t].dts \in near
    BY <1>12, <2>1, <2>2
  <2> QED
    BY <1>11, <2>3
<1> QED
  BY <1>9, <1>11, <1>12

----------------------------------------------------------------------------
(* fMP4: a sample arrives.                                                 *)

\* The recorder that has accepted the sample x, which is in no place yet.
RecAccepts(a, t, x) ==
    /\ a \in RecRecord /\ x \in RecSamples /\ t \in RecTracks /\ x.id = rec.units + 1 /\ x.track = t
    /\ a.setup = rec.setup /\ a.past = rec.past /\ a.late = rec.late /\ a.units = rec.units + 1
    /\ a.pending = rec.pending /\ a.begun = rec.begun \cup {t} /\ a.hasVideo = rec.hasVideo /\ a.seg = rec.seg
    /\ a.inst = "on" /\ ~a.failed /\ a.accepted = rec.accepted \cup {x.id}
    /\ t = "video" /\ "video" \notin rec.begun /\ rec.setup # <<"mpegts", "mpeg">> => x.sync

\* What the invariant and the guards give before a sample is placed.
RecReady(clean) ==
    /\ RecMaxUnits \in Nat /\ rec \in RecRecord /\ clean \in BOOLEAN /\ RecFits(rec, clean) /\ rec.inst = "on"

\* The record k holds the sample next back on track t, and is like a otherwise.
RecHoldsBack(k, a, t, next) ==
    /\ k \in RecRecord /\ k.setup = a.setup /\ k.past = a.past /\ k.late = a.late /\ k.units = a.units
    /\ k.begun = a.begun /\ k.seg = a.seg /\ k.inst = a.inst /\ k.failed = a.failed /\ k.accepted = a.accepted
    /\ k.pending = [a.pending EXCEPT ![t] = next] /\ k.hasVideo = (a.hasVideo \/ t = "video")

LEMMA RecKeptIs ==
    ASSUME NEW a \in RecRecord, NEW t \in RecTracks, NEW next \in RecSamples
    PROVE  RecHoldsBack([a EXCEPT !.hasVideo = @ \/ t = "video", !.pending[t] = next], a, t, next)
<1> DEFINE h == a.hasVideo \/ t = "video"
           p == [a.pending EXCEPT ![t] = next]
           k == [a EXCEPT !.hasVideo = @ \/ t = "video", !.pending[t] = next]
<1>1. k = [a EXCEPT !.hasVideo = h, !.pending = p]
  BY DEF RecRecord
<1>2. h \in BOOLEAN /\ p \in [RecTracks -> RecSamples \cup {RecNone}]
  BY RecRecordFields
<1> HIDE DEF h, p, k
<1>3. /\ k \in RecRecord /\ k.setup = a.setup /\ k.past = a.past /\ k.late = a.late /\ k.units = a.units
      /\ k.begun = a.begun /\ k.seg = a.seg /\ k.inst = a.inst /\ k.failed = a.failed /\ k.accepted = a.accepted
      /\ k.pending = p /\ k.hasVideo = h
  BY <1>1, <1>2 DEF RecRecord
<1> QED
  BY <1>3 DEF RecHoldsBack, k, h, p

\* A sample of RecSamples is not the absent one.
LEMMA RecSampleIs == \A x \in RecSamples : x # RecNone /\ x.id \in Nat /\ x.id # 0 /\ x.dts \in Nat /\ x.duration \in Nat
<1> SUFFICES ASSUME NEW x \in RecSamples PROVE x # RecNone /\ x.id \in Nat /\ x.id # 0 /\ x.dts \in Nat /\ x.duration \in Nat
  OBVIOUS
<1>1. x.id \in Nat /\ x.id # 0 /\ x.dts \in Nat /\ x.duration \in Nat
  BY DEF RecSamples
<1> QED
  BY <1>1 DEF RecNone

\* What a sample held back changes.
LEMMA RecKeptFits ==
    ASSUME NEW clean \in BOOLEAN, RecReady(clean), NEW t \in RecTracks, NEW a \in RecRecord,
           NEW x \in RecSamples, RecAccepts(a, t, x), rec.setup[1] = "fmp4",
           NEW next \in RecSamples, next.id = x.id, next.track = t, NEW k \in RecRecord, RecHoldsBack(k, a, t, next)
    PROVE  /\ RecHeldFits(k)
           /\ k.units \in Nat /\ k.units = rec.units + 1 /\ k.units <= RecMaxUnits /\ rec.units \in Nat
           /\ RecSegFits(k.seg, RecIsFmp4, k.units, "on", clean)
           /\ RecPastFits(k.past, RecIsFmp4, k.units, clean)
           /\ \A id : RecInHeld(k.pending, id) + RecOne(rec.pending[t].id = id)
                      = RecInHeld(rec.pending, id) + RecOne(x.id = id)
           /\ k.pending[t] = next /\ \A u \in RecTracks : u # t => k.pending[u] = rec.pending[u]
<1>1. /\ rec.pending \in [RecTracks -> RecSamples \cup {RecNone}] /\ rec.begun \subseteq RecTracks
      /\ rec.past \in Seq(RecSegments) /\ rec.seg \in RecSegments \cup {RecNoSegment}
      /\ rec.units \in 0..RecMaxUnits /\ k.units \in 0..RecMaxUnits
  BY RecRecordFields DEF RecReady, RecHoldsBack
<1>2. /\ k.setup = rec.setup /\ k.past = rec.past /\ k.late = rec.late /\ k.units = rec.units + 1
      /\ k.begun = rec.begun \cup {t} /\ k.seg = rec.seg /\ k.inst = "on" /\ ~k.failed
      /\ k.accepted = rec.accepted \cup {x.id} /\ t \in RecTracks
      /\ k.pending = [rec.pending EXCEPT ![t] = next] /\ k.hasVideo = (rec.hasVideo \/ t = "video")
      /\ x.id = rec.units + 1
  BY DEF RecHoldsBack, RecAccepts
<1>3. /\ RecHeldFits(rec) /\ RecSegFits(rec.seg, RecIsFmp4, rec.units, "on", clean)
      /\ RecPastFits(rec.past, RecIsFmp4, rec.units, clean) /\ clean \in BOOLEAN /\ RecMaxUnits \in Nat
  BY DEF RecReady, RecFits, RecIsFmp4
<1>4. k.units \in Nat /\ rec.units \in Nat /\ rec.units <= k.units /\ k.units <= RecMaxUnits
  BY <1>1, <1>2, <1>3
<1>5. k.pending[t] = next /\ \A u \in RecTracks : u # t => k.pending[u] = rec.pending[u]
  BY <1>1, <1>2
<1>6. next # RecNone /\ next.id = k.units
  BY <1>2, RecSampleIs
<1>7. RecHeldFits(k)
  <2>1. ASSUME NEW u \in RecTracks, k.pending[u] # RecNone
        PROVE  k.pending[u].track = u /\ k.pending[u].id <= k.units
    <3>1. CASE u = t
      BY <1>4, <1>5, <1>6, <3>1
    <3>2. CASE u # t
      <4>1. k.pending[u] = rec.pending[u] /\ rec.pending[u].track = u /\ rec.pending[u].id <= rec.units
        BY <1>3, <1>5, <2>1, <3>2 DEF RecHeldFits
      <4>2. rec.pending[u] \in RecSamples
        BY <1>1, <2>1, <4>1
      <4>3. rec.pending[u].id \in Nat
        BY <4>2, RecSampleIs
      <4> QED
        BY <1>4, <4>1, <4>3
    <3> QED
      BY <3>1, <3>2
  <2>2. k.setup[1] = "fmp4"
    BY <1>2 DEF RecIsFmp4
  <2>3. \A u \in RecTracks : u \in k.begun <=> k.pending[u] # RecNone
    <3>1. \A u \in RecTracks : u \in rec.begun <=> rec.pending[u] # RecNone
      BY <1>3 DEF RecHeldFits, RecIsFmp4
    <3> QED
      BY <1>2, <1>5, <1>6, <3>1
  <2>4. IsFiniteSet(k.late) /\ \A y \in k.late : y.id <= k.units
    <3>1. \A y \in rec.late : y.id \in Nat
      BY RecSampleIs, RecRecordFields DEF RecReady
    <3> QED
      BY <1>2, <1>3, <1>4, <3>1 DEF RecHeldFits
  <2>5. k.accepted \subseteq 1..k.units
    BY <1>2, <1>3, <1>4 DEF RecHeldFits
  <2>6. k.hasVideo <=> "video" \in k.begun
    BY <1>2, <1>3 DEF RecHeldFits
  <2> QED
    BY <1>2, <2>1, <2>2, <2>3, <2>4, <2>5, <2>6 DEF RecHeldFits
<1>8. RecSegFits(k.seg, RecIsFmp4, k.units, "on", clean)
  <2>2. rec.seg \in RecSegments \cup {RecNoSegment} /\ RecSegFits(rec.seg, RecIsFmp4, rec.units, "on", clean)
    BY <1>1, <1>3
  <2>1. RecSegFits(rec.seg, RecIsFmp4, k.units, "on", clean)
    BY <1>4, <2>2, RecSegStill
  <2> QED
    BY <1>2, <2>1
<1>9. RecPastFits(k.past, RecIsFmp4, k.units, clean)
  <2>1. RecPastFits(rec.past, RecIsFmp4, k.units, clean)
    BY <1>1, <1>3, <1>4, RecPastStill
  <2> QED
    BY <1>2, <2>1
<1>10. \A id : RecInHeld(k.pending, id) + RecOne(rec.pending[t].id = id)
               = RecInHeld(rec.pending, id) + RecOne(x.id = id)
  BY <1>1, <1>2, RecHeldChange
<1> QED
  BY <1>2, <1>4, <1>5, <1>7, <1>8, <1>9, <1>10

\* The first sample of a track is only held back.
LEMMA RecFirstFits ==
    ASSUME NEW clean \in BOOLEAN, RecReady(clean), NEW t \in RecTracks, NEW a \in RecRecord,
           NEW x \in RecSamples, RecAccepts(a, t, x), rec.setup[1] = "fmp4",
           NEW next \in RecSamples, next.id = x.id, next.track = t, next.sync = x.sync,
           NEW k \in RecRecord, RecHoldsBack(k, a, t, next), rec.pending[t] = RecNone
    PROVE  RecFits(k, clean)
<1>1. /\ RecHeldFits(k)
      /\ k.units \in Nat /\ k.units = rec.units + 1 /\ k.units <= RecMaxUnits /\ rec.units \in Nat
      /\ RecSegFits(k.seg, RecIsFmp4, k.units, "on", clean)
      /\ RecPastFits(k.past, RecIsFmp4, k.units, clean)
      /\ \A id : RecInHeld(k.pending, id) + RecOne(rec.pending[t].id = id)
                 = RecInHeld(rec.pending, id) + RecOne(x.id = id)
      /\ k.pending[t] = next /\ \A u \in RecTracks : u # t => k.pending[u] = rec.pending[u]
  BY RecKeptFits
<1>2. /\ k.setup = rec.setup /\ k.past = rec.past /\ k.late = rec.late /\ k.seg = rec.seg /\ k.inst = "on" /\ ~k.failed
      /\ k.accepted = rec.accepted \cup {x.id} /\ t \in RecTracks /\ x.id = rec.units + 1
      /\ (k.setup[1] = "fmp4") = RecIsFmp4 /\ k.setup[1] = "fmp4"
  BY DEF RecHoldsBack, RecAccepts, RecIsFmp4
<1>3. RecPlayable(k) => RecVideoPlays(k.past, k.seg) /\ RecVideoNext(k)
  <2> SUFFICES ASSUME RecPlayable(k) PROVE RecVideoPlays(k.past, k.seg) /\ RecVideoNext(k)
    OBVIOUS
  <2>1. RecPlayable(rec)
    BY <1>2 DEF RecPlayable
  <2>2. RecVideoPlays(rec.past, rec.seg) /\ RecVideoNext(rec)
    BY <2>1 DEF RecReady, RecFits
  <2>3. RecNoVideoIn(k.seg) /\ k.pending["video"] # RecNone => k.pending["video"].sync
    <3>1. CASE t = "video"
      <4>1. "video" \notin rec.begun
        BY <1>2, <3>1 DEF RecReady, RecFits, RecHeldFits, RecIsFmp4
      <4>2. x.sync
        BY <2>1, <3>1, <4>1 DEF RecAccepts, RecPlayable
      <4> QED
        BY <1>1, <3>1, <4>2
    <3>2. CASE t # "video"
      <4>1. k.pending["video"] = rec.pending["video"]
        BY <1>1, <3>2 DEF RecTracks
      <4> QED
        BY <1>2, <2>2, <4>1 DEF RecVideoNext, RecReady
    <3> QED
      BY <3>1, <3>2
  <2> QED
    BY <1>2, <2>2, <2>3 DEF RecVideoNext
<1>4. ~k.failed /\ clean => \A id \in k.accepted : RecOnce(k, RecIsFmp4, id)
  <2> SUFFICES ASSUME clean, NEW id \in k.accepted PROVE RecOnce(k, RecIsFmp4, id)
    OBVIOUS
  <2>1. id \in Nat /\ id # 0 /\ RecOne(rec.pending[t].id = id) = 0
    <3>1. id \in 1..k.units
      BY <1>1 DEF RecHeldFits
    <3>2. id \in Nat /\ id # 0
      BY <1>1, <3>1
    <3> QED
      BY <3>2 DEF RecNone, RecOne
  <2>2. /\ RecInHeld(rec.pending, id) \in Nat /\ RecInLate(rec.late, id) \in Nat
        /\ RecInSegment(rec.seg, RecIsFmp4, id) \in Nat /\ RecInPast(rec.past, id) \in Nat
        /\ id > rec.units => /\ RecInHeld(rec.pending, id) = 0 /\ RecInLate(rec.late, id) = 0
                             /\ RecInSegment(rec.seg, RecIsFmp4, id) = 0 /\ RecInPast(rec.past, id) = 0
    BY <2>1, RecCountsAre DEF RecReady
  <2>3. CASE id = x.id
    <3>1. RecOne(x.id = id) = 1
      BY <2>3 DEF RecOne
    <3>2. id > rec.units
      BY <1>1, <1>2, <2>3
    <3>3. RecInHeld(k.pending, id) \in Nat
      BY RecHeldIs DEF RecOne
    <3>4. RecInHeld(k.pending, id) + 0 = 0 + 1
      <4>1. RecInHeld(k.pending, id) + RecOne(rec.pending[t].id = id) = RecInHeld(rec.pending, id) + RecOne(x.id = id)
        BY <1>1
      <4> QED
        BY <2>1, <2>2, <3>1, <3>2, <4>1
    <3>5. RecInHeld(k.pending, id) = 1
      BY <3>3, <3>4
    <3>6. /\ RecInLate(k.late, id) = 0 /\ RecInSegment(k.seg, RecIsFmp4, id) = 0 /\ RecInPast(k.past, id) = 0
      BY <1>2, <2>2, <3>2
    <3>7. 1 + 0 + 0 + 0 = 1
      OBVIOUS
    <3> QED
      BY <3>5, <3>6, <3>7, Zenon DEF RecOnce, RecPlacesIn
  <2>4. CASE id # x.id
    <3>1. RecOne(x.id = id) = 0 /\ id \in rec.accepted
      BY <1>2, <2>4 DEF RecOne
    <3>2. RecOnce(rec, RecIsFmp4, id)
      <4>1. ~rec.failed
        BY DEF RecReady, RecFits, RecHeldFits
      <4> QED
        BY <3>1, <4>1 DEF RecReady, RecFits, RecIsFmp4
    <3>3. RecInHeld(k.pending, id) \in Nat
      BY RecHeldIs DEF RecOne
    <3>4. RecInHeld(k.pending, id) = RecInHeld(rec.pending, id)
      <4>1. RecInHeld(k.pending, id) + 0 = RecInHeld(rec.pending, id) + 0
        BY <1>1, <2>1, <3>1
      <4> QED
        BY <2>2, <3>3, <4>1
    <3> QED
      BY <1>2, <3>2, <3>4 DEF RecOnce, RecPlacesIn
  <2> QED
    BY <2>3, <2>4
<1> QED
  BY <1>1, <1>2, <1>3, <1>4 DEF RecFits

\* A late sample is dropped; it is nowhere else.
LEMMA RecLateFits ==
    ASSUME NEW clean \in BOOLEAN, RecReady(clean), NEW t \in RecTracks, NEW a \in RecRecord, NEW x \in RecSamples,
           RecAccepts(a, t, x), rec.setup[1] = "fmp4",
           NEW next \in RecSamples, next.id = x.id, next.track = t, NEW k \in RecRecord, RecHoldsBack(k, a, t, next),
           NEW held \in RecSamples, rec.pending[t] = held
    PROVE  LET n == [k EXCEPT !.late = @ \cup {held}]
           IN  n \in RecRecord /\ RecFits(n, clean) /\ n.setup = rec.setup /\ n.seg = rec.seg /\ n.inst = "on"
<1> DEFINE n == [k EXCEPT !.late = @ \cup {held}]
<1>1. /\ RecHeldFits(k)
      /\ k.units \in Nat /\ k.units = rec.units + 1 /\ k.units <= RecMaxUnits /\ rec.units \in Nat
      /\ RecSegFits(k.seg, RecIsFmp4, k.units, "on", clean)
      /\ RecPastFits(k.past, RecIsFmp4, k.units, clean)
      /\ \A id : RecInHeld(k.pending, id) + RecOne(rec.pending[t].id = id)
                 = RecInHeld(rec.pending, id) + RecOne(x.id = id)
      /\ k.pending[t] = next /\ \A u \in RecTracks : u # t => k.pending[u] = rec.pending[u]
  BY RecKeptFits
<1>2. /\ k.setup = rec.setup /\ k.past = rec.past /\ k.late = rec.late /\ k.seg = rec.seg /\ k.inst = "on" /\ ~k.failed
      /\ k.accepted = rec.accepted \cup {x.id} /\ t \in RecTracks /\ x.id = rec.units + 1
      /\ (k.setup[1] = "fmp4") = RecIsFmp4 /\ k.setup[1] = "fmp4"
  BY DEF RecHoldsBack, RecAccepts, RecIsFmp4
<1>3. /\ n \in RecRecord /\ n.late = k.late \cup {held} /\ n.setup = k.setup /\ n.past = k.past /\ n.seg = k.seg
      /\ n.inst = k.inst /\ n.failed = k.failed /\ n.accepted = k.accepted /\ n.units = k.units
      /\ n.pending = k.pending /\ n.begun = k.begun /\ n.hasVideo = k.hasVideo
  BY DEF RecRecord
<1> HIDE DEF n
<1>4. held.id \in Nat /\ held.id <= rec.units /\ held # RecNone /\ held.track = t
  BY RecSampleIs DEF RecReady, RecFits, RecHeldFits
<1>5. RecHeldFits(n)
  <2>1. IsFiniteSet(k.late) /\ \A y \in k.late : y.id <= k.units
    BY <1>1 DEF RecHeldFits
  <2>2. held.id <= k.units
    BY <1>1, <1>4
  <2>3. IsFiniteSet(n.late) /\ \A y \in n.late : y.id <= n.units
    BY <1>3, <2>1, <2>2, FS_AddElement
  <2> QED
    <3>1. n.setup[1] = "fmp4" /\ RecHeldFits(k) /\ k.setup[1] = "fmp4"
      BY <1>1, <1>2, <1>3
    <3> QED
      BY <1>3, <2>3, <3>1 DEF RecHeldFits
<1>6. RecPlayable(n) => RecVideoPlays(n.past, n.seg) /\ RecVideoNext(n)
  <2> SUFFICES ASSUME RecPlayable(n) PROVE RecVideoPlays(n.past, n.seg) /\ RecVideoNext(n)
    OBVIOUS
  <2>1. RecPlayable(rec) /\ t # "video"
    BY <1>2, <1>3, <1>4 DEF RecPlayable
  <2>2. RecVideoPlays(rec.past, rec.seg) /\ RecVideoNext(rec)
    BY <2>1 DEF RecReady, RecFits
  <2>3. k.pending["video"] = rec.pending["video"]
    BY <1>1, <2>1 DEF RecTracks
  <2> QED
    BY <1>2, <1>3, <2>2, <2>3 DEF RecVideoNext, RecReady
<1>7. ~n.failed /\ clean => \A id \in n.accepted : RecOnce(n, RecIsFmp4, id)
  <2> SUFFICES ASSUME clean, NEW id \in n.accepted PROVE RecOnce(n, RecIsFmp4, id)
    OBVIOUS
  <2>1. id \in Nat /\ id # 0
    <3>1. id \in 1..k.units
      BY <1>1, <1>3 DEF RecHeldFits
    <3> QED
      BY <1>1, <3>1
  <2>2. /\ RecInHeld(rec.pending, id) \in Nat /\ RecInLate(rec.late, id) \in Nat
        /\ RecInSegment(rec.seg, RecIsFmp4, id) \in Nat /\ RecInPast(rec.past, id) \in Nat
        /\ id > rec.units => /\ RecInHeld(rec.pending, id) = 0 /\ RecInLate(rec.late, id) = 0
                             /\ RecInSegment(rec.seg, RecIsFmp4, id) = 0 /\ RecInPast(rec.past, id) = 0
    BY <2>1, RecCountsAre DEF RecReady
  <2>3. RecInHeld(k.pending, id) + RecOne(held.id = id) = RecInHeld(rec.pending, id) + RecOne(x.id = id)
    BY <1>1
  <2>4. RecInHeld(k.pending, id) \in Nat
    BY RecHeldIs DEF RecOne
  <2>5. CASE id = x.id
    <3>1. RecOne(x.id = id) = 1 /\ RecOne(held.id = id) = 0 /\ id > rec.units
      BY <1>1, <1>2, <1>4, <2>5 DEF RecOne
    <3>2. RecInHeld(k.pending, id) = 1
      <4>1. RecInHeld(k.pending, id) + 0 = 0 + 1
        BY <2>2, <2>3, <3>1
      <4> QED
        BY <2>4, <4>1
    <3>3. {y \in n.late : y.id = id} = {y \in rec.late : y.id = id}
      BY <1>1, <1>2, <1>3, <1>4, <2>5
    <3>4. RecInLate(n.late, id) = 0 /\ RecInSegment(n.seg, RecIsFmp4, id) = 0 /\ RecInPast(n.past, id) = 0
      BY <1>2, <1>3, <2>2, <3>1, <3>3 DEF RecInLate
    <3>5. 1 + 0 + 0 + 0 = 1 /\ RecInHeld(n.pending, id) = 1
      BY <1>3, <3>2
    <3> QED
      BY <3>4, <3>5, Zenon DEF RecOnce, RecPlacesIn
  <2>6. CASE id # x.id
    <3>1. RecOne(x.id = id) = 0 /\ id \in rec.accepted
      BY <1>2, <1>3, <2>6 DEF RecOne
    <3>2. RecOnce(rec, RecIsFmp4, id)
      <4>1. ~rec.failed
        BY DEF RecReady, RecFits, RecHeldFits
      <4> QED
        BY <3>1, <4>1 DEF RecReady, RecFits, RecIsFmp4
    <3>3. RecInHeld(rec.pending, id) + RecInLate(rec.late, id) + RecInSegment(rec.seg, RecIsFmp4, id)
            + RecInPast(rec.past, id) = 1
      BY <3>2 DEF RecOnce, RecPlacesIn
    <3>4. RecInHeld(k.pending, id) + RecInLate(n.late, id) = RecInHeld(rec.pending, id) + RecInLate(rec.late, id)
      <4>1. CASE held.id = id
        <5>1. RecInHeld(k.pending, id) + 1 = RecInHeld(rec.pending, id)
          <6>1. RecOne(held.id = id) = 1
            BY <4>1 DEF RecOne
          <6>2. RecInHeld(k.pending, id) + 1 = RecInHeld(rec.pending, id) + 0
            BY <2>3, <3>1, <6>1
          <6> QED
            BY <2>2, <2>4, <6>2
        <5>2. RecInLate(rec.late, id) = 0
          BY <2>2, <2>4, <3>3, <5>1
        <5>3. {y \in rec.late : y.id = id} = {}
          <6>1. IsFiniteSet({y \in rec.late : y.id = id})
            BY FS_Subset DEF RecReady, RecFits, RecHeldFits
          <6> QED
            BY <5>2, <6>1, FS_EmptySet DEF RecInLate
        <5>4. {y \in n.late : y.id = id} = {held}
          BY <1>2, <1>3, <4>1, <5>3
        <5>5. RecInLate(n.late, id) = 1
          BY <5>4, FS_Singleton DEF RecInLate
        <5> QED
          BY <2>4, <5>1, <5>2, <5>5
      <4>2. CASE held.id # id
        <5>1. {y \in n.late : y.id = id} = {y \in rec.late : y.id = id}
          BY <1>2, <1>3, <4>2
        <5>2. RecInLate(n.late, id) = RecInLate(rec.late, id)
          BY <5>1 DEF RecInLate
        <5>3. RecInHeld(k.pending, id) = RecInHeld(rec.pending, id)
          <6>1. RecOne(held.id = id) = 0
            BY <4>2 DEF RecOne
          <6>2. RecInHeld(k.pending, id) + 0 = RecInHeld(rec.pending, id) + 0
            BY <2>3, <3>1, <6>1
          <6> QED
            BY <2>2, <2>4, <6>2
        <5> QED
          BY <5>2, <5>3
      <4> QED
        BY <4>1, <4>2
    <3>5. RecInHeld(n.pending, id) + RecInLate(n.late, id) + RecInSegment(n.seg, RecIsFmp4, id)
            + RecInPast(n.past, id) = 1
      BY <1>2, <1>3, <3>3, <3>4
    <3> QED
      BY <3>5 DEF RecOnce, RecPlacesIn
  <2> QED
    BY <2>5, <2>6
<1>8. RecSegFits(n.seg, RecIsFmp4, n.units, n.inst, clean) /\ RecPastFits(n.past, RecIsFmp4, n.units, clean)
  BY <1>1, <1>2, <1>3
<1>9. RecFits(n, clean)
  BY <1>2, <1>3, <1>5, <1>6, <1>7, <1>8 DEF RecFits
<1> QED
  BY <1>2, <1>3, <1>9 DEF n

\* A sample that goes to the segment o, which goes on or begins with it.
RecGoesTo(o, x1) ==
    /\ o \in RecSegments /\ x1.dts >= o.start
    /\ (rec.seg = RecNoSegment /\ o = RecNewSegment(x1.dts, << >>)) \/ (rec.seg # RecNoSegment /\ o = rec.seg)

\* The segment before a sample is written to it.
LEMMA RecTargetIs ==
    ASSUME NEW clean \in BOOLEAN, RecReady(clean), NEW x1 \in RecSamples, NEW o \in RecSegments, RecGoesTo(o, x1)
    PROVE  /\ RecQuiet(o) /\ RecFileFits(o, RecIsFmp4, rec.units) /\ o.fd # "shut"
           /\ RecVideoPlays(rec.past, rec.seg) => RecPlaysOn(o)
           /\ RecNoVideoIn(rec.seg) <=> RecNoVideo(RecGather(o))
           /\ \A id : RecInSegment(rec.seg, RecIsFmp4, id) = RecCountIn(RecGather(o), id)
<1>1. rec.units \in Nat /\ RecIsFmp4 \in BOOLEAN /\ x1.dts \in Nat
  <2>1. rec.units \in 0..RecMaxUnits
    BY RecRecordFields DEF RecReady
  <2> QED
    BY <2>1, RecSampleIs DEF RecIsFmp4
<1>2. CASE rec.seg = RecNoSegment /\ o = RecNewSegment(x1.dts, << >>)
  <2>1. RecQuiet(o) /\ RecFileFits(o, RecIsFmp4, rec.units) /\ RecPlaysOn(o) /\ RecGather(o) = << >> /\ o.fd = "none"
    BY <1>1, <1>2, RecNewIs
  <2>2. RecNoVideoIn(rec.seg) /\ RecNoVideo(<< >>)
    BY <1>2 DEF RecNoVideoIn, RecNoVideo
  <2>3. \A id : RecInSegment(rec.seg, RecIsFmp4, id) = 0
    BY <1>2 DEF RecInSegment
  <2> QED
    BY <2>1, <2>2, <2>3, RecCountEmpty
<1>3. CASE rec.seg # RecNoSegment /\ o = rec.seg
  <2>1. RecQuiet(o) /\ RecFileFits(o, RecIsFmp4, rec.units)
    BY <1>3 DEF RecReady, RecFits, RecSegFits, RecIsFmp4
  <2>2. o.fd # "shut"
    BY <2>1 DEF RecQuiet
  <2>3. \A id : RecInSegment(o, RecIsFmp4, id) = RecCountIn(RecGather(o), id)
    BY <1>1, <2>2, RecSegmentCount
  <2> QED
    BY <1>3, <2>1, <2>2, <2>3 DEF RecVideoPlays, RecNoVideoIn
<1> QED
  BY <1>2, <1>3 DEF RecGoesTo

\* The held sample as it is written.
RecWrites(x1, held) ==
    /\ x1 \in RecSamples /\ x1.id = held.id /\ x1.track = held.track /\ x1.dts = held.dts /\ x1.sync = held.sync

\* A write that failed ends the instance.
LEMMA RecWriteFails ==
    ASSUME NEW clean \in BOOLEAN, RecReady(clean), NEW t \in RecTracks, NEW a \in RecRecord, NEW x \in RecSamples,
           RecAccepts(a, t, x), rec.setup[1] = "fmp4",
           NEW next \in RecSamples, next.id = x.id, next.track = t, NEW k \in RecRecord, RecHoldsBack(k, a, t, next),
           NEW o \in RecSegments, NEW x1 \in RecSamples, RecGoesTo(o, x1),
           NEW s \in RecSegments, s.created \in 0..1, ~s.rotated, RecFileFits(s, RecIsFmp4, k.units),
           RecPlaysOn(o) => RecPlaysOn(s), NEW now \in BOOLEAN, ~now
    PROVE  LET n == RecFail([k EXCEPT !.seg = s])
           IN  n \in RecRecord /\ RecFits(n, now) /\ n.setup = rec.setup /\ n.inst = "failed" /\ n.seg = s
<1> DEFINE n == RecFail([k EXCEPT !.seg = s])
<1>1. /\ RecHeldFits(k) /\ k.units \in Nat /\ RecPastFits(k.past, RecIsFmp4, k.units, clean)
  BY RecKeptFits
<1>2. /\ k.setup = rec.setup /\ k.past = rec.past /\ k.late = rec.late
      /\ (k.setup[1] = "fmp4") = RecIsFmp4
  BY DEF RecHoldsBack, RecAccepts, RecIsFmp4
<1>3. /\ n \in RecRecord /\ RecSameRest(n, k) /\ n.seg = s /\ n.past = k.past
      /\ n.inst = "failed" /\ n.failed
  BY RecSegChange
<1> HIDE DEF n
<1>4. n.setup = k.setup /\ n.late = k.late /\ n.units = k.units
      /\ n.pending = k.pending /\ n.begun = k.begun /\ n.hasVideo = k.hasVideo /\ n.accepted = k.accepted
  BY <1>3 DEF RecSameRest
<1>5. RecHeldFits(n)
  BY <1>1, <1>3, <1>4, RecHeldStill
<1>6. RecSegFits(n.seg, RecIsFmp4, n.units, n.inst, now)
  BY <1>3, <1>4 DEF RecSegFits
<1>7. RecPastFits(n.past, RecIsFmp4, n.units, now)
  BY <1>1, <1>3, <1>4 DEF RecPastFits
<1>8. RecPlayable(n) => RecVideoPlays(n.past, n.seg) /\ RecVideoNext(n)
  <2> SUFFICES ASSUME RecPlayable(n) PROVE RecVideoPlays(n.past, n.seg) /\ RecVideoNext(n)
    OBVIOUS
  <2>1. RecPlayable(rec)
    BY <1>2, <1>4 DEF RecPlayable
  <2>2. RecVideoPlays(rec.past, rec.seg)
    BY <2>1 DEF RecReady, RecFits
  <2>3. RecPlaysOn(o)
    BY <2>2, RecTargetIs
  <2>4. RecVideoPlays(n.past, n.seg)
    BY <1>2, <1>3, <2>2, <2>3 DEF RecVideoPlays
  <2> QED
    BY <1>3, <2>4 DEF RecVideoNext
<1> QED
  BY <1>2, <1>3, <1>4, <1>5, <1>6, <1>7, <1>8 DEF RecFits, n

\* A sample that was written is in the segment.
LEMMA RecWriteFits ==
    ASSUME NEW clean \in BOOLEAN, RecReady(clean), NEW t \in RecTracks, NEW a \in RecRecord, NEW x \in RecSamples,
           RecAccepts(a, t, x), rec.setup[1] = "fmp4",
           NEW next \in RecSamples, next.id = x.id, next.track = t, NEW k \in RecRecord, RecHoldsBack(k, a, t, next),
           NEW held \in RecSamples, rec.pending[t] = held, NEW x1 \in RecSamples, RecWrites(x1, held),
           NEW o \in RecSegments, RecGoesTo(o, x1),
           NEW s \in RecSegments, s.created \in 0..1, ~s.rotated, RecFileFits(s, RecIsFmp4, k.units),
           RecQuiet(s), RecGather(s) = Append(RecGather(o), x1)
    PROVE  LET n == [k EXCEPT !.seg = s]
           IN  n \in RecRecord /\ RecFits(n, clean) /\ RecSameRest(n, k) /\ n.inst = "on" /\ n.seg = s
<1> DEFINE n == [k EXCEPT !.seg = s]
<1>1. /\ RecHeldFits(k)
      /\ k.units \in Nat /\ k.units = rec.units + 1 /\ k.units <= RecMaxUnits /\ rec.units \in Nat
      /\ RecPastFits(k.past, RecIsFmp4, k.units, clean)
      /\ \A id : RecInHeld(k.pending, id) + RecOne(rec.pending[t].id = id)
                 = RecInHeld(rec.pending, id) + RecOne(x.id = id)
      /\ k.pending[t] = next /\ \A u \in RecTracks : u # t => k.pending[u] = rec.pending[u]
  BY RecKeptFits
<1>2. /\ k.setup = rec.setup /\ k.past = rec.past /\ k.late = rec.late /\ k.inst = "on" /\ ~k.failed
      /\ k.accepted = rec.accepted \cup {x.id} /\ t \in RecTracks /\ x.id = rec.units + 1
      /\ (k.setup[1] = "fmp4") = RecIsFmp4 /\ k.setup[1] = "fmp4"
  BY DEF RecHoldsBack, RecAccepts, RecIsFmp4
<1>3. /\ n \in RecRecord /\ RecSameRest(n, k) /\ n.seg = s /\ n.past = k.past
      /\ n.inst = k.inst /\ n.failed = k.failed
  BY RecSegChange
<1> HIDE DEF n
<1>4. n.setup = k.setup /\ n.late = k.late /\ n.units = k.units
      /\ n.pending = k.pending /\ n.begun = k.begun /\ n.hasVideo = k.hasVideo /\ n.accepted = k.accepted
  BY <1>3 DEF RecSameRest
<1>5. RecHeldFits(n)
  BY <1>1, <1>2, <1>3, <1>4, RecHeldStill
<1>6. RecSegFits(n.seg, RecIsFmp4, n.units, n.inst, clean) /\ RecPastFits(n.past, RecIsFmp4, n.units, clean)
  BY <1>1, <1>2, <1>3, <1>4 DEF RecSegFits
<1>7. held.id \in Nat /\ held.id <= rec.units /\ held # RecNone /\ held.track = t /\ x1.id = held.id
      /\ x1.track = t /\ x1.sync = held.sync
  BY RecSampleIs DEF RecReady, RecFits, RecHeldFits, RecWrites
<1>8. /\ RecVideoPlays(rec.past, rec.seg) => RecPlaysOn(o)
      /\ RecNoVideoIn(rec.seg) <=> RecNoVideo(RecGather(o))
      /\ \A id : RecInSegment(rec.seg, RecIsFmp4, id) = RecCountIn(RecGather(o), id)
      /\ o.fd # "shut" /\ s.fd # "shut" /\ RecIsFmp4 \in BOOLEAN
  BY RecTargetIs DEF RecQuiet, RecIsFmp4
<1>9. /\ RecGather(o) \in Seq(RecSamples) /\ RecGather(s) \in Seq(RecSamples)
      /\ s.samples \in Seq(RecSamples) /\ s.part.samples \in Seq(RecSamples) /\ s # RecNoSegment
  BY RecSegmentFields
<1>10. RecPlayable(n) => RecVideoPlays(n.past, n.seg) /\ RecVideoNext(n)
  <2> SUFFICES ASSUME RecPlayable(n) PROVE RecVideoPlays(n.past, n.seg) /\ RecVideoNext(n)
    OBVIOUS
  <2>1. RecPlayable(rec)
    BY <1>2, <1>4 DEF RecPlayable
  <2>2. RecVideoPlays(rec.past, rec.seg) /\ RecVideoNext(rec)
    BY <2>1 DEF RecReady, RecFits
  <2>3. RecPlays(RecGather(o))
    BY <1>8, <2>2 DEF RecPlaysOn
  <2>4. x1.track = "video" /\ RecNoVideo(RecGather(o)) => x1.sync
    BY <1>2, <1>7, <1>8, <2>2 DEF RecVideoNext, RecReady
  <2>5. RecPlays(RecGather(s))
    BY <1>9, <2>3, <2>4, RecAppendIs
  <2>6. RecPlays(s.samples)
    BY <1>9, <2>5, RecConcatIs DEF RecGather
  <2>7. RecVideoPlays(n.past, n.seg)
    BY <1>2, <1>3, <2>2, <2>5, <2>6 DEF RecVideoPlays, RecPlaysOn
  <2>8. RecNoVideoIn(n.seg) /\ n.pending["video"] # RecNone => n.pending["video"].sync
    <3> SUFFICES ASSUME RecNoVideoIn(n.seg), n.pending["video"] # RecNone PROVE n.pending["video"].sync
      OBVIOUS
    <3>1. RecNoVideo(RecGather(s))
      BY <1>3, <1>9 DEF RecNoVideoIn
    <3>2. RecNoVideo(RecGather(o)) /\ x1.track # "video"
      BY <1>9, <3>1, RecAppendIs
    <3>3. n.pending["video"] = rec.pending["video"]
      BY <1>1, <1>4, <1>7, <3>2 DEF RecTracks
    <3> QED
      BY <1>2, <1>8, <2>2, <3>2, <3>3 DEF RecVideoNext, RecReady
  <2> QED
    BY <1>2, <1>4, <2>7, <2>8 DEF RecVideoNext
<1>11. ~n.failed /\ clean => \A id \in n.accepted : RecOnce(n, RecIsFmp4, id)
  <2> SUFFICES ASSUME clean, NEW id \in n.accepted PROVE RecOnce(n, RecIsFmp4, id)
    OBVIOUS
  <2>1. id \in Nat /\ id # 0
    <3>1. id \in 1..k.units
      BY <1>1, <1>4 DEF RecHeldFits
    <3> QED
      BY <1>1, <3>1
  <2>2. /\ RecInHeld(rec.pending, id) \in Nat /\ RecInLate(rec.late, id) \in Nat
        /\ RecInSegment(rec.seg, RecIsFmp4, id) \in Nat /\ RecInPast(rec.past, id) \in Nat
        /\ id > rec.units => /\ RecInHeld(rec.pending, id) = 0 /\ RecInLate(rec.late, id) = 0
                             /\ RecInSegment(rec.seg, RecIsFmp4, id) = 0 /\ RecInPast(rec.past, id) = 0
    BY <2>1, RecCountsAre DEF RecReady
  <2>3. RecInHeld(k.pending, id) + RecOne(held.id = id) = RecInHeld(rec.pending, id) + RecOne(x.id = id)
    BY <1>1
  <2>4. RecInHeld(k.pending, id) \in Nat /\ RecOne(held.id = id) \in Nat
    BY RecHeldIs DEF RecOne
  <2>5. RecInSegment(s, RecIsFmp4, id) = RecInSegment(rec.seg, RecIsFmp4, id) + RecOne(held.id = id)
    <3>1. RecInSegment(s, RecIsFmp4, id) = RecCountIn(RecGather(s), id)
      BY <1>8, RecSegmentCount
    <3>2. RecCountIn(Append(RecGather(o), x1), id) = RecCountIn(RecGather(o), id) + RecOne(x1.id = id)
      BY <1>9, RecCountAppend
    <3>3. RecInSegment(rec.seg, RecIsFmp4, id) = RecCountIn(RecGather(o), id)
      BY <1>8
    <3> QED
      BY <1>7, <3>1, <3>2, <3>3
  <2>6. RecInLate(n.late, id) = RecInLate(rec.late, id) /\ RecInPast(n.past, id) = RecInPast(rec.past, id)
        /\ RecInHeld(n.pending, id) = RecInHeld(k.pending, id)
        /\ RecInSegment(n.seg, RecIsFmp4, id) = RecInSegment(s, RecIsFmp4, id)
    BY <1>2, <1>3, <1>4
  <2>7. RecInHeld(n.pending, id) + RecInLate(n.late, id) + RecInSegment(n.seg, RecIsFmp4, id)
          + RecInPast(n.past, id)
        = RecInHeld(rec.pending, id) + RecInLate(rec.late, id) + RecInSegment(rec.seg, RecIsFmp4, id)
          + RecInPast(rec.past, id) + RecOne(x.id = id)
    <3>1. RecOne(x.id = id) \in Nat
      BY DEF RecOne
    <3> QED
      BY <2>2, <2>3, <2>4, <2>5, <2>6, <3>1
  <2>8. CASE id = x.id
    <3>1. RecOne(x.id = id) = 1 /\ id > rec.units
      BY <1>1, <1>2, <2>8 DEF RecOne
    <3>2. RecInHeld(n.pending, id) + RecInLate(n.late, id) + RecInSegment(n.seg, RecIsFmp4, id)
            + RecInPast(n.past, id) = 1
      BY <2>2, <2>7, <3>1
    <3> QED
      BY <3>2 DEF RecOnce, RecPlacesIn
  <2>9. CASE id # x.id
    <3>1. RecOne(x.id = id) = 0 /\ id \in rec.accepted
      BY <1>2, <1>4, <2>9 DEF RecOne
    <3>2. RecOnce(rec, RecIsFmp4, id)
      <4>1. ~rec.failed
        BY DEF RecReady, RecFits, RecHeldFits
      <4> QED
        BY <3>1, <4>1 DEF RecReady, RecFits, RecIsFmp4
    <3>3. RecInHeld(rec.pending, id) + RecInLate(rec.late, id) + RecInSegment(rec.seg, RecIsFmp4, id)
            + RecInPast(rec.past, id) = 1
      BY <3>2 DEF RecOnce, RecPlacesIn
    <3>4. RecInHeld(n.pending, id) + RecInLate(n.late, id) + RecInSegment(n.seg, RecIsFmp4, id)
            + RecInPast(n.past, id) = 1
      BY <2>7, <3>1, <3>3
    <3> QED
      BY <3>4 DEF RecOnce, RecPlacesIn
  <2> QED
    BY <2>8, <2>9
<1>12. RecFits(n, clean)
  <2>1. (n.setup[1] = "fmp4") = RecIsFmp4
    BY <1>2, <1>4
  <2> QED
    BY <1>5, <1>6, <1>10, <1>11, <2>1 DEF RecFits
<1> QED
  BY <1>2, <1>3, <1>12 DEF n

\* The segment that was written to ends, and the next begins at a video that can be played alone.
LEMMA RecRotatedFits ==
    ASSUME RecMaxUnits \in Nat, NEW clean \in BOOLEAN, NEW now \in BOOLEAN, now => clean,
           NEW r \in RecRecord, RecFits(r, clean), r.inst = "on", r.seg # RecNoSegment,
           r.setup = rec.setup, rec.setup[1] = "fmp4", NEW n \in RecRecord, NEW start,
           RecRotated(n, r, start, RecIsFmp4, r.units, now),
           r.pending["video"] # RecNone => r.pending["video"].sync
    PROVE  RecFits(n, now)
<1>1. RecSameRest(n, r) /\ ((n.inst = "failed" /\ n.failed) \/ (n.inst = r.inst /\ n.failed = r.failed))
      /\ n.seg \in RecSegments
  BY DEF RecRotated
<1>2. n.setup = r.setup /\ n.late = r.late /\ n.units = r.units
      /\ n.pending = r.pending /\ n.begun = r.begun /\ n.hasVideo = r.hasVideo /\ n.accepted = r.accepted
  BY <1>1 DEF RecSameRest
<1>3. /\ RecHeldFits(r) /\ (r.setup[1] = "fmp4") = RecIsFmp4 /\ r.setup[1] = "fmp4" /\ ~r.failed
      /\ RecPlayable(r) => RecVideoPlays(r.past, r.seg)
  BY DEF RecFits, RecIsFmp4, RecHeldFits
<1>4. RecHeldFits(n)
  BY <1>1, <1>2, <1>3, RecHeldStill
<1>5. RecSegFits(n.seg, RecIsFmp4, n.units, n.inst, now) /\ RecPastFits(n.past, RecIsFmp4, n.units, now)
  BY <1>2 DEF RecRotated
<1>6. RecPlayable(n) => RecVideoPlays(n.past, n.seg) /\ RecVideoNext(n)
  <2> SUFFICES ASSUME RecPlayable(n) PROVE RecVideoPlays(n.past, n.seg) /\ RecVideoNext(n)
    OBVIOUS
  <2>1. RecPlayable(r)
    BY <1>2 DEF RecPlayable
  <2> QED
    BY <1>2, <1>3, <2>1 DEF RecRotated, RecVideoNext
<1>7. ~n.failed /\ now => \A id \in n.accepted : RecOnce(n, RecIsFmp4, id)
  <2> SUFFICES ASSUME ~n.failed, now, NEW id \in n.accepted PROVE RecOnce(n, RecIsFmp4, id)
    OBVIOUS
  <2>1. id \in Nat
    BY RecRecordFields
  <2>2. RecOnce(r, RecIsFmp4, id)
    BY <1>2, <1>3 DEF RecFits
  <2>3. /\ RecInHeld(r.pending, id) \in Nat /\ RecInLate(r.late, id) \in Nat
        /\ RecInSegment(r.seg, RecIsFmp4, id) \in Nat /\ RecInPast(r.past, id) \in Nat
    BY <2>1, RecCountsAre
  <2>4. RecInSegment(n.seg, RecIsFmp4, id) + RecInPast(n.past, id)
        = RecInSegment(r.seg, RecIsFmp4, id) + RecInPast(r.past, id)
    BY <1>1 DEF RecRotated
  <2>5. RecInSegment(n.seg, RecIsFmp4, id) \in Int /\ RecInPast(n.past, id) \in Int
    <3>1. n.seg.samples \in Seq(RecSamples) /\ n.seg.part.samples \in Seq(RecSamples)
      BY <1>1, RecSegmentFields
    <3>2. RecCountIn(n.seg.samples, id) \in Nat /\ RecCountIn(n.seg.part.samples, id) \in Nat
      BY <3>1, RecCountIsFinite
    <3>3. RecInSegment(n.seg, RecIsFmp4, id) \in Nat
      BY <3>2 DEF RecInSegment
    <3>6. RecInPast(n.past, id) \in Nat
      BY RecPastCountIs
    <3> QED
      BY <3>3, <3>6
  <2>6. RecInHeld(n.pending, id) + RecInLate(n.late, id) + RecInSegment(n.seg, RecIsFmp4, id)
          + RecInPast(n.past, id)
        = RecInHeld(r.pending, id) + RecInLate(r.late, id) + RecInSegment(r.seg, RecIsFmp4, id)
          + RecInPast(r.past, id)
    <3>1. RecInHeld(n.pending, id) = RecInHeld(r.pending, id) /\ RecInLate(n.late, id) = RecInLate(r.late, id)
      BY <1>2
    <3> QED
      BY <2>3, <2>4, <2>5, <3>1
  <2> QED
    BY <2>2, <2>6 DEF RecOnce, RecPlacesIn
<1> QED
  BY <1>2, <1>3, <1>4, <1>5, <1>6, <1>7 DEF RecFits

\* A unit of fMP4.
LEMMA RecFmp4WriteFits ==
    ASSUME NEW clean \in BOOLEAN, RecReady(clean), NEW t \in RecTracks, NEW a \in RecRecord, NEW x \in RecSamples,
           RecAccepts(a, t, x), rec.setup[1] = "fmp4", NEW fail \in RecFaults
    PROVE  LET n == RecFmp4Write(a, t, x, fail)
           IN  n \in RecRecord /\ RecFits(n, clean /\ fail = "none") /\ n.setup = rec.setup
               /\ (n.seg # RecNoSegment /\ rec.seg # RecNoSegment /\ n.seg.start # rec.seg.start =>
                     \A u, v \in RecTracks :
                        n.pending[u] # RecNone /\ n.pending[v] # RecNone
                        /\ (\A w \in RecTracks : n.pending[w] # RecNone => n.pending[w].dts <= n.pending[v].dts)
                        /\ n.pending[v].dts - n.pending[u].dts <= RecTolerance
                        => n.seg.start <= n.pending[u].dts)
<1> DEFINE now == clean /\ fail = "none"
           held == a.pending[t]
           next == IF held # RecNone /\ x.dts < held.dts THEN [x EXCEPT !.dts = held.dts] ELSE x
           x1 == [held EXCEPT !.duration = next.dts - held.dts]
           k == [a EXCEPT !.hasVideo = @ \/ t = "video", !.pending[t] = next]
           open == IF k.seg = RecNoSegment THEN [k EXCEPT !.seg = RecNewSegment(x1.dts, << >>)] ELSE k
           w == RecSegmentWrite(open.seg, x1, fail)
           wr == [open EXCEPT !.seg = w.seg]
           n == RecFmp4Write(a, t, x, fail)
           o == IF k.seg = RecNoSegment THEN RecNewSegment(x1.dts, << >>) ELSE k.seg
<1>0. n = IF held = RecNone THEN k
          ELSE IF RecTooLate(k, x1.dts) THEN [k EXCEPT !.late = @ \cup {held}]
          ELSE IF ~w.ok THEN RecFail(wr)
          ELSE IF RecRotates(wr, t, next) THEN RecRotate(wr, RecNextStart(wr.pending), fail)
          ELSE wr
  BY DEF RecFmp4Write
<1>1. /\ a.pending = rec.pending /\ a.seg = rec.seg /\ a.setup = rec.setup /\ x.track = t /\ x.id = rec.units + 1
      /\ RecMaxUnits \in Nat /\ rec \in RecRecord /\ now \in BOOLEAN /\ (now => clean)
  BY DEF RecAccepts, RecReady
<1>2. held \in RecSamples \cup {RecNone} /\ held = rec.pending[t]
  BY <1>1, RecRecordFields
<1>3. next \in RecSamples /\ next.id = x.id /\ next.track = t /\ next.sync = x.sync
      /\ (held # RecNone => held.dts <= next.dts)
  <2> HIDE DEF held
  <2>1. CASE held # RecNone /\ x.dts < held.dts
    <3>1. next = [x EXCEPT !.dts = held.dts]
      BY <2>1
    <3>2. held.dts \in Nat
      BY <1>2, <2>1, RecSampleIs
    <3> HIDE DEF next
    <3> QED
      BY <1>1, <3>1, <3>2 DEF RecSamples
  <2>2. CASE ~(held # RecNone /\ x.dts < held.dts)
    <3>1. next = x
      BY <2>2
    <3>2. held # RecNone => held.dts \in Nat /\ x.dts \in Nat
      BY <1>2, RecSampleIs
    <3> QED
      BY <1>1, <2>2, <3>1, <3>2
  <2> QED
    BY <2>1, <2>2
<1> HIDE DEF next
<1>4. RecHoldsBack(k, a, t, next)
  BY <1>3, RecKeptIs
<1> HIDE DEF k
<1>5. /\ k \in RecRecord /\ k.seg = rec.seg /\ k.setup = rec.setup /\ k.inst = "on" /\ k.units = rec.units + 1
      /\ k.pending = [rec.pending EXCEPT ![t] = next] /\ k.hasVideo = (a.hasVideo \/ t = "video")
  BY <1>1, <1>4 DEF RecHoldsBack, RecAccepts
<1>6. ASSUME held = RecNone PROVE n = k
  BY <1>0, <1>6
<1>7. ASSUME held # RecNone, RecTooLate(k, x1.dts) PROVE n = [k EXCEPT !.late = @ \cup {held}]
  BY <1>0, <1>7
<1>8. ASSUME held # RecNone, ~RecTooLate(k, x1.dts), ~w.ok PROVE n = RecFail(wr)
  BY <1>0, <1>8
<1>9. ASSUME held # RecNone, ~RecTooLate(k, x1.dts), w.ok, RecRotates(wr, t, next)
      PROVE  n = RecRotate(wr, RecNextStart(wr.pending), fail)
  BY <1>0, <1>9
<1>10. ASSUME held # RecNone, ~RecTooLate(k, x1.dts), w.ok, ~RecRotates(wr, t, next) PROVE n = wr
  BY <1>0, <1>10
<1> HIDE DEF n, held
<1>11. CASE held = RecNone
  <2>1. RecFits(k, clean)
    BY <1>2, <1>3, <1>4, <1>5, <1>11, RecFirstFits
  <2>2. RecFits(k, now)
    BY <1>1, <2>1, RecFitsLess
  <2> QED
    BY <1>5, <1>6, <1>11, <2>2 DEF n
<1>12. CASE held # RecNone /\ RecTooLate(k, x1.dts)
  <2>1. /\ n \in RecRecord /\ RecFits(n, clean) /\ n.setup = rec.setup /\ n.seg = rec.seg
    <3> DEFINE l == [k EXCEPT !.late = @ \cup {held}]
    <3>1. held \in RecSamples /\ rec.pending[t] = held /\ k \in RecRecord /\ n = l
      BY <1>2, <1>5, <1>7, <1>12
    <3>2. /\ l \in RecRecord /\ RecFits(l, clean) /\ l.setup = rec.setup /\ l.seg = rec.seg
      BY <1>3, <1>4, <3>1, RecLateFits
    <3> HIDE DEF l
    <3> QED
      BY <3>1, <3>2
  <2>2. RecFits(n, now)
    BY <1>1, <2>1, RecFitsLess
  <2> QED
    BY <2>1, <2>2 DEF n
<1>13. CASE held # RecNone /\ ~RecTooLate(k, x1.dts)
  <2>1. held \in RecSamples
    BY <1>2, <1>13
  <2>2. x1 \in RecSamples /\ x1.id = held.id /\ x1.track = held.track /\ x1.dts = held.dts /\ x1.sync = held.sync
        /\ x1.duration = next.dts - held.dts /\ x1.dts + x1.duration = next.dts
    <3> DEFINE d == next.dts - held.dts
    <3>1. d \in Nat /\ held.dts + d = next.dts
      BY <1>3, <1>13, <2>1, RecSampleIs
    <3> HIDE DEF d
    <3>2. [held EXCEPT !.duration = d] \in RecSamples
      BY <2>1, <3>1 DEF RecSamples
    <3> QED
      BY <2>1, <3>1, <3>2 DEF RecSamples, d
  <2> HIDE DEF x1
  <2>3. o \in RecSegments /\ RecGoesTo(o, x1)
    <3>1. x1.dts \in Nat /\ rec.units \in Nat /\ rec.seg \in RecSegments \cup {RecNoSegment}
      <4>1. rec.units \in 0..RecMaxUnits
        BY <1>1, RecRecordFields
      <4> QED
        BY <1>1, <2>2, <4>1, RecSampleIs, RecRecordFields
    <3>2. CASE rec.seg = RecNoSegment
      <4>1. o = RecNewSegment(x1.dts, << >>)
        BY <1>5, <3>2
      <4>2. o \in RecSegments /\ o.start = x1.dts
        BY <3>1, <4>1, RecNewIs
      <4> QED
        BY <3>1, <3>2, <4>1, <4>2 DEF RecGoesTo
    <3>3. CASE rec.seg # RecNoSegment
      <4>1. o = rec.seg /\ o \in RecSegments
        BY <1>5, <3>1, <3>3
      <4>2. ~(x1.dts < o.start) /\ o.start \in Nat
        BY <1>5, <1>13, <3>3, <4>1, RecSegmentFields DEF RecTooLate
      <4> QED
        BY <3>1, <3>3, <4>1, <4>2 DEF RecGoesTo
    <3> QED
      BY <3>2, <3>3
  <2>4. open.seg = o /\ wr = [k EXCEPT !.seg = w.seg] /\ w = RecSegmentWrite(o, x1, fail)
    <3>1. CASE k.seg = RecNoSegment
      <4>1. open = [k EXCEPT !.seg = o] /\ o = RecNewSegment(x1.dts, << >>)
        BY <3>1
      <4>2. open.seg = o
        BY <1>5, <4>1 DEF RecRecord
      <4> HIDE DEF o, w, open
      <4>3. wr = [k EXCEPT !.seg = w.seg]
        BY <1>5, <4>1 DEF RecRecord
      <4> QED
        BY <4>2, <4>3 DEF w
    <3>2. CASE k.seg # RecNoSegment
      <4>1. open = k /\ o = k.seg
        BY <3>2
      <4> QED
        BY <4>1
    <3> QED
      BY <3>1, <3>2
  <2> HIDE DEF o, open, wr
  <2>5. /\ w.seg \in RecSegments /\ w.ok \in BOOLEAN
        /\ w.seg.start = o.start /\ ~w.seg.rotated /\ w.seg.created \in 0..1
        /\ RecFileFits(w.seg, RecIsFmp4, rec.units + 1)
        /\ w.ok => /\ RecQuiet(w.seg) /\ RecGather(w.seg) = Append(RecGather(o), x1)
                   /\ x1.dts + x1.duration <= w.seg.end
        /\ ~w.ok /\ RecPlaysOn(o) => RecPlaysOn(w.seg)
        /\ fail = "none" => w.ok
    <3>1. RecQuiet(o) /\ RecFileFits(o, RecIsFmp4, rec.units)
      BY <2>2, <2>3, RecTargetIs
    <3>2. o.start <= x1.dts
      <4>1. o.start \in Nat /\ x1.dts \in Nat /\ x1.dts >= o.start
        BY <2>2, <2>3, RecSegmentFields, RecSampleIs DEF RecGoesTo
      <4> QED
        BY <4>1
    <3>3. x1.id <= rec.units /\ rec.units \in Nat
      <4>1. rec.units \in 0..RecMaxUnits /\ rec.pending[t].id <= rec.units
        BY <1>1, <1>2, <1>13, RecRecordFields DEF RecReady, RecFits, RecHeldFits
      <4> QED
        BY <1>1, <1>2, <2>2, <4>1
    <3>4. RecIsFmp4
      BY DEF RecIsFmp4
    <3> HIDE DEF w
    <3> QED
      BY <2>2, <2>3, <2>4, <3>1, <3>2, <3>3, <3>4, RecWriteIs, Zenon
  <2> HIDE DEF w
  <2>6. RecFileFits(w.seg, RecIsFmp4, k.units)
    BY <1>5, <2>5
  <2>7. RecWrites(x1, held)
    BY <2>2 DEF RecWrites
  <2>8. CASE ~w.ok
    <3>1. n = RecFail([k EXCEPT !.seg = w.seg])
      BY <1>8, <1>13, <2>4, <2>8
    <3>2. n \in RecRecord /\ RecFits(n, now) /\ n.setup = rec.setup /\ n.inst = "failed" /\ n.seg = w.seg
      <4>1. /\ w.seg \in RecSegments /\ w.seg.created \in 0..1 /\ ~w.seg.rotated /\ (RecPlaysOn(o) => RecPlaysOn(w.seg))
            /\ ~now /\ now \in BOOLEAN
        BY <1>1, <2>5, <2>8
      <4>2. k \in RecRecord /\ x1 \in RecSamples /\ o \in RecSegments /\ RecGoesTo(o, x1)
        BY <1>5, <2>2, <2>3
      <4> HIDE DEF now
      <4> QED
        BY <1>3, <1>4, <2>6, <3>1, <4>1, <4>2, RecWriteFails
    <3>4. rec.seg # RecNoSegment => n.seg.start = rec.seg.start
      BY <2>3, <2>5, <3>2 DEF RecGoesTo
    <3> QED
      BY <3>2, <3>4 DEF n
  <2>9. CASE w.ok
    <3>1. /\ wr \in RecRecord /\ RecFits(wr, clean) /\ RecSameRest(wr, k) /\ wr.inst = "on" /\ wr.seg = w.seg
      BY <1>2, <1>3, <1>4, <1>5, <2>1, <2>2, <2>3, <2>4, <2>5, <2>6, <2>7, <2>9, RecWriteFits
    <3>2. wr.setup = k.setup /\ wr.units = k.units /\ wr.pending = k.pending /\ wr.begun = k.begun
          /\ wr.hasVideo = k.hasVideo
      BY <3>1 DEF RecSameRest
    <3>3. CASE ~RecRotates(wr, t, next)
      <4>1. n = wr
        BY <1>10, <1>13, <2>9, <3>3
      <4>2. RecFits(wr, now)
        BY <1>1, <3>1, RecFitsLess
      <4>3. rec.seg # RecNoSegment => n.seg.start = rec.seg.start
        BY <2>3, <2>5, <3>1, <4>1 DEF RecGoesTo
      <4> QED
        BY <1>5, <3>1, <3>2, <4>1, <4>2, <4>3 DEF n
    <3>4. CASE RecRotates(wr, t, next)
      <4> DEFINE start == RecNextStart(wr.pending)
      <4>1. n = RecRotate(wr, start, fail)
        BY <1>9, <1>13, <2>9, <3>4
      <4>2. wr.pending \in [RecTracks -> RecSamples \cup {RecNone}] /\ wr.pending[t] = next /\ next # RecNone
        BY <1>1, <1>3, <1>5, <3>1, <3>2, RecRecordFields, RecSampleIs
      <4>3. start \in Nat
            /\ \A u, v \in RecTracks :
                 wr.pending[u] # RecNone /\ wr.pending[v] # RecNone
                 /\ (\A j \in RecTracks : wr.pending[j] # RecNone => wr.pending[j].dts <= wr.pending[v].dts)
                 /\ wr.pending[v].dts - wr.pending[u].dts <= RecTolerance
                 => start <= wr.pending[u].dts
        BY <4>2, RecNextStartIs
      <4> HIDE DEF start
      <4>4. w.seg.end - w.seg.start >= RecSegment
        <5>1. next.dts - w.seg.start >= RecSegment
          BY <3>1, <3>4 DEF RecRotates
        <5>2. next.dts <= w.seg.end /\ next.dts \in Nat /\ w.seg.end \in Nat /\ w.seg.start \in Nat
          BY <1>3, <2>2, <2>5, <2>9, RecSegmentFields, RecSampleIs
        <5> QED
          BY <5>1, <5>2 DEF RecSegment
      <4>5. wr.units \in 0..RecMaxUnits /\ RecPastFits(wr.past, RecIsFmp4, wr.units, clean)
        <5>1. (wr.setup[1] = "fmp4") = RecIsFmp4
          BY <1>5, <3>2 DEF RecIsFmp4
        <5> QED
          BY <3>1, <5>1, RecRecordFields DEF RecFits
      <4>6. RecFileFits(w.seg, RecIsFmp4, wr.units)
        BY <2>6, <3>2
      <4>7. /\ RecRotated(n, wr, start, RecIsFmp4, wr.units, now)
            /\ fail = "none" => n.inst = "on"
        BY <1>1, <2>5, <2>9, <3>1, <4>1, <4>3, <4>4, <4>5, <4>6, RecRotateIs
      <4>8. n \in RecRecord /\ RecSameRest(n, wr)
        BY <4>7 DEF RecRotated
      <4>9. wr.pending["video"] # RecNone => wr.pending["video"].sync
        <5>1. CASE t = "video"
          BY <3>4, <4>2, <5>1 DEF RecRotates
        <5>2. CASE t # "video"
          <6>1. ~wr.hasVideo
            BY <3>4, <5>2 DEF RecRotates
          <6>2. wr.setup[1] = "fmp4"
            BY <1>5, <3>2
          <6> QED
            BY <3>1, <6>1, <6>2 DEF RecFits, RecHeldFits, RecTracks
        <5> QED
          BY <5>1, <5>2
      <4>10. RecFits(n, now)
        <5>1. wr.seg # RecNoSegment /\ wr.setup = rec.setup
          BY <1>5, <2>5, <3>1, <3>2, RecSegmentFields
        <5> QED
          BY <1>1, <3>1, <4>7, <4>8, <4>9, <5>1, RecRotatedFits
      <4>11. n.setup = rec.setup /\ n.pending = wr.pending
        BY <1>5, <3>2, <4>8 DEF RecSameRest
      <4>12. CASE n.inst = "on"
        <5>1. n.seg.start = start
          BY <3>1, <4>7, <4>12 DEF RecRotated
        <5> QED
          BY <4>3, <4>8, <4>10, <4>11, <5>1 DEF n
      <4>13. CASE n.inst # "on"
        <5>1. fail # "none" /\ n = RecFail([wr EXCEPT !.seg = RecSegmentClose(wr.seg, fail).seg])
          <6>1. RecSegmentClose(wr.seg, fail).ok => n.inst = wr.inst
            BY <3>1, <4>1 DEF RecRotate, RecRecord
          <6>2. ~RecSegmentClose(wr.seg, fail).ok
            BY <3>1, <4>13, <6>1
          <6> QED
            BY <4>1, <4>7, <4>13, <6>2 DEF RecRotate
        <5>2. n.seg.start = wr.seg.start
          <6>1. /\ RecSegmentClose(wr.seg, fail).seg \in RecSegments
                /\ RecSegmentClose(wr.seg, fail).seg.start = wr.seg.start
            <7>1. wr.units \in Nat
              BY <1>1, <4>5
            <7> QED
              BY <2>5, <3>1, <4>6, <7>1, RecCloseIs
          <6>2. n.seg = RecSegmentClose(wr.seg, fail).seg
            BY <3>1, <5>1, <6>1, RecSegChange
          <6> QED
            BY <6>1, <6>2
        <5>3. rec.seg # RecNoSegment => n.seg.start = rec.seg.start
          BY <2>3, <2>5, <3>1, <5>2 DEF RecGoesTo
        <5> QED
          BY <4>8, <4>10, <4>11, <5>3 DEF n
      <4> QED
        BY <4>12, <4>13
    <3> QED
      BY <3>3, <3>4
  <2> QED
    BY <2>5, <2>8, <2>9
<1> QED
  BY <1>11, <1>12, <1>13

----------------------------------------------------------------------------
(* MPEG-TS: a sample arrives.                                              *)

\* The record m has accepted the unit and heard of its track, and differs in its files at most.
RecTsKeeps(m, a, t) ==
    /\ m \in RecRecord /\ m.setup = a.setup /\ m.late = a.late /\ m.units = a.units /\ m.pending = a.pending
    /\ m.begun = a.begun /\ m.accepted = a.accepted /\ m.hasVideo = (a.hasVideo \/ t = "video")

\* The segment of m is the one that x goes to.
RecTsMid(m, t, x, clean) ==
    /\ m.inst = "on" /\ ~m.failed /\ m.seg \in RecSegments /\ RecQuiet(m.seg)
    /\ RecFileFits(m.seg, RecIsFmp4, rec.units) /\ RecPastFits(m.past, RecIsFmp4, rec.units, clean)
    /\ RecPlayable(rec) => /\ RecVideoPlays(m.past, m.seg)
                           /\ t = "video" /\ RecNoVideo(RecGather(m.seg)) => x.sync
                           /\ m.hasVideo /\ t # "video" => ~RecNoVideo(RecGather(m.seg))
    /\ \A id : RecInSegment(m.seg, RecIsFmp4, id) + RecInPast(m.past, id)
               = RecInSegment(rec.seg, RecIsFmp4, id) + RecInPast(rec.past, id)

\* A full buffer that reached the file, or did not.
LEMMA RecTsFlushIs ==
    ASSUME rec.setup[1] # "fmp4", NEW s \in RecSegments, NEW fail \in RecFaults, NEW units \in Nat, RecQuiet(s),
           RecFileFits(s, RecIsFmp4, units)
    PROVE  LET f == RecFlush(s, fail)
           IN  /\ f.seg \in RecSegments /\ f.ok \in BOOLEAN /\ f.seg.start = s.start
               /\ ~f.seg.rotated /\ f.seg.created \in 0..1
               /\ RecFileFits(f.seg, RecIsFmp4, units)
               /\ f.ok => RecQuiet(f.seg) /\ RecGather(f.seg) = RecGather(s)
               /\ RecPlaysOn(s) => RecPlaysOn(f.seg)
               /\ fail = "none" => f.ok
<1> DEFINE f == RecFlush(s, fail)
           has == s.part.samples # << >>
<1>1. /\ s.start \in Nat /\ s.fd \in RecFds /\ s.created \in Nat
      /\ s.samples \in Seq(RecSamples) /\ s.part.samples \in Seq(RecSamples) /\ RecGather(s) \in Seq(RecSamples)
  BY RecSegmentFields
<1>2. /\ s.bad = FALSE /\ s.fd \in {"none", "open"} /\ s.created = (IF s.fd = "open" THEN 1 ELSE 0)
      /\ s.completed = 0 /\ s.rotated = FALSE
  BY <1>1, RecSegmentFields DEF RecQuiet, RecFds
<1>3. ~RecIsFmp4
  BY DEF RecIsFmp4
<1>4. /\ f.seg \in RecSegments /\ f.ok \in BOOLEAN
      /\ f.seg.start = s.start /\ f.seg.completed = 0 /\ f.seg.rotated = FALSE
      /\ s.fd # "none" => f.seg.fd = s.fd /\ f.seg.created = s.created
      /\ s.fd = "none" => /\ f.seg.fd \in {"none", "open"}
                          /\ f.seg.created \in {s.created, s.created + 1}
                          /\ f.seg.fd = "open" => f.seg.created = s.created + 1
      /\ f.ok => ~f.seg.bad
      /\ f.ok /\ has => f.seg.samples = RecGather(s) /\ f.seg.fd = "open" /\ f.seg.part = RecNoPart
      /\ ~(f.ok /\ has) => f.seg.samples = s.samples /\ f.seg.part = s.part
      /\ ~has => f.seg = s
      /\ fail = "none" => f.ok
  <2> HIDE DEF f
  <2> QED
    BY <1>2, <1>3, RecFlushIs DEF f
<1> HIDE DEF f
<1>5. f.seg.fd \in {"none", "open"} /\ f.seg.created \in 0..1 /\ (f.seg.fd = "open" => f.seg.created = 1)
  BY <1>2, <1>4
<1>6. /\ RecIds(s.samples, units) /\ RecIds(s.part.samples, units) /\ RecRoom(s.samples, << >>, units)
      /\ RecRoom(s.samples, s.part.samples, units) /\ (s.fd = "none" => s.samples = << >>)
      /\ s.part = [RecNoPart EXCEPT !.samples = s.part.samples]
  BY <1>2, <1>3 DEF RecFileFits
<1>7. CASE f.ok /\ has
  <2>1. /\ f.seg.samples = RecGather(s) /\ f.seg.fd = "open" /\ f.seg.part = RecNoPart /\ f.seg.created = 1
        /\ f.seg.part.samples = << >>
    BY <1>4, <1>5, <1>7, RecPartIs
  <2>2. RecIds(f.seg.samples, units) /\ RecIds(<< >>, units) /\ RecRoom(f.seg.samples, << >>, units)
    <3>1. RecIds(RecGather(s), units)
      BY <1>1, <1>6, RecConcatIs DEF RecGather
    <3>2. RecRoom(RecGather(s), << >>, units)
      BY <1>1, <1>6, RecRoomOf DEF RecGather
    <3>3. RecIds(<< >>, units)
      BY DEF RecIds
    <3> QED
      BY <2>1, <3>1, <3>2, <3>3
  <2>3. RecFileFits(f.seg, RecIsFmp4, units)
    BY <1>3, <1>4, <1>5, <2>1, <2>2, RecPartIs DEF RecFileFits
  <2>4. RecGather(f.seg) = RecGather(s)
    BY <1>1, <2>1, RecConcatIs DEF RecGather
  <2>5. RecQuiet(f.seg)
    BY <1>4, <1>7, <2>1 DEF RecQuiet
  <2>6. RecPlaysOn(s) => RecPlaysOn(f.seg)
    BY <1>2, <2>1, <2>4 DEF RecPlaysOn
  <2> QED
    BY <1>4, <1>5, <2>3, <2>4, <2>5, <2>6 DEF f
<1>8. CASE ~(f.ok /\ has)
  <2>1. f.seg.samples = s.samples /\ f.seg.part = s.part
    BY <1>4, <1>8
  <2>2. f.seg.fd = "none" => s.fd = "none"
    BY <1>2, <1>4
  <2>3. RecFileFits(f.seg, RecIsFmp4, units)
    BY <1>3, <1>4, <1>5, <1>6, <2>1, <2>2 DEF RecFileFits
  <2>4. RecGather(f.seg) = RecGather(s)
    BY <2>1 DEF RecGather
  <2>5. f.ok => RecQuiet(f.seg)
    BY <1>4, <1>8
  <2>6. RecPlaysOn(s) => RecPlaysOn(f.seg)
    BY <1>2, <2>1, <2>4 DEF RecPlaysOn
  <2> QED
    BY <1>4, <1>5, <2>3, <2>4, <2>5, <2>6 DEF f
<1> QED
  BY <1>7, <1>8

\* The sample enters the buffer.
LEMMA RecTsAppendIs ==
    ASSUME rec.setup[1] # "fmp4", NEW o \in RecSegments, NEW x \in RecSamples, NEW units \in Nat, RecQuiet(o),
           RecFileFits(o, RecIsFmp4, units), x.id = units + 1
    PROVE  LET s == [o EXCEPT !.end = x.dts, !.part.samples = Append(@, x)]
           IN  /\ s \in RecSegments /\ RecQuiet(s) /\ RecFileFits(s, RecIsFmp4, units + 1)
               /\ RecGather(s) = Append(RecGather(o), x) /\ s.samples = o.samples
<1> DEFINE q == Append(o.part.samples, x)
           p == [o.part EXCEPT !.samples = q]
           s == [o EXCEPT !.end = x.dts, !.part.samples = Append(@, x)]
<1>1. /\ o.samples \in Seq(RecSamples) /\ o.part.samples \in Seq(RecSamples) /\ o.part \in RecParts /\ o.fd \in RecFds
  BY RecSegmentFields
<1>2. x.dts \in Nat
  BY RecSampleIs
<1>3. q \in Seq(RecSamples)
  BY <1>1
<1>4. s = [o EXCEPT !.end = x.dts, !.part = p]
  BY DEF RecSegments
<1> HIDE DEF s, q
<1>5. p \in RecParts /\ p.samples = q
  BY <1>1, <1>3 DEF RecParts
<1>6. ~RecIsFmp4 /\ units + 1 \in Nat /\ units <= units + 1
  BY DEF RecIsFmp4
<1>7. o.part = [RecNoPart EXCEPT !.samples = o.part.samples]
  BY <1>6 DEF RecFileFits
<1>8. p = [RecNoPart EXCEPT !.samples = q]
  BY <1>7 DEF RecNoPart
<1> HIDE DEF p
<1>9. /\ s \in RecSegments /\ s.samples = o.samples /\ s.part = p /\ s.fd = o.fd /\ s.created = o.created
      /\ s.completed = o.completed /\ s.rotated = o.rotated /\ s.bad = o.bad
  BY <1>2, <1>4, <1>5 DEF RecSegments
<1>10. RecQuiet(s) /\ s.completed = 0 /\ s.fd # "shut" /\ s.created \in 0..1 /\ (s.fd # "none" => s.created >= 1)
  BY <1>1, <1>9 DEF RecQuiet, RecFds
<1>11. RecIds(o.samples, units) /\ RecIds(o.part.samples, units) /\ RecRoom(o.samples, o.part.samples, units)
       /\ RecRoom(o.samples, << >>, units) /\ (o.fd = "none" => o.samples = << >>)
  BY <1>9, <1>10 DEF RecFileFits
<1>12. RecIds(o.samples, units + 1) /\ RecIds(q, units + 1)
  <2>1. RecIds(o.samples, units + 1) /\ RecIds(o.part.samples, units + 1)
    BY <1>1, <1>6, <1>11, RecIdsStill
  <2>2. x.id <= units + 1
    BY <1>6
  <2> QED
    BY <1>1, <1>6, <2>1, <2>2, RecAppendIs DEF q
<1>13. RecRoom(o.samples, q, units + 1) /\ RecRoom(o.samples, << >>, units + 1)
  BY <1>1, <1>11, RecRoomIs DEF q
<1>14. RecFileFits(s, RecIsFmp4, units + 1)
  BY <1>5, <1>6, <1>8, <1>9, <1>10, <1>11, <1>12, <1>13 DEF RecFileFits
<1>15. RecGather(s) = Append(RecGather(o), x)
  <2>1. o.samples \o Append(o.part.samples, x) = Append(o.samples \o o.part.samples, x)
    BY <1>1, RecConcatAppend
  <2> QED
    BY <1>5, <1>9, <2>1 DEF RecGather, q
<1> QED
  BY <1>9, <1>10, <1>14, <1>15 DEF s

\* What the accepting of a unit leaves of the held samples, of which there are none.
LEMMA RecTsHeldFits ==
    ASSUME NEW clean \in BOOLEAN, RecReady(clean), NEW t \in RecTracks, NEW a \in RecRecord, NEW x \in RecSamples,
           RecAccepts(a, t, x), rec.setup[1] # "fmp4", NEW m \in RecRecord, RecTsKeeps(m, a, t),
           m.inst = "on" => ~m.failed, m.inst = "failed" => m.failed
    PROVE  /\ RecHeldFits(m) /\ m.setup = rec.setup /\ m.late = {} /\ rec.late = {} /\ m.pending = rec.pending
           /\ m.units = rec.units + 1 /\ rec.units \in Nat /\ m.units \in Nat /\ m.accepted = rec.accepted \cup {x.id}
           /\ (m.setup[1] = "fmp4") = RecIsFmp4
<1>1. RecHeldFits(rec) /\ rec.units \in 0..RecMaxUnits /\ RecMaxUnits \in Nat
  BY RecRecordFields DEF RecReady, RecFits
<1>2. /\ m.setup = rec.setup /\ m.late = rec.late /\ m.pending = rec.pending /\ m.units = rec.units + 1
      /\ m.begun = rec.begun \cup {t} /\ m.accepted = rec.accepted \cup {x.id}
      /\ m.hasVideo = (rec.hasVideo \/ t = "video") /\ x.id = rec.units + 1
  BY DEF RecTsKeeps, RecAccepts
<1>3. rec.late = {} /\ \A u \in RecTracks : rec.pending[u] = RecNone
  BY <1>1 DEF RecHeldFits
<1>4. rec.units \in Nat /\ m.units \in Nat
  BY <1>1, <1>2
<1>5. m.accepted \subseteq 1..m.units
  BY <1>1, <1>2, <1>4 DEF RecHeldFits
<1>6. m.hasVideo <=> "video" \in m.begun
  BY <1>1, <1>2 DEF RecHeldFits
<1>7. IsFiniteSet(m.late)
  BY <1>2, <1>3, FS_EmptySet
<1>8. RecHeldFits(m)
  BY <1>2, <1>3, <1>5, <1>6, <1>7 DEF RecHeldFits
<1> QED
  BY <1>2, <1>3, <1>4, <1>8 DEF RecIsFmp4

LEMMA RecSumOf ==
    ASSUME NEW h \in Nat, NEW l \in Nat, NEW g \in Nat, NEW p \in Nat, NEW g2 \in Nat, NEW p2 \in Nat, NEW o \in Nat,
           g2 + p2 = g + p
    PROVE  h + l + (g2 + o) + p2 = h + l + g + p + o
  OBVIOUS

\* The sample is in the segment of m, and m goes on.
LEMMA RecTsOnFits ==
    ASSUME NEW clean \in BOOLEAN, RecReady(clean), NEW t \in RecTracks, NEW a \in RecRecord, NEW x \in RecSamples,
           RecAccepts(a, t, x), rec.setup[1] # "fmp4", NEW m \in RecRecord, RecTsKeeps(m, a, t),
           RecTsMid(m, t, x, clean), NEW s \in RecSegments, RecQuiet(s), RecFileFits(s, RecIsFmp4, rec.units + 1),
           RecGather(s) = Append(RecGather(m.seg), x)
    PROVE  LET n == [m EXCEPT !.seg = s]
           IN  n \in RecRecord /\ RecFits(n, clean) /\ n.setup = rec.setup
<1> DEFINE n == [m EXCEPT !.seg = s]
<1>1. n \in RecRecord /\ RecSameRest(n, m) /\ n.seg = s /\ n.past = m.past /\ n.inst = m.inst /\ n.failed = m.failed
  BY RecSegChange
<1> HIDE DEF n
<1>2. m.inst = "on" /\ ~m.failed /\ m.seg \in RecSegments /\ RecQuiet(m.seg)
      /\ RecPastFits(m.past, RecIsFmp4, rec.units, clean)
      /\ \A id : RecInSegment(m.seg, RecIsFmp4, id) + RecInPast(m.past, id)
                 = RecInSegment(rec.seg, RecIsFmp4, id) + RecInPast(rec.past, id)
  BY DEF RecTsMid
<1>3. RecTsKeeps(n, a, t)
  BY <1>1 DEF RecTsKeeps, RecSameRest
<1>4. /\ RecHeldFits(n) /\ n.setup = rec.setup /\ n.late = {} /\ rec.late = {} /\ n.pending = rec.pending
      /\ n.units = rec.units + 1 /\ rec.units \in Nat /\ n.units \in Nat /\ n.accepted = rec.accepted \cup {x.id}
      /\ (n.setup[1] = "fmp4") = RecIsFmp4
  BY <1>1, <1>2, <1>3, RecTsHeldFits
<1>5. RecSegFits(n.seg, RecIsFmp4, n.units, n.inst, clean)
  <2>1. s.created \in 0..1 /\ ~s.rotated
    BY DEF RecQuiet
  <2> QED
    BY <1>1, <1>2, <1>4, <2>1 DEF RecSegFits
<1>6. RecPastFits(n.past, RecIsFmp4, n.units, clean)
  <2>1. m.past \in Seq(RecSegments) /\ rec.units <= n.units
    BY <1>4, RecRecordFields
  <2>2. RecPastFits(m.past, RecIsFmp4, n.units, clean)
    BY <1>2, <1>4, <2>1, RecPastStill
  <2> QED
    BY <1>1, <2>2
<1>7. /\ RecGather(m.seg) \in Seq(RecSamples) /\ RecGather(s) \in Seq(RecSamples)
      /\ s.samples \in Seq(RecSamples) /\ s.part.samples \in Seq(RecSamples) /\ s # RecNoSegment
      /\ m.seg.fd # "shut" /\ s.fd # "shut" /\ m.seg # RecNoSegment
  BY <1>2, RecSegmentFields DEF RecQuiet
<1>8. RecPlayable(n) => RecVideoPlays(n.past, n.seg) /\ RecVideoNext(n)
  <2> SUFFICES ASSUME RecPlayable(n) PROVE RecVideoPlays(n.past, n.seg) /\ RecVideoNext(n)
    OBVIOUS
  <2>1. RecPlayable(rec)
    BY <1>4 DEF RecPlayable
  <2>2. /\ RecVideoPlays(m.past, m.seg)
        /\ t = "video" /\ RecNoVideo(RecGather(m.seg)) => x.sync
        /\ m.hasVideo /\ t # "video" => ~RecNoVideo(RecGather(m.seg))
    BY <2>1 DEF RecTsMid
  <2>3. RecPlays(RecGather(m.seg)) /\ x.track = t
    BY <1>7, <2>2 DEF RecVideoPlays, RecPlaysOn, RecAccepts
  <2>4. RecPlays(RecGather(s))
    BY <1>7, <2>2, <2>3, RecAppendIs
  <2>5. RecPlays(s.samples)
    BY <1>7, <2>4, RecConcatIs DEF RecGather
  <2>6. RecVideoPlays(n.past, n.seg)
    BY <1>1, <2>2, <2>4, <2>5 DEF RecVideoPlays, RecPlaysOn
  <2>7. n.hasVideo => ~RecNoVideoIn(n.seg)
    <3> SUFFICES ASSUME n.hasVideo, RecNoVideoIn(n.seg) PROVE FALSE
      OBVIOUS
    <3>1. RecNoVideo(RecGather(s))
      BY <1>1, <1>7 DEF RecNoVideoIn
    <3>2. RecNoVideo(RecGather(m.seg)) /\ x.track # "video"
      BY <1>7, <3>1, RecAppendIs
    <3>3. m.hasVideo
      BY <1>1 DEF RecSameRest
    <3> QED
      BY <2>2, <2>3, <3>2, <3>3
  <2> QED
    BY <1>4, <2>6, <2>7 DEF RecVideoNext
<1>9. ~n.failed /\ clean => \A id \in n.accepted : RecOnce(n, RecIsFmp4, id)
  <2> SUFFICES ASSUME clean, NEW id \in n.accepted PROVE RecOnce(n, RecIsFmp4, id)
    OBVIOUS
  <2>1. id \in Nat /\ id # 0
    <3>1. id \in 1..n.units
      BY <1>4 DEF RecHeldFits
    <3> QED
      BY <1>4, <3>1
  <2>2. /\ RecInHeld(rec.pending, id) \in Nat /\ RecInLate(rec.late, id) \in Nat
        /\ RecInSegment(rec.seg, RecIsFmp4, id) \in Nat /\ RecInPast(rec.past, id) \in Nat
        /\ id > rec.units => /\ RecInHeld(rec.pending, id) = 0 /\ RecInLate(rec.late, id) = 0
                             /\ RecInSegment(rec.seg, RecIsFmp4, id) = 0 /\ RecInPast(rec.past, id) = 0
    BY <2>1, RecCountsAre DEF RecReady
  <2>3. RecInSegment(s, RecIsFmp4, id) = RecInSegment(m.seg, RecIsFmp4, id) + RecOne(x.id = id)
    <3>0. RecIsFmp4 \in BOOLEAN
      BY DEF RecIsFmp4
    <3>1. RecInSegment(s, RecIsFmp4, id) = RecCountIn(RecGather(s), id)
          /\ RecInSegment(m.seg, RecIsFmp4, id) = RecCountIn(RecGather(m.seg), id)
      BY <1>2, <1>7, <3>0, RecSegmentCount
    <3>2. RecCountIn(Append(RecGather(m.seg), x), id) = RecCountIn(RecGather(m.seg), id) + RecOne(x.id = id)
      BY <1>7, RecCountAppend
    <3> QED
      BY <3>1, <3>2
  <2>4. RecInSegment(m.seg, RecIsFmp4, id) \in Nat
    <3>0. RecIsFmp4 \in BOOLEAN
      BY DEF RecIsFmp4
    <3>1. RecInSegment(m.seg, RecIsFmp4, id) = RecCountIn(RecGather(m.seg), id)
      BY <1>2, <1>7, <3>0, RecSegmentCount
    <3> QED
      BY <1>7, <3>1, RecCountIsFinite
  <2>5. RecInPast(m.past, id) \in Nat
    BY RecPastCountIs DEF RecReady
  <2>6. RecInHeld(n.pending, id) + RecInLate(n.late, id) + RecInSegment(n.seg, RecIsFmp4, id)
          + RecInPast(n.past, id)
        = RecInHeld(rec.pending, id) + RecInLate(rec.late, id) + RecInSegment(rec.seg, RecIsFmp4, id)
          + RecInPast(rec.past, id) + RecOne(x.id = id)
    <3>1. RecOne(x.id = id) \in Nat
      BY DEF RecOne
    <3>2. RecInSegment(m.seg, RecIsFmp4, id) + RecInPast(m.past, id)
          = RecInSegment(rec.seg, RecIsFmp4, id) + RecInPast(rec.past, id)
      BY <1>2
    <3>3. /\ RecInHeld(n.pending, id) = RecInHeld(rec.pending, id) /\ RecInLate(n.late, id) = RecInLate(rec.late, id)
          /\ RecInSegment(n.seg, RecIsFmp4, id) = RecInSegment(s, RecIsFmp4, id)
          /\ RecInPast(n.past, id) = RecInPast(m.past, id)
      BY <1>1, <1>4
    <3> QED
      <4> DEFINE h == RecInHeld(rec.pending, id)
                 l == RecInLate(rec.late, id)
                 g == RecInSegment(rec.seg, RecIsFmp4, id)
                 p == RecInPast(rec.past, id)
                 g2 == RecInSegment(m.seg, RecIsFmp4, id)
                 p2 == RecInPast(m.past, id)
                 o == RecOne(x.id = id)
      <4>1. h \in Nat /\ l \in Nat /\ g \in Nat /\ p \in Nat /\ g2 \in Nat /\ p2 \in Nat /\ o \in Nat /\ g2 + p2 = g + p
        BY <2>2, <2>4, <2>5, <3>1, <3>2
      <4>2. /\ RecInHeld(n.pending, id) = h /\ RecInLate(n.late, id) = l
            /\ RecInSegment(n.seg, RecIsFmp4, id) = g2 + o /\ RecInPast(n.past, id) = p2
        BY <2>3, <3>3
      <4> HIDE DEF h, l, g, p, g2, p2, o
      <4>3. h + l + (g2 + o) + p2 = h + l + g + p + o
        BY <4>1, RecSumOf
      <4> QED
        BY <4>2, <4>3 DEF h, l, g, p, o
  <2>7. x.id = rec.units + 1
    BY DEF RecAccepts
  <2>8. CASE id = x.id
    <3>1. RecOne(x.id = id) = 1 /\ id > rec.units
      BY <1>4, <2>7, <2>8 DEF RecOne
    <3>2. RecInHeld(n.pending, id) + RecInLate(n.late, id) + RecInSegment(n.seg, RecIsFmp4, id)
            + RecInPast(n.past, id) = 1
      BY <2>2, <2>6, <3>1
    <3> QED
      BY <3>2 DEF RecOnce, RecPlacesIn
  <2>9. CASE id # x.id
    <3>1. RecOne(x.id = id) = 0 /\ id \in rec.accepted
      BY <1>4, <2>9 DEF RecOne
    <3>2. RecOnce(rec, RecIsFmp4, id)
      <4>1. ~rec.failed
        BY DEF RecReady, RecFits, RecHeldFits
      <4> QED
        BY <3>1, <4>1 DEF RecReady, RecFits, RecIsFmp4
    <3>3. RecInHeld(rec.pending, id) + RecInLate(rec.late, id) + RecInSegment(rec.seg, RecIsFmp4, id)
            + RecInPast(rec.past, id) = 1
      BY <3>2 DEF RecOnce, RecPlacesIn
    <3>4. RecInHeld(n.pending, id) + RecInLate(n.late, id) + RecInSegment(n.seg, RecIsFmp4, id)
            + RecInPast(n.past, id) = 1
      BY <2>2, <2>6, <3>1, <3>3
    <3> QED
      BY <3>4 DEF RecOnce, RecPlacesIn
  <2> QED
    BY <2>8, <2>9
<1>10. RecFits(n, clean)
  BY <1>4, <1>5, <1>6, <1>8, <1>9 DEF RecFits
<1> QED
  BY <1>1, <1>4, <1>10 DEF n

\* The instance has failed with the segment s.
LEMMA RecTsFailFits ==
    ASSUME NEW clean \in BOOLEAN, RecReady(clean), NEW t \in RecTracks, NEW a \in RecRecord, NEW x \in RecSamples,
           RecAccepts(a, t, x), rec.setup[1] # "fmp4", NEW n \in RecRecord, RecTsKeeps(n, a, t),
           n.inst = "failed", n.failed, n.seg \in RecSegments, n.seg.created \in 0..1, ~n.seg.rotated,
           RecFileFits(n.seg, RecIsFmp4, rec.units + 1), NEW now \in BOOLEAN, ~now,
           RecPastFits(n.past, RecIsFmp4, rec.units, now), RecPlayable(rec) => RecVideoPlays(n.past, n.seg)
    PROVE  RecFits(n, now) /\ n.setup = rec.setup
<1>1. /\ RecHeldFits(n) /\ n.setup = rec.setup /\ n.late = {} /\ rec.late = {}
      /\ n.units = rec.units + 1 /\ rec.units \in Nat /\ n.units \in Nat
      /\ (n.setup[1] = "fmp4") = RecIsFmp4
  BY RecTsHeldFits
<1>2. RecSegFits(n.seg, RecIsFmp4, n.units, n.inst, now)
  BY <1>1 DEF RecSegFits
<1>3. RecPastFits(n.past, RecIsFmp4, n.units, now)
  <2>1. n.past \in Seq(RecSegments) /\ rec.units <= n.units
    BY <1>1, RecRecordFields
  <2> QED
    BY <1>1, <2>1, RecPastStill
<1>4. RecPlayable(n) => RecVideoPlays(n.past, n.seg) /\ RecVideoNext(n)
  BY <1>1 DEF RecPlayable, RecVideoNext
<1> QED
  BY <1>1, <1>2, <1>3, <1>4 DEF RecFits

\* A segment that differs in its end or in when it was flushed.
LEMMA RecTsTouchIs ==
    ASSUME rec.setup[1] # "fmp4", NEW s \in RecSegments, NEW e \in Nat, NEW units \in Nat, RecQuiet(s),
           RecFileFits(s, RecIsFmp4, units), NEW v, v = [s EXCEPT !.end = e] \/ v = [s EXCEPT !.flushed = e]
    PROVE  /\ v \in RecSegments /\ v.start = s.start /\ RecQuiet(v) /\ RecFileFits(v, RecIsFmp4, units)
           /\ RecGather(v) = RecGather(s) /\ (RecPlaysOn(s) => RecPlaysOn(v))
           /\ (v = [s EXCEPT !.end = e] => v.end = e)
<1>1. /\ v \in RecSegments /\ v.start = s.start /\ v.samples = s.samples /\ v.part = s.part /\ v.fd = s.fd
      /\ v.created = s.created /\ v.completed = s.completed /\ v.rotated = s.rotated /\ v.bad = s.bad
      /\ (v = [s EXCEPT !.end = e] => v.end = e)
  BY DEF RecSegments
<1>2. RecQuiet(v) /\ v.completed = 0
  BY <1>1 DEF RecQuiet
<1>3. ~RecIsFmp4
  BY DEF RecIsFmp4
<1>4. RecFileFits(v, RecIsFmp4, units)
  BY <1>1, <1>2, <1>3 DEF RecFileFits
<1>5. RecGather(v) = RecGather(s)
  BY <1>1 DEF RecGather
<1>6. RecPlaysOn(s) => RecPlaysOn(v)
  BY <1>1, <1>5 DEF RecPlaysOn
<1> QED
  BY <1>1, <1>2, <1>4, <1>5, <1>6

LEMMA RecTsKeptIs ==
    ASSUME NEW t \in RecTracks, NEW a \in RecRecord
    PROVE  LET k == [a EXCEPT !.hasVideo = @ \/ t = "video"]
           IN  RecTsKeeps(k, a, t) /\ k.seg = a.seg /\ k.past = a.past /\ k.inst = a.inst /\ k.failed = a.failed
<1> DEFINE h == a.hasVideo \/ t = "video"
           k == [a EXCEPT !.hasVideo = @ \/ t = "video"]
<1>1. k = [a EXCEPT !.hasVideo = h] /\ h \in BOOLEAN
  BY RecRecordFields
<1> HIDE DEF h, k
<1>2. /\ k \in RecRecord /\ k.setup = a.setup /\ k.late = a.late /\ k.units = a.units /\ k.pending = a.pending
      /\ k.begun = a.begun /\ k.accepted = a.accepted /\ k.hasVideo = h
      /\ k.seg = a.seg /\ k.past = a.past /\ k.inst = a.inst /\ k.failed = a.failed
  BY <1>1 DEF RecRecord
<1> QED
  BY <1>2 DEF RecTsKeeps, k, h

\* The same record with a segment that holds the same.
LEMMA RecTsMidWith ==
    ASSUME NEW now \in BOOLEAN, RecReady(now), NEW t \in RecTracks, NEW a \in RecRecord, NEW x \in RecSamples,
           RecAccepts(a, t, x), rec.setup[1] # "fmp4", NEW k \in RecRecord, RecTsKeeps(k, a, t),
           k.past = rec.past, k.inst = "on", ~k.failed,
           NEW s \in RecSegments, RecQuiet(s), RecFileFits(s, RecIsFmp4, rec.units),
           \/ rec.seg = RecNoSegment /\ RecGather(s) = << >> /\ RecPlaysOn(s)
           \/ rec.seg # RecNoSegment /\ RecGather(s) = RecGather(rec.seg) /\ (RecPlaysOn(rec.seg) => RecPlaysOn(s)),
           NEW n, n = [k EXCEPT !.seg = s]
    PROVE  n \in RecRecord /\ RecTsKeeps(n, a, t) /\ RecTsMid(n, t, x, now)
<1>1. n \in RecRecord /\ RecSameRest(n, k) /\ n.seg = s /\ n.past = k.past /\ n.inst = k.inst /\ n.failed = k.failed
  BY RecSegChange
<1>2. RecTsKeeps(n, a, t)
  BY <1>1 DEF RecTsKeeps, RecSameRest
<1>3. /\ RecPastFits(rec.past, RecIsFmp4, rec.units, now) /\ RecHeldFits(rec)
      /\ RecPlayable(rec) => RecVideoPlays(rec.past, rec.seg) /\ RecVideoNext(rec)
      /\ rec.seg \in RecSegments \cup {RecNoSegment} /\ rec.inst = "on"
      /\ RecSegFits(rec.seg, RecIsFmp4, rec.units, "on", now) /\ RecIsFmp4 \in BOOLEAN
  BY RecRecordFields DEF RecReady, RecFits, RecIsFmp4
<1>4. n.hasVideo = (rec.hasVideo \/ t = "video")
      /\ (t = "video" /\ "video" \notin rec.begun /\ rec.setup # <<"mpegts", "mpeg">> => x.sync)
  BY <1>2 DEF RecTsKeeps, RecAccepts
<1>5. s.fd # "shut" /\ s # RecNoSegment
  BY RecSegmentFields DEF RecQuiet
<1>6. \A id : RecInSegment(s, RecIsFmp4, id) = RecInSegment(rec.seg, RecIsFmp4, id)
  <2> SUFFICES ASSUME NEW id PROVE RecInSegment(s, RecIsFmp4, id) = RecInSegment(rec.seg, RecIsFmp4, id)
    OBVIOUS
  <2>1. RecInSegment(s, RecIsFmp4, id) = RecCountIn(RecGather(s), id)
    BY <1>3, <1>5, RecSegmentCount
  <2>2. CASE rec.seg = RecNoSegment
    BY <2>1, <2>2, RecCountEmpty DEF RecInSegment
  <2>3. CASE rec.seg # RecNoSegment
    <3>1. rec.seg.fd # "shut" /\ rec.seg \in RecSegments
      BY <1>3, <2>3 DEF RecSegFits, RecQuiet
    <3>2. RecInSegment(rec.seg, RecIsFmp4, id) = RecCountIn(RecGather(rec.seg), id)
      BY <1>3, <3>1, RecSegmentCount
    <3> QED
      BY <2>1, <2>3, <3>2
  <2> QED
    BY <2>2, <2>3
<1>7. RecNoVideo(RecGather(s)) <=> RecNoVideoIn(rec.seg)
  BY DEF RecNoVideoIn, RecNoVideo
<1>8. ASSUME RecPlayable(rec)
      PROVE  /\ RecVideoPlays(n.past, n.seg)
             /\ t = "video" /\ RecNoVideo(RecGather(n.seg)) => x.sync
             /\ n.hasVideo /\ t # "video" => ~RecNoVideo(RecGather(n.seg))
  <2>1. RecVideoPlays(rec.past, rec.seg) /\ (rec.hasVideo => ~RecNoVideoIn(rec.seg))
    BY <1>3, <1>8 DEF RecVideoNext
  <2>2. RecVideoPlays(n.past, n.seg)
    BY <1>1, <2>1 DEF RecVideoPlays
  <2>3. t = "video" /\ RecNoVideo(RecGather(s)) => x.sync
    <3>1. RecNoVideo(RecGather(s)) => "video" \notin rec.begun
      BY <1>3, <1>7, <2>1 DEF RecHeldFits
    <3> QED
      BY <1>4, <1>8, <3>1 DEF RecPlayable
  <2>4. n.hasVideo /\ t # "video" => ~RecNoVideo(RecGather(s))
    BY <1>4, <1>7, <2>1
  <2> QED
    BY <1>1, <2>2, <2>3, <2>4
<1>9. RecTsMid(n, t, x, now)
  BY <1>1, <1>3, <1>6, <1>8 DEF RecTsMid
<1> QED
  BY <1>1, <1>2, <1>9

\* The segment that the sample goes to, or the failure to make it.
RecTsOpened(n, a, t, x, now) ==
    /\ n \in RecRecord /\ RecTsKeeps(n, a, t)
    /\ \/ RecTsMid(n, t, x, now)
       \/ n.inst = "failed" /\ ~now /\ RecFits(n, now) /\ n.setup = rec.setup

LEMMA RecTsRotates ==
    ASSUME NEW now \in BOOLEAN, RecReady(now), NEW t \in RecTracks, NEW a \in RecRecord, NEW x \in RecSamples,
           RecAccepts(a, t, x), rec.setup[1] # "fmp4", NEW k \in RecRecord, RecTsKeeps(k, a, t),
           k.past = rec.past, k.inst = "on", ~k.failed, k.seg = rec.seg, rec.seg # RecNoSegment,
           RecRotates(k, t, x), NEW fail \in RecFaults, now => fail = "none"
    PROVE  RecTsOpened(RecRotate([k EXCEPT !.seg.end = x.dts], x.dts, fail), a, t, x, now)
<1> DEFINE s == [rec.seg EXCEPT !.end = x.dts]
           r == [k EXCEPT !.seg.end = x.dts]
           n == RecRotate(r, x.dts, fail)
<1>1. /\ rec.seg \in RecSegments /\ RecQuiet(rec.seg) /\ RecFileFits(rec.seg, RecIsFmp4, rec.units)
      /\ RecPastFits(rec.past, RecIsFmp4, rec.units, now) /\ rec.units \in 0..RecMaxUnits /\ RecMaxUnits \in Nat
      /\ RecPlayable(rec) => RecVideoPlays(rec.past, rec.seg)
      /\ RecIsFmp4 \in BOOLEAN
  <2>1. rec.seg \in RecSegments \cup {RecNoSegment} /\ rec.units \in 0..RecMaxUnits /\ RecMaxUnits \in Nat
    BY RecRecordFields DEF RecReady
  <2> QED
    BY <2>1 DEF RecReady, RecFits, RecIsFmp4, RecSegFits
<1>2. rec.units \in Nat /\ x.dts \in Nat
  BY <1>1, RecSampleIs
<1>3. /\ s \in RecSegments /\ s.start = rec.seg.start /\ RecQuiet(s) /\ RecFileFits(s, RecIsFmp4, rec.units)
      /\ RecGather(s) = RecGather(rec.seg) /\ (RecPlaysOn(rec.seg) => RecPlaysOn(s)) /\ s.end = x.dts
  BY <1>1, <1>2, RecTsTouchIs
<1>4. r = [k EXCEPT !.seg = s]
  BY <1>1 DEF RecRecord
<1> HIDE DEF r, s
<1>5. r \in RecRecord /\ RecSameRest(r, k) /\ r.seg = s /\ r.past = k.past /\ r.inst = "on" /\ ~r.failed
  BY <1>3, <1>4, RecSegChange
<1>6. s.end - s.start >= RecSegment
  BY <1>3 DEF RecRotates
<1>7. /\ RecRotated(n, r, x.dts, RecIsFmp4, rec.units, now /\ fail = "none")
      /\ fail = "none" => n.inst = "on"
  <2>1. RecPastFits(r.past, RecIsFmp4, rec.units, now)
    BY <1>1, <1>5
  <2> HIDE DEF n
  <2> QED
    BY <1>1, <1>2, <1>3, <1>5, <1>6, <2>1, RecRotateIs DEF n
<1>8. (now /\ fail = "none") = now
  OBVIOUS
<1> HIDE DEF n
<1>9. /\ n \in RecRecord /\ RecSameRest(n, r)
      /\ (n.inst = "failed" /\ n.failed) \/ (n.inst = "on" /\ ~n.failed)
      /\ n.seg \in RecSegments
      /\ RecSegFits(n.seg, RecIsFmp4, rec.units, n.inst, now)
      /\ RecPastFits(n.past, RecIsFmp4, rec.units, now)
      /\ RecVideoPlays(r.past, r.seg) => RecVideoPlays(n.past, n.seg)
      /\ n.inst = "on" => /\ n.seg.start = x.dts /\ RecGather(n.seg) = << >> /\ RecQuiet(n.seg)
                          /\ \A id : RecInSegment(n.seg, RecIsFmp4, id) + RecInPast(n.past, id)
                                     = RecInSegment(r.seg, RecIsFmp4, id) + RecInPast(r.past, id)
  <2>1. RecRotated(n, r, x.dts, RecIsFmp4, rec.units, now)
    BY <1>7, <1>8
  <2> QED
    BY <1>5, <2>1 DEF RecRotated
<1>10. RecTsKeeps(n, a, t)
  <2>1. RecSameRest(n, r) /\ RecSameRest(r, k) /\ n \in RecRecord
    BY <1>5, <1>9
  <2> QED
    BY <2>1 DEF RecTsKeeps, RecSameRest
<1>11. RecPlayable(rec) => RecVideoPlays(n.past, n.seg)
  <2>1. RecVideoPlays(rec.past, rec.seg) => RecVideoPlays(r.past, r.seg)
    BY <1>3, <1>5 DEF RecVideoPlays
  <2> QED
    BY <1>1, <1>9, <2>1
<1>12. n.seg # RecNoSegment /\ n.seg.created \in 0..1 /\ ~n.seg.rotated /\ RecFileFits(n.seg, RecIsFmp4, rec.units)
  BY <1>9, RecSegmentFields DEF RecSegFits
<1>13. CASE n.inst = "on"
  <2>1. ASSUME NEW id
        PROVE  RecInSegment(n.seg, RecIsFmp4, id) + RecInPast(n.past, id)
               = RecInSegment(rec.seg, RecIsFmp4, id) + RecInPast(rec.past, id)
    <3>1. s.fd # "shut" /\ rec.seg.fd # "shut"
      BY <1>1, <1>3 DEF RecQuiet
    <3>2. RecInSegment(s, RecIsFmp4, id) = RecInSegment(rec.seg, RecIsFmp4, id)
      BY <1>1, <1>3, <3>1, RecSegmentCount
    <3> QED
      BY <1>5, <1>9, <1>13, <3>2
  <2>2. t = "video" => x.sync
    BY DEF RecRotates
  <2>3. n.hasVideo /\ t # "video" => ~RecNoVideo(RecGather(n.seg))
    <3>1. t # "video" => ~k.hasVideo
      BY DEF RecRotates
    <3>2. n.hasVideo = k.hasVideo
      BY <1>5, <1>9 DEF RecSameRest
    <3> QED
      BY <3>1, <3>2
  <2>4. RecTsMid(n, t, x, now)
    BY <1>9, <1>11, <1>12, <1>13, <2>1, <2>2, <2>3 DEF RecTsMid
  <2> QED
    BY <1>9, <1>10, <2>4 DEF RecTsOpened, n, r
<1>14. CASE n.inst # "on"
  <2>1. n.inst = "failed" /\ n.failed /\ ~now
    BY <1>7, <1>9, <1>14
  <2>2. RecFileFits(n.seg, RecIsFmp4, rec.units + 1)
    <3>1. rec.units + 1 \in Nat /\ rec.units <= rec.units + 1
      BY <1>2
    <3> QED
      BY <1>2, <1>9, <1>12, <3>1, RecFileFitsStill
  <2>3. RecFits(n, now) /\ n.setup = rec.setup
    BY <1>9, <1>10, <1>11, <1>12, <2>1, <2>2, RecTsFailFits
  <2> QED
    BY <1>9, <1>10, <2>1, <2>3 DEF RecTsOpened, n, r
<1> QED
  BY <1>13, <1>14

\* The segment before the sample, whichever way it came to be.
LEMMA RecTsOpens ==
    ASSUME NEW now \in BOOLEAN, RecReady(now), NEW t \in RecTracks, NEW a \in RecRecord, NEW x \in RecSamples,
           RecAccepts(a, t, x), rec.setup[1] # "fmp4", NEW k \in RecRecord, RecTsKeeps(k, a, t),
           k.past = rec.past, k.inst = "on", ~k.failed, k.seg = rec.seg,
           NEW fail \in RecFaults, now => fail = "none",
           NEW rotates \in BOOLEAN, rotates => k.seg # RecNoSegment /\ RecRotates(k, t, x),
           NEW due \in BOOLEAN, NEW f, f = RecFlush(k.seg, fail),
           NEW open, open = IF k.seg = RecNoSegment THEN [k EXCEPT !.seg = RecNewSegment(x.dts, << >>)]
                            ELSE IF rotates THEN RecRotate([k EXCEPT !.seg.end = x.dts], x.dts, fail)
                            ELSE IF ~due THEN k
                            ELSE IF f.ok THEN [k EXCEPT !.seg = [f.seg EXCEPT !.flushed = x.dts]]
                            ELSE RecFail([k EXCEPT !.seg = f.seg])
    PROVE  RecTsOpened(open, a, t, x, now)
<1>1. /\ rec.seg \in RecSegments \cup {RecNoSegment} /\ rec.units \in Nat /\ x.dts \in Nat
      /\ rec.seg # RecNoSegment => /\ RecQuiet(rec.seg) /\ RecFileFits(rec.seg, RecIsFmp4, rec.units)
                                   /\ rec.seg.created \in 0..1 /\ ~rec.seg.rotated
      /\ RecIsFmp4 \in BOOLEAN
  <2>1. rec.seg \in RecSegments \cup {RecNoSegment} /\ rec.units \in 0..RecMaxUnits /\ RecMaxUnits \in Nat
    BY RecRecordFields DEF RecReady
  <2>2. rec.units \in Nat /\ x.dts \in Nat
    BY <2>1, RecSampleIs
  <2> QED
    BY <2>1, <2>2 DEF RecReady, RecFits, RecIsFmp4, RecSegFits
<1>2. CASE k.seg = RecNoSegment
  <2> DEFINE s == RecNewSegment(x.dts, << >>)
  <2>1. s \in RecSegments /\ RecQuiet(s) /\ RecFileFits(s, RecIsFmp4, rec.units) /\ RecGather(s) = << >> /\ RecPlaysOn(s)
    BY <1>1, RecNewIs
  <2>2. open = [k EXCEPT !.seg = s]
    BY <1>2
  <2> HIDE DEF s
  <2> QED
    BY <1>2, <2>1, <2>2, RecTsMidWith DEF RecTsOpened
<1>3. CASE k.seg # RecNoSegment /\ rotates
  <2>1. open = RecRotate([k EXCEPT !.seg.end = x.dts], x.dts, fail)
    BY <1>3
  <2>2. RecRotates(k, t, x) /\ rec.seg # RecNoSegment
    BY <1>3
  <2>3. RecTsOpened(RecRotate([k EXCEPT !.seg.end = x.dts], x.dts, fail), a, t, x, now)
    BY <2>2, RecTsRotates
  <2> QED
    BY <2>1, <2>3
<1>4. CASE k.seg # RecNoSegment /\ ~rotates /\ ~due
  <2>1. open = k /\ rec.seg # RecNoSegment /\ rec.seg \in RecSegments
    BY <1>1, <1>4
  <2>2. k = [k EXCEPT !.seg = rec.seg]
    BY DEF RecRecord
  <2> QED
    BY <1>1, <2>1, <2>2, RecTsMidWith DEF RecTsOpened
<1>5. CASE k.seg # RecNoSegment /\ ~rotates /\ due
  <2>1. rec.seg # RecNoSegment /\ rec.seg \in RecSegments
    BY <1>1, <1>5
  <2>2. /\ f.seg \in RecSegments /\ f.ok \in BOOLEAN /\ f.seg.start = rec.seg.start
        /\ ~f.seg.rotated /\ f.seg.created \in 0..1
        /\ RecFileFits(f.seg, RecIsFmp4, rec.units)
        /\ f.ok => RecQuiet(f.seg) /\ RecGather(f.seg) = RecGather(rec.seg)
        /\ RecPlaysOn(rec.seg) => RecPlaysOn(f.seg)
        /\ fail = "none" => f.ok
    BY <1>1, <2>1, RecTsFlushIs
  <2>3. CASE f.ok
    <3> DEFINE v == [f.seg EXCEPT !.flushed = x.dts]
    <3>1. /\ v \in RecSegments /\ RecQuiet(v) /\ RecFileFits(v, RecIsFmp4, rec.units)
          /\ RecGather(v) = RecGather(f.seg) /\ (RecPlaysOn(f.seg) => RecPlaysOn(v))
      BY <1>1, <2>2, <2>3, RecTsTouchIs
    <3>2. open = [k EXCEPT !.seg = v]
      BY <1>5, <2>3
    <3> HIDE DEF v
    <3>3. RecGather(v) = RecGather(rec.seg) /\ (RecPlaysOn(rec.seg) => RecPlaysOn(v))
      BY <2>2, <2>3, <3>1
    <3> QED
      BY <2>1, <3>1, <3>2, <3>3, RecTsMidWith DEF RecTsOpened
  <2>4. CASE ~f.ok
    <3>1. open = RecFail([k EXCEPT !.seg = f.seg]) /\ ~now
      BY <1>5, <2>2, <2>4
    <3>2. /\ open \in RecRecord /\ RecSameRest(open, k) /\ open.seg = f.seg /\ open.past = k.past
          /\ open.inst = "failed" /\ open.failed
      <4> DEFINE l == RecFail([k EXCEPT !.seg = f.seg])
      <4>1. /\ l \in RecRecord /\ RecSameRest(l, k) /\ l.seg = f.seg /\ l.past = k.past
            /\ l.inst = "failed" /\ l.failed
        BY <2>2, RecSegChange
      <4> HIDE DEF l
      <4>2. open = l
        BY <3>1 DEF l
      <4> QED
        BY <4>1, <4>2
    <3>3. RecTsKeeps(open, a, t)
      BY <3>2 DEF RecTsKeeps, RecSameRest
    <3>4. RecFileFits(open.seg, RecIsFmp4, rec.units + 1)
      <4>1. rec.units + 1 \in Nat /\ rec.units <= rec.units + 1
        BY <1>1
      <4> QED
        BY <1>1, <2>2, <3>2, <4>1, RecFileFitsStill
    <3>5. /\ RecPastFits(rec.past, RecIsFmp4, rec.units, now)
          /\ RecPlayable(rec) => RecVideoPlays(rec.past, rec.seg)
      BY DEF RecReady, RecFits, RecIsFmp4
    <3>6. RecPlayable(rec) => RecVideoPlays(open.past, open.seg)
      BY <2>1, <2>2, <3>2, <3>5 DEF RecVideoPlays
    <3>7. RecFits(open, now) /\ open.setup = rec.setup
      BY <2>2, <3>1, <3>2, <3>3, <3>4, <3>5, <3>6, RecTsFailFits
    <3> QED
      BY <3>1, <3>2, <3>3, <3>7 DEF RecTsOpened
  <2> QED
    BY <2>2, <2>3, <2>4
<1> QED
  BY <1>2, <1>3, <1>4, <1>5

\* The buffer of s, which x entered, is not full, or spills.
RecTsLeads(open, x, s, g, n) ==
    /\ s = [open.seg EXCEPT !.end = x.dts, !.part.samples = Append(@, x)]
    /\ \/ n = [open EXCEPT !.seg = s]
       \/ g.ok /\ n = [open EXCEPT !.seg = g.seg]
       \/ ~g.ok /\ n = RecFail([open EXCEPT !.seg = g.seg])

\* The sample enters the segment, whose buffer spills when it is full.
LEMMA RecTsEnters ==
    ASSUME NEW now \in BOOLEAN, RecReady(now), NEW t \in RecTracks, NEW a \in RecRecord, NEW x \in RecSamples,
           RecAccepts(a, t, x), rec.setup[1] # "fmp4", NEW open \in RecRecord, RecTsKeeps(open, a, t),
           RecTsMid(open, t, x, now), NEW fail \in RecFaults, now => fail = "none",
           NEW s, NEW g, g = RecFlush(s, fail), NEW n, RecTsLeads(open, x, s, g, n)
    PROVE  n \in RecRecord /\ RecFits(n, now) /\ n.setup = rec.setup
<1>1. rec.units \in Nat /\ rec.units + 1 \in Nat /\ x.id = rec.units + 1 /\ x.track = t
  <2>1. rec.units \in 0..RecMaxUnits /\ RecMaxUnits \in Nat
    BY RecRecordFields DEF RecReady
  <2> QED
    BY <2>1 DEF RecAccepts
<1>2. open.seg \in RecSegments /\ RecQuiet(open.seg) /\ RecFileFits(open.seg, RecIsFmp4, rec.units)
  BY DEF RecTsMid
<1>3. /\ s \in RecSegments /\ RecQuiet(s) /\ RecFileFits(s, RecIsFmp4, rec.units + 1)
      /\ RecGather(s) = Append(RecGather(open.seg), x) /\ s.samples = open.seg.samples
  BY <1>1, <1>2, RecTsAppendIs DEF RecTsLeads
<1>4. CASE n = [open EXCEPT !.seg = s]
  BY <1>3, <1>4, RecTsOnFits
<1>5. /\ g.seg \in RecSegments /\ g.ok \in BOOLEAN
      /\ ~g.seg.rotated /\ g.seg.created \in 0..1
      /\ RecFileFits(g.seg, RecIsFmp4, rec.units + 1)
      /\ g.ok => RecQuiet(g.seg) /\ RecGather(g.seg) = RecGather(s)
      /\ RecPlaysOn(s) => RecPlaysOn(g.seg)
      /\ fail = "none" => g.ok
  BY <1>1, <1>3, RecTsFlushIs
<1>6. CASE g.ok /\ n = [open EXCEPT !.seg = g.seg]
  <2>1. RecGather(g.seg) = Append(RecGather(open.seg), x)
    BY <1>3, <1>5, <1>6
  <2> QED
    BY <1>5, <1>6, <2>1, RecTsOnFits
<1>7. CASE ~g.ok /\ n = RecFail([open EXCEPT !.seg = g.seg])
  <2>1. /\ n \in RecRecord /\ RecSameRest(n, open) /\ n.seg = g.seg /\ n.past = open.past
        /\ n.inst = "failed" /\ n.failed
    BY <1>5, <1>7, RecSegChange
  <2>2. RecTsKeeps(n, a, t)
    BY <2>1 DEF RecTsKeeps, RecSameRest
  <2>3. ~now
    BY <1>5, <1>7
  <2>4. RecPastFits(n.past, RecIsFmp4, rec.units, now)
    BY <2>1 DEF RecTsMid
  <2>5. RecPlayable(rec) => RecVideoPlays(n.past, n.seg)
    <3> SUFFICES ASSUME RecPlayable(rec) PROVE RecVideoPlays(n.past, n.seg)
      OBVIOUS
    <3>1. /\ RecVideoPlays(open.past, open.seg)
          /\ t = "video" /\ RecNoVideo(RecGather(open.seg)) => x.sync
      BY DEF RecTsMid
    <3>2. RecGather(open.seg) \in Seq(RecSamples) /\ s.samples \in Seq(RecSamples) /\ open.seg # RecNoSegment
          /\ open.seg.fd # "shut" /\ s.part.samples \in Seq(RecSamples)
      BY <1>2, <1>3, RecSegmentFields DEF RecQuiet
    <3>3. RecPlays(RecGather(open.seg))
      BY <3>1, <3>2 DEF RecVideoPlays, RecPlaysOn
    <3>4. RecPlays(RecGather(s))
      <4>1. x.track = "video" /\ RecNoVideo(RecGather(open.seg)) => x.sync
        BY <1>1, <3>1
      <4>2. RecPlays(Append(RecGather(open.seg), x))
        BY <3>2, <3>3, <4>1, RecAppendIs
      <4> QED
        BY <1>3, <4>2
    <3>5. RecPlays(s.samples)
      BY <3>2, <3>4, RecConcatIs DEF RecGather
    <3>6. RecPlaysOn(g.seg)
      BY <1>5, <3>4, <3>5 DEF RecPlaysOn
    <3> QED
      BY <2>1, <3>1, <3>6 DEF RecVideoPlays
  <2> QED
    BY <1>5, <2>1, <2>2, <2>3, <2>4, <2>5, RecTsFailFits
<1> QED
  BY <1>4, <1>6, <1>7 DEF RecTsLeads

\* A unit of MPEG-TS.
LEMMA RecTsWriteFits ==
    ASSUME NEW clean \in BOOLEAN, RecReady(clean), NEW t \in RecTracks, NEW a \in RecRecord, NEW x \in RecSamples,
           RecAccepts(a, t, x), rec.setup[1] # "fmp4", NEW fail \in RecFaults
    PROVE  LET n == RecTsWrite(a, t, x, fail)
           IN  n \in RecRecord /\ RecFits(n, clean /\ fail = "none") /\ n.setup = rec.setup
<1> DEFINE now == clean /\ fail = "none"
           kept == [a EXCEPT !.hasVideo = @ \/ t = "video"]
           rotates == kept.seg # RecNoSegment /\ RecRotates(kept, t, x)
           due == kept.seg # RecNoSegment /\ ~rotates /\ x.dts - kept.seg.flushed >= RecPart
           f == RecFlush(kept.seg, fail)
           open == IF kept.seg = RecNoSegment THEN [kept EXCEPT !.seg = RecNewSegment(x.dts, << >>)]
                   ELSE IF rotates THEN RecRotate([kept EXCEPT !.seg.end = x.dts], x.dts, fail)
                   ELSE IF ~due THEN kept
                   ELSE IF f.ok THEN [kept EXCEPT !.seg = [f.seg EXCEPT !.flushed = x.dts]]
                   ELSE RecFail([kept EXCEPT !.seg = f.seg])
           s == [open.seg EXCEPT !.end = x.dts, !.part.samples = Append(@, x)]
           g == RecFlush(s, fail)
           n == RecTsWrite(a, t, x, fail)
<1>1. n = IF open.inst = "failed" THEN open
          ELSE IF Len(s.part.samples) < RecBuffer THEN [open EXCEPT !.seg = s]
          ELSE IF g.ok THEN [open EXCEPT !.seg = g.seg]
          ELSE RecFail([open EXCEPT !.seg = g.seg])
  BY DEF RecTsWrite
<1>2. now \in BOOLEAN /\ (now => fail = "none") /\ RecReady(now)
  <2> DEFINE b == now
  <2>1. b \in BOOLEAN /\ (b => clean) /\ (b => fail = "none") /\ (b <=> clean /\ fail = "none")
    OBVIOUS
  <2> HIDE DEF b
  <2>2. RecReady(b)
    BY <2>1, RecFitsLess DEF RecReady
  <2> QED
    BY <2>1, <2>2 DEF b
<1>3. RecTsKeeps(kept, a, t) /\ kept.seg = a.seg /\ kept.past = a.past /\ kept.inst = a.inst /\ kept.failed = a.failed
  BY RecTsKeptIs
<1> HIDE DEF now, kept
<1>4. kept \in RecRecord /\ kept.seg = rec.seg /\ kept.past = rec.past /\ kept.inst = "on" /\ ~kept.failed
  BY <1>3 DEF RecTsKeeps, RecAccepts
<1>5. RecTsOpened(open, a, t, x, now)
  <2>1. /\ open = IF kept.seg = RecNoSegment THEN [kept EXCEPT !.seg = RecNewSegment(x.dts, << >>)]
                   ELSE IF rotates THEN RecRotate([kept EXCEPT !.seg.end = x.dts], x.dts, fail)
                   ELSE IF ~due THEN kept
                   ELSE IF f.ok THEN [kept EXCEPT !.seg = [f.seg EXCEPT !.flushed = x.dts]]
                   ELSE RecFail([kept EXCEPT !.seg = f.seg])
        /\ (rotates => kept.seg # RecNoSegment /\ RecRotates(kept, t, x)) /\ f = RecFlush(kept.seg, fail)
        /\ rotates \in BOOLEAN /\ due \in BOOLEAN
    BY DEF RecRotates
  <2> HIDE DEF open, rotates, due, f
  <2> QED
    BY <1>2, <1>3, <1>4, <2>1, RecTsOpens
<1> HIDE DEF open, n
<1>6. CASE open.inst = "failed"
  <2>1. n = open /\ ~RecTsMid(open, t, x, now)
    BY <1>1, <1>6 DEF RecTsMid
  <2> QED
    BY <1>5, <2>1 DEF RecTsOpened, n, now
<1>7. CASE open.inst # "failed"
  <2>1. RecTsMid(open, t, x, now) /\ RecTsKeeps(open, a, t) /\ open \in RecRecord
    BY <1>5, <1>7 DEF RecTsOpened
  <2>2. RecTsLeads(open, x, s, g, n) /\ g = RecFlush(s, fail)
    BY <1>1, <1>7 DEF RecTsLeads
  <2> HIDE DEF s, g
  <2>3. n \in RecRecord /\ RecFits(n, now) /\ n.setup = rec.setup
    BY <1>2, <2>1, <2>2, RecTsEnters
  <2> QED
    BY <2>3 DEF n, now
<1> QED
  BY <1>6, <1>7

----------------------------------------------------------------------------
(* The actions of the recorder.                                            *)

\* The inductive invariant: the record as a whole is typed and fits, knowing whether any operation failed.
RecInv == RecMaxUnits \in Nat /\ rec \in RecRecord /\ RecFits(rec, rec.faults = 0)

\* A step that leaves the samples where they are: units go by, the instance may fail.
LEMMA RecSameFits ==
    ASSUME RecMaxUnits \in Nat, NEW r \in RecRecord, NEW clean \in BOOLEAN, NEW now \in BOOLEAN, now => clean,
           RecFits(r, clean), r.setup = rec.setup, NEW n \in RecRecord,
           n.setup = r.setup, n.past = r.past, n.late = r.late, n.pending = r.pending, n.seg = r.seg,
           n.begun = r.begun, n.hasVideo = r.hasVideo, n.accepted = r.accepted, r.units <= n.units,
           (n.inst = r.inst /\ n.failed = r.failed) \/ (n.inst = "failed" /\ n.failed /\ r.inst # "done")
    PROVE  RecFits(n, now)
<1>1. /\ r.units \in Nat /\ n.units \in Nat /\ r.pending \in [RecTracks -> RecSamples \cup {RecNone}]
      /\ r.late \subseteq RecSamples /\ r.past \in Seq(RecSegments) /\ r.seg \in RecSegments \cup {RecNoSegment}
  <2>1. r.units \in 0..RecMaxUnits /\ n.units \in 0..RecMaxUnits
    BY RecRecordFields
  <2> QED
    BY <2>1, RecRecordFields
<1>2. /\ RecHeldFits(r) /\ RecSegFits(r.seg, RecIsFmp4, r.units, r.inst, clean)
      /\ RecPastFits(r.past, RecIsFmp4, r.units, clean)
      /\ RecPlayable(r) => RecVideoPlays(r.past, r.seg) /\ RecVideoNext(r)
      /\ ~r.failed /\ clean => \A id \in r.accepted : RecOnce(r, RecIsFmp4, id)
  BY DEF RecFits, RecIsFmp4
<1>3. RecHeldFits(n)
  <2>1. \A t \in RecTracks : n.pending[t] # RecNone => n.pending[t].track = t /\ n.pending[t].id <= n.units
    <3> SUFFICES ASSUME NEW t \in RecTracks, n.pending[t] # RecNone
                 PROVE  n.pending[t].track = t /\ n.pending[t].id <= n.units
      OBVIOUS
    <3>1. r.pending[t] \in RecSamples /\ r.pending[t].track = t /\ r.pending[t].id <= r.units
      BY <1>1, <1>2 DEF RecHeldFits
    <3>2. r.pending[t].id \in Nat
      BY <3>1, RecSampleIs
    <3> QED
      BY <1>1, <3>1, <3>2
  <2>2. IsFiniteSet(n.late) /\ \A x \in n.late : x.id <= n.units
    <3>1. IsFiniteSet(r.late) /\ \A x \in r.late : x.id <= r.units /\ x.id \in Nat
      BY <1>1, <1>2, RecSampleIs DEF RecHeldFits
    <3> QED
      BY <1>1, <3>1
  <2>3. n.accepted \subseteq 1..n.units
    BY <1>1, <1>2 DEF RecHeldFits
  <2>4. (n.inst = "on" => ~n.failed) /\ (n.inst = "failed" => n.failed)
    BY <1>2 DEF RecHeldFits
  <2>5. /\ n.setup[1] # "fmp4" => n.late = {} /\ \A t \in RecTracks : n.pending[t] = RecNone
        /\ n.setup[1] = "fmp4" => \A t \in RecTracks : t \in n.begun <=> n.pending[t] # RecNone
        /\ n.hasVideo <=> "video" \in n.begun
    BY <1>2 DEF RecHeldFits
  <2> QED
    BY <2>1, <2>2, <2>3, <2>4, <2>5 DEF RecHeldFits
<1>4. RecSegFits(n.seg, RecIsFmp4, n.units, n.inst, now)
  <2>1. RecSegFits(n.seg, RecIsFmp4, n.units, r.inst, now)
    BY <1>1, <1>2, RecSegStill
  <2> QED
    BY <2>1 DEF RecSegFits
<1>5. RecPastFits(n.past, RecIsFmp4, n.units, now)
  BY <1>1, <1>2, RecPastStill
<1>6. RecPlayable(n) => RecVideoPlays(n.past, n.seg) /\ RecVideoNext(n)
  BY <1>2 DEF RecPlayable, RecVideoNext
<1>7. ~n.failed /\ now => \A id \in n.accepted : RecOnce(n, RecIsFmp4, id)
  BY <1>2 DEF RecOnce
<1> QED
  BY <1>3, <1>4, <1>5, <1>6, <1>7 DEF RecFits, RecIsFmp4

\* Writing leaves the count of faults to RecData.
RecCounts(n, f) == "faults" \in DOMAIN n /\ n.faults = f

LEMMA RecCountsStill ==
    ASSUME NEW n, NEW f, RecCounts(n, f), NEW e, NEW d
    PROVE  /\ RecCounts([n EXCEPT !.seg = e], f) /\ RecCounts(RecFail(n), f) /\ RecCounts([n EXCEPT !.late = e], f)
           /\ RecCounts([n EXCEPT !.hasVideo = e], f) /\ RecCounts([n EXCEPT !.hasVideo = e, !.pending = d], f)
           /\ RecCounts([n EXCEPT !.past = e, !.seg = d], f)
  BY DEF RecCounts, RecFail

LEMMA RecRotateCounts ==
    ASSUME NEW n, NEW f, RecCounts(n, f), NEW start, NEW fail
    PROVE  RecCounts(RecRotate(n, start, fail), f)
<1> DEFINE c == RecSegmentClose(n.seg, fail)
           done == [c.seg EXCEPT !.rotated = TRUE]
           past == IF done.created > 0 THEN Append(n.past, done) ELSE n.past
           new == RecNewSegment(start, IF RecIsFmp4 THEN << >> ELSE done.part.samples)
<1>1. RecRotate(n, start, fail) = IF ~c.ok THEN RecFail([n EXCEPT !.seg = c.seg])
                                  ELSE [n EXCEPT !.past = IF done.created > 0 THEN Append(@, done) ELSE @, !.seg = new]
  BY DEF RecRotate
<1> HIDE DEF c, new
<1>2. [n EXCEPT !.past = IF done.created > 0 THEN Append(@, done) ELSE @, !.seg = new]
      = [n EXCEPT !.past = past, !.seg = new]
  OBVIOUS
<1> HIDE DEF past, done
<1>3. RecCounts([n EXCEPT !.seg = c.seg], f) /\ RecCounts([n EXCEPT !.past = past, !.seg = new], f)
  BY RecCountsStill
<1>4. RecCounts(RecFail([n EXCEPT !.seg = c.seg]), f)
  BY <1>3, RecCountsStill
<1> QED
  BY <1>1, <1>2, <1>3, <1>4

LEMMA RecFmp4Counts ==
    ASSUME NEW a \in RecRecord, NEW f, RecCounts(a, f), NEW t, NEW x, NEW fail
    PROVE  RecCounts(RecFmp4Write(a, t, x, fail), f)
<1> DEFINE held == a.pending[t]
           next == IF held # RecNone /\ x.dts < held.dts THEN [x EXCEPT !.dts = held.dts] ELSE x
           x1 == [held EXCEPT !.duration = next.dts - held.dts]
           k == [a EXCEPT !.hasVideo = @ \/ t = "video", !.pending[t] = next]
           open == IF k.seg = RecNoSegment THEN [k EXCEPT !.seg = RecNewSegment(x1.dts, << >>)] ELSE k
           w == RecSegmentWrite(open.seg, x1, fail)
           wr == [open EXCEPT !.seg = w.seg]
<1>0. RecFmp4Write(a, t, x, fail)
        = IF held = RecNone THEN k
          ELSE IF RecTooLate(k, x1.dts) THEN [k EXCEPT !.late = @ \cup {held}]
          ELSE IF ~w.ok THEN RecFail(wr)
          ELSE IF RecRotates(wr, t, next) THEN RecRotate(wr, RecNextStart(wr.pending), fail)
          ELSE wr
  BY DEF RecFmp4Write
<1> HIDE DEF x1
<1>1. RecCounts(k, f)
  <2> HIDE DEF next
  <2> DEFINE h == a.hasVideo \/ t = "video"
             p == [a.pending EXCEPT ![t] = next]
  <2>1. k = [a EXCEPT !.hasVideo = h, !.pending = p]
    BY DEF RecRecord
  <2> HIDE DEF k, h, p
  <2> QED
    BY <2>1, RecCountsStill
<1> HIDE DEF k, next, held
<1>2. RecCounts(open, f)
  BY <1>1, RecCountsStill
<1> HIDE DEF open
<1>3. RecCounts(wr, f)
  BY <1>2, RecCountsStill
<1> HIDE DEF wr
<1>4. RecCounts(RecFail(wr), f) /\ RecCounts(RecRotate(wr, RecNextStart(wr.pending), fail), f)
  BY <1>3, RecCountsStill, RecRotateCounts
<1>5. RecCounts([k EXCEPT !.late = @ \cup {held}], f)
  <2> DEFINE e == k.late \cup {held}
  <2>1. RecCounts([k EXCEPT !.late = e], f)
    <3> HIDE DEF e
    <3> QED
      BY <1>1, RecCountsStill
  <2> QED
    BY <2>1
<1> QED
  BY <1>0, <1>1, <1>3, <1>4, <1>5

LEMMA RecTsCounts ==
    ASSUME NEW a \in RecRecord, NEW f, RecCounts(a, f), NEW t, NEW x, NEW fail
    PROVE  RecCounts(RecTsWrite(a, t, x, fail), f)
<1> DEFINE kept == [a EXCEPT !.hasVideo = @ \/ t = "video"]
           rotates == kept.seg # RecNoSegment /\ RecRotates(kept, t, x)
           due == kept.seg # RecNoSegment /\ ~rotates /\ x.dts - kept.seg.flushed >= RecPart
           g0 == RecFlush(kept.seg, fail)
           ended == [kept EXCEPT !.seg.end = x.dts]
           open == IF kept.seg = RecNoSegment THEN [kept EXCEPT !.seg = RecNewSegment(x.dts, << >>)]
                   ELSE IF rotates THEN RecRotate(ended, x.dts, fail)
                   ELSE IF ~due THEN kept
                   ELSE IF g0.ok THEN [kept EXCEPT !.seg = [g0.seg EXCEPT !.flushed = x.dts]]
                   ELSE RecFail([kept EXCEPT !.seg = g0.seg])
           s == [open.seg EXCEPT !.end = x.dts, !.part.samples = Append(@, x)]
           g == RecFlush(s, fail)
<1>1. RecTsWrite(a, t, x, fail) = IF open.inst = "failed" THEN open
          ELSE IF Len(s.part.samples) < RecBuffer THEN [open EXCEPT !.seg = s]
          ELSE IF g.ok THEN [open EXCEPT !.seg = g.seg]
          ELSE RecFail([open EXCEPT !.seg = g.seg])
  BY DEF RecTsWrite
<1>2. RecCounts(kept, f)
  <2> DEFINE h == a.hasVideo \/ t = "video"
  <2>1. kept = [a EXCEPT !.hasVideo = h]
    OBVIOUS
  <2> HIDE DEF kept, h
  <2> QED
    BY <2>1, RecCountsStill
<1> HIDE DEF kept, rotates, due, g0
<1>3. RecCounts(ended, f)
  BY <1>2 DEF RecCounts
<1> HIDE DEF ended
<1>4. RecCounts(open, f)
  <2>1. RecCounts(RecRotate(ended, x.dts, fail), f)
    BY <1>3, RecRotateCounts
  <2>2. RecCounts([kept EXCEPT !.seg = RecNewSegment(x.dts, << >>)], f) /\ RecCounts([kept EXCEPT !.seg = g0.seg], f)
        /\ RecCounts([kept EXCEPT !.seg = [g0.seg EXCEPT !.flushed = x.dts]], f)
    BY <1>2, RecCountsStill
  <2>3. RecCounts(RecFail([kept EXCEPT !.seg = g0.seg]), f)
    BY <2>2, RecCountsStill
  <2> QED
    BY <1>2, <2>1, <2>2, <2>3
<1> HIDE DEF open, s, g
<1>5. RecCounts([open EXCEPT !.seg = s], f) /\ RecCounts([open EXCEPT !.seg = g.seg], f)
  BY <1>4, RecCountsStill
<1>6. RecCounts(RecFail([open EXCEPT !.seg = g.seg]), f)
  BY <1>5, RecCountsStill
<1> QED
  BY <1>1, <1>4, <1>5, <1>6

\* What RecRotationKeeps says of a next record n.
RecStartsInTime(n) ==
    n.seg # RecNoSegment /\ rec.seg # RecNoSegment /\ n.seg.start # rec.seg.start =>
        \A u, v \in RecTracks :
            n.pending[u] # RecNone /\ n.pending[v] # RecNone
            /\ (\A w \in RecTracks : n.pending[w] # RecNone => n.pending[w].dts <= n.pending[v].dts)
            /\ n.pending[v].dts - n.pending[u].dts <= RecTolerance
            => n.seg.start <= n.pending[u].dts

\* A unit is not ignored: video begins with a sync sample.
LEMMA RecGateHolds ==
    ASSUME rec.setup \in RecKnownSetups, rec.setup[2] # "skip", NEW t \in RecTracks, NEW sync \in BOOLEAN,
           RecSyncAlways(t) => sync, ~RecIgnored(t, sync), t = "video", "video" \notin rec.begun,
           rec.setup # <<"mpegts", "mpeg">>
    PROVE  sync
<1>1. CASE RecGated
  BY <1>1 DEF RecIgnored
<1>2. CASE ~RecGated
  <2>1. rec.setup = <<"fmp4", "jpeg">>
    BY <1>2 DEF RecGated, RecKnownSetups
  <2> QED
    BY <2>1 DEF RecSyncAlways
<1> QED
  BY <1>1, <1>2

\* The callback of a unit.
LEMMA RecReceivedFits ==
    ASSUME RecInv, rec.inst = "on", NEW t \in RecTracks, NEW dts \in Nat, NEW sync \in BOOLEAN,
           RecSyncAlways(t) => sync, rec.units < RecMaxUnits, NEW fail \in RecFaults,
           rec.setup \in RecKnownSetups, rec.setup[2] # "skip"
    PROVE  LET n == RecReceived(t, dts, sync, fail)
           IN  /\ n \in RecRecord /\ RecFits(n, rec.faults = 0 /\ fail = "none") /\ n.setup = rec.setup
               /\ n.faults = rec.faults /\ (rec.setup[1] = "fmp4" => RecStartsInTime(n))
<1> DEFINE clean == rec.faults = 0
           now == clean /\ fail = "none"
           u == rec.units + 1
           x == [id |-> rec.units + 1, track |-> t, dts |-> dts, duration |-> 0, sync |-> sync]
           r == [rec EXCEPT !.units = @ + 1]
           a == [r EXCEPT !.begun = @ \cup {t}, !.last[t] = dts, !.accepted = @ \cup {x.id}]
           n == RecReceived(t, dts, sync, fail)
<1>1. n = IF RecIgnored(t, sync) THEN r
          ELSE IF t = "video" /\ RecOrdered /\ dts < rec.last[t] THEN RecFail(r)
          ELSE IF rec.setup[1] = "fmp4" THEN RecFmp4Write(a, t, x, fail)
          ELSE RecTsWrite(a, t, x, fail)
  BY DEF RecReceived, RecIsFmp4
<1>2. /\ RecMaxUnits \in Nat /\ rec \in RecRecord /\ rec.units \in 0..RecMaxUnits /\ clean \in BOOLEAN /\ now \in BOOLEAN
      /\ RecFits(rec, clean) /\ (now => clean)
  BY RecRecordFields DEF RecInv
<1>3. RecReady(clean)
  BY <1>2 DEF RecReady
<1>4. u \in 0..RecMaxUnits /\ u \in Nat \ {0} /\ rec.units <= u /\ rec.units \in Nat
  BY <1>2
<1>5. r = [rec EXCEPT !.units = u]
  BY DEF RecRecord
<1> HIDE DEF r, n, now, clean
<1>6. /\ r \in RecRecord /\ r.units = u /\ r.setup = rec.setup /\ r.past = rec.past /\ r.late = rec.late
      /\ r.pending = rec.pending /\ r.seg = rec.seg /\ r.begun = rec.begun /\ r.hasVideo = rec.hasVideo
      /\ r.accepted = rec.accepted /\ r.inst = "on" /\ r.failed = rec.failed /\ r.faults = rec.faults
      /\ r.last = rec.last
  <2> HIDE DEF u
  <2> QED
    BY <1>2, <1>4, <1>5 DEF RecRecord
<1>7. RecCounts(r, rec.faults)
  BY <1>2, <1>5 DEF RecCounts, RecRecord
<1>8. CASE RecIgnored(t, sync)
  <2>1. n = r
    BY <1>1, <1>8
  <2>2. RecFits(r, now)
    BY <1>2, <1>4, <1>6, RecSameFits
  <2> QED
    BY <1>6, <2>1, <2>2 DEF n, now, clean, RecStartsInTime
<1>9. CASE ~RecIgnored(t, sync) /\ t = "video" /\ RecOrdered /\ dts < rec.last[t]
  <2>1. n = RecFail(r)
    BY <1>1, <1>9
  <2>2. /\ n \in RecRecord /\ n.units = u /\ n.setup = rec.setup /\ n.past = rec.past /\ n.late = rec.late
        /\ n.pending = rec.pending /\ n.seg = rec.seg /\ n.begun = rec.begun /\ n.hasVideo = rec.hasVideo
        /\ n.accepted = rec.accepted /\ n.inst = "failed" /\ n.failed /\ n.faults = rec.faults
    BY <1>6, <2>1 DEF RecFail, RecRecord, RecInsts
  <2>3. RecFits(n, now)
    BY <1>2, <1>4, <2>2, RecSameFits
  <2> QED
    BY <2>2, <2>3 DEF n, now, clean, RecStartsInTime
<1>10. CASE ~RecIgnored(t, sync) /\ ~(t = "video" /\ RecOrdered /\ dts < rec.last[t])
  <2> DEFINE b == rec.begun \cup {t}
             l == [rec.last EXCEPT ![t] = dts]
             c == rec.accepted \cup {x.id}
  <2>1. a = [r EXCEPT !.begun = b, !.last = l, !.accepted = c]
    BY <1>6
  <2>2. x \in RecSamples /\ x.id = u /\ x.track = t /\ x.sync = sync
    BY <1>4 DEF RecSamples
  <2> HIDE DEF x
  <2>3. b \subseteq RecTracks /\ l \in [RecTracks -> Nat \cup {-1}] /\ c \subseteq Nat
    BY <1>2, <1>4, <2>2, RecRecordFields
  <2> HIDE DEF b, l, c, a
  <2>4. /\ a \in RecRecord /\ a.units = u /\ a.setup = rec.setup /\ a.past = rec.past /\ a.late = rec.late
        /\ a.pending = rec.pending /\ a.seg = rec.seg /\ a.begun = b /\ a.hasVideo = rec.hasVideo
        /\ a.accepted = c /\ a.inst = "on" /\ a.failed = rec.failed
    <3> HIDE DEF u
    <3> QED
      BY <1>6, <2>1, <2>3 DEF RecRecord
  <2>5. RecCounts(a, rec.faults)
    BY <1>7, <2>1 DEF RecCounts
  <2>6. ~rec.failed
    BY <1>2 DEF RecFits, RecHeldFits
  <2>7. t = "video" /\ "video" \notin rec.begun /\ rec.setup # <<"mpegts", "mpeg">> => x.sync
    BY <1>10, <2>2, RecGateHolds
  <2>8. RecAccepts(a, t, x)
    BY <2>2, <2>4, <2>6, <2>7 DEF RecAccepts, b, c
  <2>9. CASE rec.setup[1] = "fmp4"
    <3>1. n = RecFmp4Write(a, t, x, fail)
      BY <1>1, <1>10, <2>9
    <3>2. n \in RecRecord /\ RecFits(n, clean /\ fail = "none") /\ n.setup = rec.setup /\ RecStartsInTime(n)
      BY <1>2, <1>3, <2>2, <2>4, <2>8, <2>9, <3>1, RecFmp4WriteFits DEF RecStartsInTime
    <3>3. RecCounts(n, rec.faults)
      BY <2>4, <2>5, <3>1, RecFmp4Counts
    <3> QED
      BY <3>2, <3>3 DEF n, clean, RecCounts
  <2>10. CASE rec.setup[1] # "fmp4"
    <3>1. n = RecTsWrite(a, t, x, fail)
      BY <1>1, <1>10, <2>10
    <3>2. n \in RecRecord /\ RecFits(n, clean /\ fail = "none") /\ n.setup = rec.setup
      BY <1>2, <1>3, <2>2, <2>4, <2>8, <2>10, <3>1, RecTsWriteFits
    <3>3. RecCounts(n, rec.faults)
      BY <2>4, <2>5, <3>1, RecTsCounts
    <3> QED
      BY <2>10, <3>2, <3>3 DEF n, clean, RecCounts
  <2> QED
    BY <2>9, <2>10
<1> QED
  BY <1>8, <1>9, <1>10

LEMMA RecDataKeeps ==
    ASSUME RecInv, NEW t \in RecTracks, NEW step \in RecSteps, NEW sync \in BOOLEAN, NEW fail \in RecFileFaults \cup {"none"},
           RecData(t, step, sync, fail)
    PROVE  RecInv' /\ (RecIsFmp4 => RecStartsInTime(rec'))
<1> DEFINE dts == IF rec.last[t] = -1 THEN step ELSE rec.last[t] + step
           n == RecReceived(t, dts, sync, fail)
           clean == rec.faults = 0
           now == clean /\ fail = "none"
<1>1. /\ rec.inst = "on" /\ rec.setup[2] # "skip" /\ rec.units < RecMaxUnits /\ dts >= 0 /\ (RecSyncAlways(t) => sync)
      /\ rec' = IF fail = "none" THEN n ELSE [n EXCEPT !.faults = @ + 1]
  <2> HIDE DEF n
  <2> QED
    BY DEF RecData, n
<1>2. rec \in RecRecord /\ RecMaxUnits \in Nat
  BY DEF RecInv
<1>3. dts \in Nat /\ fail \in RecFaults /\ rec.setup \in RecKnownSetups
  <2>1. rec.last[t] \in Nat \cup {-1} /\ step \in Int
    BY <1>2, RecAssumption, RecRecordFields
  <2>2. dts \in Nat
    BY <1>1, <2>1
  <2>3. fail \in RecFaults /\ rec.setup \in RecKnownSetups
    BY <1>2, RecAssumption, RecRecordFields DEF RecFaults
  <2> QED
    BY <2>2, <2>3
<1> HIDE DEF dts
<1>4. /\ n \in RecRecord /\ RecFits(n, now) /\ n.setup = rec.setup
      /\ n.faults = rec.faults /\ (rec.setup[1] = "fmp4" => RecStartsInTime(n))
  <2> HIDE DEF n
  <2> QED
    BY <1>1, <1>3, RecReceivedFits DEF n
<1> HIDE DEF n
<1>5. RecIsFmp4 => rec.setup[1] = "fmp4"
  BY DEF RecIsFmp4
<1>6. CASE fail = "none"
  <2>1. rec' = n /\ (now <=> clean)
    BY <1>1, <1>6
  <2>2. RecFits(rec', rec'.faults = 0)
    <3>1. now = (rec'.faults = 0)
      BY <1>4, <1>6, <2>1
    <3> HIDE DEF now
    <3> QED
      BY <1>4, <2>1, <3>1
  <2>3. RecInv'
    BY <1>2, <1>4, <2>1, <2>2 DEF RecInv
  <2> QED
    BY <1>4, <1>5, <2>1, <2>3
<1>7. CASE fail # "none"
  <2> DEFINE m == [n EXCEPT !.faults = n.faults + 1]
             f == rec.faults + 1
             none == m.faults = 0
  <2>1. rec' = m /\ f \in Nat /\ f # 0
    <3>1. rec.faults \in Nat
      BY <1>2, RecRecordFields
    <3> QED
      BY <1>1, <1>7, <3>1
  <2>2. m = [n EXCEPT !.faults = f]
    BY <1>4
  <2> HIDE DEF m, f
  <2>3. /\ m \in RecRecord /\ m.units = n.units /\ m.setup = n.setup /\ m.past = n.past /\ m.late = n.late
        /\ m.pending = n.pending /\ m.seg = n.seg /\ m.begun = n.begun /\ m.hasVideo = n.hasVideo
        /\ m.accepted = n.accepted /\ m.inst = n.inst /\ m.failed = n.failed /\ m.faults = f
    BY <1>4, <2>1, <2>2 DEF RecRecord
  <2>4. ~none /\ none \in BOOLEAN /\ now \in BOOLEAN
    BY <2>1, <2>3
  <2> HIDE DEF none, now
  <2>5. RecFits(m, none)
    <3>1. n.units <= m.units
      <4>1. n.units \in 0..RecMaxUnits
        BY <1>4, RecRecordFields
      <4> QED
        BY <1>2, <2>3, <4>1
    <3> QED
      BY <1>2, <1>4, <2>3, <2>4, <3>1, RecSameFits
  <2>6. RecInv'
    BY <1>2, <2>1, <2>3, <2>5 DEF RecInv, none
  <2>7. RecStartsInTime(n) => RecStartsInTime(rec')
    BY <2>1, <2>3 DEF RecStartsInTime
  <2> QED
    BY <1>4, <1>5, <2>6, <2>7
<1> QED
  BY <1>6, <1>7

\* The instance closes its last segment.
LEMMA RecEndKeeps ==
    ASSUME RecInv, NEW fail \in RecFileFaults \cup {"none"}, RecInstanceEnds(fail)
    PROVE  RecInv' /\ rec'.seg = RecNoSegment
<1> DEFINE clean == rec.faults = 0
           now == clean /\ fail = "none"
           c == RecSegmentClose(rec.seg, fail)
           d == c.seg
           f == IF fail = "none" THEN rec.faults ELSE rec.faults + 1
           past == IF rec.seg # RecNoSegment /\ d.created > 0 THEN Append(rec.past, d) ELSE rec.past
           n == [rec EXCEPT !.inst = "done", !.faults = f, !.seg = RecNoSegment, !.past = past]
<1>1. /\ rec.units \in Nat /\ rec.units <= RecMaxUnits /\ RecMaxUnits \in Nat /\ rec \in RecRecord /\ rec.faults \in Nat
      /\ rec.past \in Seq(RecSegments) /\ rec.seg \in RecSegments \cup {RecNoSegment} /\ fail \in RecFaults
      /\ f \in Nat /\ now = (f = 0) /\ clean \in BOOLEAN /\ now \in BOOLEAN /\ (now => clean) /\ (now => fail = "none")
      /\ RecIsFmp4 \in BOOLEAN /\ rec.units \in 0..RecMaxUnits
  <2>1. rec \in RecRecord /\ RecMaxUnits \in Nat
    BY DEF RecInv
  <2>2. rec.units \in 0..RecMaxUnits /\ rec.faults \in Nat /\ rec.past \in Seq(RecSegments)
        /\ rec.seg \in RecSegments \cup {RecNoSegment}
    BY <2>1, RecRecordFields
  <2>3. fail \in RecFaults /\ RecIsFmp4 \in BOOLEAN
    BY RecAssumption DEF RecFaults, RecIsFmp4
  <2>4. f \in Nat /\ now = (f = 0)
    BY <2>2
  <2> QED
    BY <2>1, <2>2, <2>3, <2>4
<1>2. rec.inst \in {"on", "failed"}
  BY DEF RecInstanceEnds
<1>3. rec' = n
  <2> DEFINE r == [rec EXCEPT !.inst = "done", !.faults = IF fail = "none" THEN @ ELSE @ + 1]
  <2>1. rec' = IF rec.seg = RecNoSegment THEN r
               ELSE [r EXCEPT !.seg = RecNoSegment, !.past = IF d.created > 0 THEN Append(@, d) ELSE @]
    BY DEF RecInstanceEnds, RecLastClose
  <2>2. r = [rec EXCEPT !.inst = "done", !.faults = f]
    OBVIOUS
  <2> HIDE DEF r, c, f
  <2>3. CASE rec.seg = RecNoSegment
    <3>1. rec' = [rec EXCEPT !.inst = "done", !.faults = f] /\ past = rec.past
      BY <2>1, <2>2, <2>3
    <3> HIDE DEF past
    <3> QED
      BY <1>1, <2>3, <3>1 DEF RecRecord
  <2>4. CASE rec.seg # RecNoSegment
    <3>1. r.past = rec.past
      BY <2>2, <1>1 DEF RecRecord
    <3>2. (IF d.created > 0 THEN Append(r.past, d) ELSE r.past) = past
      BY <2>4, <3>1
    <3>3. rec' = [r EXCEPT !.seg = RecNoSegment, !.past = past]
      <4>1. rec' = [r EXCEPT !.seg = RecNoSegment, !.past = IF d.created > 0 THEN Append(r.past, d) ELSE r.past]
        BY <2>1, <2>4
      <4> HIDE DEF past
      <4> QED
        BY <3>2, <4>1
    <3> HIDE DEF past
    <3> QED
      BY <2>2, <3>3
  <2> QED
    BY <2>3, <2>4
<1>4. ASSUME rec.seg # RecNoSegment
      PROVE  /\ d \in RecSegments /\ RecFileFits(d, RecIsFmp4, rec.units)
             /\ RecPlaysOn(rec.seg) => RecPlaysOn(d)
             /\ now => /\ d.samples = RecGather(rec.seg) /\ (d.created = 0 => RecGather(rec.seg) = << >>)
                       /\ d.created >= 1 => d.completed = 1
             /\ rec.seg \in RecSegments /\ (now => RecQuiet(rec.seg)) /\ d.created \in Nat
  <2>1. /\ rec.seg \in RecSegments /\ RecFileFits(rec.seg, RecIsFmp4, rec.units) /\ rec.seg.created \in 0..1 /\ ~rec.seg.rotated
        /\ clean => RecQuiet(rec.seg)
    BY <1>1, <1>4 DEF RecInv, RecFits, RecSegFits, RecIsFmp4
  <2>2. /\ c.seg \in RecSegments /\ c.ok \in BOOLEAN
        /\ RecFileFits(c.seg, RecIsFmp4, rec.units)
        /\ RecPlaysOn(rec.seg) => RecPlaysOn(c.seg)
        /\ RecQuiet(rec.seg) /\ fail = "none" => c.ok
        /\ RecQuiet(rec.seg) /\ c.ok => /\ c.seg.samples = RecGather(rec.seg)
                                        /\ c.seg.created = 0 => RecGather(rec.seg) = << >>
                                        /\ c.seg.created >= 1 => c.seg.completed = 1
    <3> HIDE DEF c
    <3> QED
      BY <1>1, <2>1, RecCloseIs DEF c
  <2> HIDE DEF c
  <2>3. c.seg.created \in Nat
    BY <2>2, RecSegmentFields
  <2> QED
    BY <1>1, <2>1, <2>2, <2>3
<1> HIDE DEF d, c, f, now, clean
<1>5. RecHeldFits(rec) /\ RecPastFits(rec.past, RecIsFmp4, rec.units, clean)
      /\ (RecPlayable(rec) => RecVideoPlays(rec.past, rec.seg))
      /\ (~rec.failed /\ clean => \A id \in rec.accepted : RecOnce(rec, RecIsFmp4, id))
      /\ RecFits(rec, clean)
  BY DEF RecInv, RecFits, RecIsFmp4, clean
<1>6. /\ past \in Seq(RecSegments) /\ RecPastFits(past, RecIsFmp4, rec.units, now)
      /\ RecVideoPlays(rec.past, rec.seg) => \A i \in 1..Len(past) : RecPlays(past[i].samples)
  <2>1. CASE rec.seg # RecNoSegment /\ d.created > 0
    <3>1. past = Append(rec.past, d) /\ d \in RecSegments /\ RecFileFits(d, RecIsFmp4, rec.units) /\ d.created >= 1
          /\ (now => d.completed = 1) /\ (RecPlaysOn(rec.seg) => RecPlays(d.samples))
      BY <1>4, <2>1 DEF RecPlaysOn
    <3> HIDE DEF past
    <3>2. /\ past \in Seq(RecSegments) /\ RecPastFits(past, RecIsFmp4, rec.units, now)
          /\ (\A i \in 1..Len(rec.past) : RecPlays(rec.past[i].samples)) /\ RecPlays(d.samples) =>
               \A i \in 1..Len(past) : RecPlays(past[i].samples)
      <4>1. /\ rec.past \in Seq(RecSegments) /\ d \in RecSegments /\ RecIsFmp4 \in BOOLEAN /\ rec.units \in Nat
            /\ clean \in BOOLEAN /\ now \in BOOLEAN /\ (now => clean) /\ RecPastFits(rec.past, RecIsFmp4, rec.units, clean)
            /\ RecFileFits(d, RecIsFmp4, rec.units) /\ d.created >= 1 /\ (now => d.completed = 1)
        BY <1>1, <1>5, <3>1
      <4>2. /\ Append(rec.past, d) \in Seq(RecSegments) /\ RecPastFits(Append(rec.past, d), RecIsFmp4, rec.units, now)
            /\ (\A i \in 1..Len(rec.past) : RecPlays(rec.past[i].samples)) /\ RecPlays(d.samples) =>
                 \A i \in 1..Len(Append(rec.past, d)) : RecPlays(Append(rec.past, d)[i].samples)
        BY <4>1, RecPastGrows
      <4> QED
        BY <3>1, <4>2
    <3> QED
      BY <2>1, <3>1, <3>2 DEF RecVideoPlays
  <2>2. CASE ~(rec.seg # RecNoSegment /\ d.created > 0)
    <3>1. past = rec.past
      BY <2>2
    <3> HIDE DEF past
    <3>2. RecPastFits(past, RecIsFmp4, rec.units, now)
      BY <1>1, <1>5, <3>1 DEF RecPastFits
    <3> QED
      BY <1>1, <3>1, <3>2 DEF RecVideoPlays
  <2> QED
    BY <2>1, <2>2
<1>7. ASSUME now, NEW id \in Nat
      PROVE  RecInPast(past, id) = RecInSegment(rec.seg, RecIsFmp4, id) + RecInPast(rec.past, id)
  <2>1. RecInPast(rec.past, id) \in Nat
    BY <1>1, RecPastCountIs
  <2>2. CASE rec.seg = RecNoSegment
    <3>1. past = rec.past
      BY <2>2
    <3> QED
      BY <2>1, <2>2, <3>1 DEF RecInSegment
  <2>3. CASE rec.seg # RecNoSegment
    <3>1. RecInSegment(rec.seg, RecIsFmp4, id) = RecCountIn(RecGather(rec.seg), id)
      <4>1. rec.seg \in RecSegments /\ rec.seg.fd # "shut"
        BY <1>4, <1>7, <2>3 DEF RecQuiet
      <4> QED
        BY <1>1, <4>1, RecSegmentCount
    <3>2. RecCountIn(RecGather(rec.seg), id) \in Nat
      <4>1. RecGather(rec.seg) \in Seq(RecSamples)
        BY <1>4, <2>3, RecSegmentFields
      <4> QED
        BY <4>1, RecCountIsFinite
    <3>3. CASE d.created > 0
      <4>1. past = Append(rec.past, d) /\ d.samples = RecGather(rec.seg) /\ d \in RecSegments
        BY <1>4, <1>7, <2>3, <3>3
      <4>2. RecRoom(d.samples, << >>, RecMaxUnits)
        <5>1. RecRoom(d.samples, << >>, rec.units) /\ d.samples \in Seq(RecSamples) /\ << >> \in Seq(RecSamples)
          BY <1>4, <2>3, RecSegmentFields, RecPartIs DEF RecFileFits
        <5> QED
          BY <1>1, <5>1, RecRoomShort, RecRoomOf
      <4>3. RecInPast(Append(rec.past, d), id) = RecInPast(rec.past, id) + RecCountIn(d.samples, id)
        BY <1>1, <4>1, <4>2, RecPastAppend
      <4> HIDE DEF past
      <4> QED
        BY <2>1, <3>1, <3>2, <4>1, <4>3
    <3>4. CASE ~(d.created > 0)
      <4>1. past = rec.past /\ RecGather(rec.seg) = << >>
        BY <1>4, <1>7, <2>3, <3>4
      <4>2. RecCountIn(RecGather(rec.seg), id) = 0
        BY <4>1, RecCountEmpty
      <4> HIDE DEF past
      <4> QED
        BY <2>1, <3>1, <4>1, <4>2
    <3> QED
      BY <3>3, <3>4
  <2> QED
    BY <2>2, <2>3
<1> HIDE DEF past
<1>8. /\ n \in RecRecord /\ n.setup = rec.setup /\ n.late = rec.late /\ n.units = rec.units /\ n.pending = rec.pending
      /\ n.begun = rec.begun /\ n.hasVideo = rec.hasVideo /\ n.accepted = rec.accepted /\ n.failed = rec.failed
      /\ n.inst = "done" /\ n.faults = f /\ n.seg = RecNoSegment /\ n.past = past
  BY <1>1, <1>6 DEF RecRecord, RecInsts
<1> HIDE DEF n
<1>9. RecHeldFits(n)
  BY <1>5, <1>8, RecHeldStill
<1>10. RecSegFits(n.seg, RecIsFmp4, n.units, n.inst, now)
  BY <1>8 DEF RecSegFits
<1>11. RecPlayable(n) => RecVideoPlays(n.past, n.seg) /\ RecVideoNext(n)
  <2>1. RecPlayable(n) => RecPlayable(rec)
    BY <1>8 DEF RecPlayable
  <2> QED
    BY <1>5, <1>6, <1>8, <2>1 DEF RecVideoPlays, RecVideoNext
<1>12. ~n.failed /\ now => \A id \in n.accepted : RecOnce(n, RecIsFmp4, id)
  <2> SUFFICES ASSUME ~n.failed, now, NEW id \in n.accepted PROVE RecOnce(n, RecIsFmp4, id)
    OBVIOUS
  <2>1. id \in Nat /\ RecOnce(rec, RecIsFmp4, id)
    BY <1>1, <1>5, <1>8, RecRecordFields
  <2>2. /\ RecInHeld(rec.pending, id) \in Nat /\ RecInLate(rec.late, id) \in Nat
        /\ RecInSegment(rec.seg, RecIsFmp4, id) \in Nat /\ RecInPast(rec.past, id) \in Nat
    BY <1>1, <1>5, <2>1, RecCountsAre
  <2>3. RecInPast(past, id) = RecInSegment(rec.seg, RecIsFmp4, id) + RecInPast(rec.past, id)
    BY <1>7, <2>1
  <2>4. RecInSegment(n.seg, RecIsFmp4, id) = 0
    BY <1>8 DEF RecInSegment
  <2>5. RecInHeld(n.pending, id) + RecInLate(n.late, id) + RecInSegment(n.seg, RecIsFmp4, id) + RecInPast(n.past, id)
        = RecInHeld(rec.pending, id) + RecInLate(rec.late, id) + RecInSegment(rec.seg, RecIsFmp4, id)
          + RecInPast(rec.past, id)
    <3>1. RecInHeld(n.pending, id) = RecInHeld(rec.pending, id) /\ RecInLate(n.late, id) = RecInLate(rec.late, id)
          /\ RecInPast(n.past, id) = RecInPast(past, id)
      BY <1>8
    <3> QED
      BY <2>2, <2>3, <2>4, <3>1
  <2> QED
    BY <2>1, <2>5 DEF RecOnce, RecPlacesIn
<1>13. RecFits(n, now)
  <2>1. (n.setup[1] = "fmp4") = RecIsFmp4
    BY <1>8 DEF RecIsFmp4
  <2> QED
    BY <1>6, <1>8, <1>9, <1>10, <1>11, <1>12, <2>1 DEF RecFits
<1>14. now = (rec'.faults = 0) /\ rec' = n
  BY <1>1, <1>3, <1>8 DEF n
<1>15. RecFits(rec', rec'.faults = 0)
  BY <1>13, <1>14
<1> QED
  BY <1>1, <1>8, <1>14, <1>15 DEF RecInv

LEMMA RecInitFits == RecInit => RecInv
<1> SUFFICES ASSUME RecInit PROVE RecInv
  OBVIOUS
<1>1. PICK s \in RecSetups : rec = RecFreshInstance(s)
  BY DEF RecInit
<1>2. rec = [inst |-> "on", told |-> FALSE, pending |-> [t \in RecTracks |-> RecNone],
             begun |-> {}, last |-> [t \in RecTracks |-> -1], hasVideo |-> FALSE, seg |-> RecNoSegment,
             failed |-> FALSE, accepted |-> {}, setup |-> s, run |-> "watching", asked |-> FALSE, past |-> << >>,
             late |-> {}, units |-> 0, faults |-> 0]
  BY <1>1 DEF RecFreshInstance
<1>3. /\ rec.setup = s /\ rec.run = "watching" /\ rec.asked = FALSE /\ rec.past = << >> /\ rec.late = {} /\ rec.units = 0
      /\ rec.faults = 0 /\ rec.inst = "on" /\ rec.told = FALSE /\ rec.pending = [t \in RecTracks |-> RecNone]
      /\ rec.begun = {} /\ rec.last = [t \in RecTracks |-> -1] /\ rec.hasVideo = FALSE /\ rec.seg = RecNoSegment
      /\ rec.failed = FALSE /\ rec.accepted = {}
  BY <1>2
<1>4. RecMaxUnits \in Nat
  BY RecAssumption
<1>5. rec \in RecRecord
  <2>1. << >> \in Seq(RecSegments) /\ 0 \in 0..RecMaxUnits /\ {} \subseteq RecSamples
    BY <1>4
  <2> QED
    BY <1>2, <2>1 DEF RecRecord, RecRuns, RecInsts
<1>6. RecHeldFits(rec)
  BY <1>3, FS_EmptySet DEF RecHeldFits
<1> DEFINE f == rec.setup[1] = "fmp4"
           clean == rec.faults = 0
<1>7. RecSegFits(rec.seg, f, rec.units, rec.inst, clean) /\ RecPastFits(rec.past, f, rec.units, clean)
  BY <1>3 DEF RecSegFits, RecPastFits
<1>8. RecVideoPlays(rec.past, rec.seg) /\ RecVideoNext(rec)
  BY <1>3 DEF RecVideoPlays, RecVideoNext, RecTracks
<1>9. \A id \in rec.accepted : RecOnce(rec, f, id)
  BY <1>3
<1>10. RecFits(rec, clean)
  BY <1>6, <1>7, <1>8, <1>9 DEF RecFits
<1> QED
  BY <1>4, <1>5, <1>10 DEF RecInv

\* The supervisor, Close and terminate touch no sample.
LEMMA RecOthersKeep ==
    ASSUME RecInv, RecSupervise \/ RecStop \/ RecTerminated
    PROVE  RecInv' /\ rec'.seg = rec.seg
<1> DEFINE clean == rec.faults = 0
<1>1. RecMaxUnits \in Nat /\ rec \in RecRecord /\ RecFits(rec, clean) /\ clean \in BOOLEAN
  BY DEF RecInv
<1>2. /\ rec' \in RecRecord /\ rec'.setup = rec.setup /\ rec'.past = rec.past /\ rec'.late = rec.late
      /\ rec'.pending = rec.pending /\ rec'.seg = rec.seg /\ rec'.begun = rec.begun /\ rec'.hasVideo = rec.hasVideo
      /\ rec'.accepted = rec.accepted /\ rec'.units = rec.units /\ rec'.inst = rec.inst /\ rec'.failed = rec.failed
      /\ rec'.faults = rec.faults
  <2>1. CASE rec' = [rec EXCEPT !.told = TRUE, !.run = "pausing"]
    BY <1>1, <2>1 DEF RecRecord, RecRuns
  <2>2. CASE rec' = [rec EXCEPT !.asked = TRUE]
    BY <1>1, <2>2 DEF RecRecord
  <2>3. CASE rec' = [rec EXCEPT !.told = TRUE, !.run = "closing"]
    BY <1>1, <2>3 DEF RecRecord, RecRuns
  <2>4. CASE rec' = [rec EXCEPT !.run = "closed"]
    BY <1>1, <2>4 DEF RecRecord, RecRuns
  <2> QED
    BY <2>1, <2>2, <2>3, <2>4 DEF RecSupervise, RecStop, RecTerminated
<1>3. rec.units <= rec'.units
  <2>1. rec.units \in 0..RecMaxUnits
    BY <1>1, RecRecordFields
  <2> QED
    BY <1>1, <1>2, <2>1
<1>4. clean = (rec'.faults = 0)
  BY <1>2
<1> HIDE DEF clean
<1>5. RecFits(rec', clean)
  BY <1>1, <1>2, <1>3, RecSameFits
<1>6. RecFits(rec', rec'.faults = 0)
  BY <1>4, <1>5
<1> QED
  BY <1>1, <1>2, <1>6 DEF RecInv

\* A replacement starts with nothing of its own.
LEMMA RecRestartKeeps ==
    ASSUME RecInv, RecRestart
    PROVE  RecInv' /\ rec'.seg = RecNoSegment
<1> DEFINE clean == rec.faults = 0
           n == rec'
<1>1. RecMaxUnits \in Nat /\ rec \in RecRecord /\ RecFits(rec, clean) /\ clean \in BOOLEAN
  BY DEF RecInv
<1>2. n = [inst |-> "on", told |-> FALSE, pending |-> [t \in RecTracks |-> RecNone],
           begun |-> {}, last |-> [t \in RecTracks |-> -1], hasVideo |-> FALSE, seg |-> RecNoSegment,
           failed |-> FALSE, accepted |-> {}, setup |-> rec.setup, run |-> "watching", asked |-> rec.asked,
           past |-> rec.past, late |-> rec.late, units |-> rec.units, faults |-> rec.faults]
  BY DEF RecRestart, RecReplacement, RecFreshInstance
<1> HIDE DEF n
<1>3. /\ n.setup = rec.setup /\ n.run = "watching" /\ n.past = rec.past /\ n.late = rec.late /\ n.units = rec.units
      /\ n.faults = rec.faults /\ n.inst = "on" /\ n.pending = [t \in RecTracks |-> RecNone]
      /\ n.begun = {} /\ n.hasVideo = FALSE /\ n.seg = RecNoSegment /\ n.failed = FALSE /\ n.accepted = {}
  BY <1>2
<1>4. n \in RecRecord
  <2>1. /\ rec.setup \in RecSetups /\ rec.asked \in BOOLEAN /\ rec.past \in Seq(RecSegments)
        /\ rec.late \subseteq RecSamples /\ rec.units \in 0..RecMaxUnits /\ rec.faults \in Nat
    BY <1>1, RecRecordFields
  <2> QED
    BY <1>2, <2>1 DEF RecRecord, RecRuns, RecInsts
<1>5. RecHeldFits(rec) /\ RecPastFits(rec.past, rec.setup[1] = "fmp4", rec.units, clean)
      /\ (RecPlayable(rec) => RecVideoPlays(rec.past, rec.seg))
  BY <1>1 DEF RecFits
<1>6. RecHeldFits(n)
  BY <1>3, <1>5 DEF RecHeldFits
<1>7. /\ RecSegFits(n.seg, n.setup[1] = "fmp4", n.units, n.inst, clean)
      /\ RecPastFits(n.past, n.setup[1] = "fmp4", n.units, clean)
  BY <1>3, <1>5 DEF RecSegFits, RecPastFits
<1>8. RecPlayable(n) => RecVideoPlays(n.past, n.seg) /\ RecVideoNext(n)
  <2>1. RecVideoNext(n)
    BY <1>3 DEF RecVideoNext, RecTracks
  <2> QED
    BY <1>3, <1>5, <2>1 DEF RecPlayable, RecVideoPlays
<1>9. \A id \in n.accepted : RecOnce(n, n.setup[1] = "fmp4", id)
  BY <1>3
<1>10. clean = (n.faults = 0)
  BY <1>3
<1> HIDE DEF clean
<1>11. RecFits(n, n.faults = 0)
  <2>1. RecFits(n, clean)
    BY <1>6, <1>7, <1>8, <1>9 DEF RecFits
  <2> QED
    BY <1>10, <2>1
<1> QED
  BY <1>1, <1>3, <1>4, <1>11 DEF RecInv, n

\* Every step keeps the invariant, and a segment that takes another's place starts in time.
LEMMA RecNextKeeps ==
    ASSUME RecInv, [RecNext]_rec
    PROVE  RecInv' /\ (RecIsFmp4 => RecStartsInTime(rec'))
<1>1. ASSUME NEW t \in RecTracks, NEW step \in RecSteps, NEW sync \in BOOLEAN, NEW fail \in RecFileFaults \cup {"none"},
             RecData(t, step, sync, fail)
      PROVE  RecInv' /\ (RecIsFmp4 => RecStartsInTime(rec'))
  BY <1>1, RecDataKeeps
<1>2. ASSUME NEW fail \in RecFileFaults \cup {"none"}, RecInstanceEnds(fail)
      PROVE  RecInv' /\ (RecIsFmp4 => RecStartsInTime(rec'))
  BY <1>2, RecEndKeeps DEF RecStartsInTime
<1>3. CASE RecSupervise \/ RecStop \/ RecTerminated
  BY <1>3, RecOthersKeep DEF RecStartsInTime
<1>4. CASE RecRestart
  BY <1>4, RecRestartKeeps DEF RecStartsInTime
<1>5. CASE UNCHANGED rec
  BY <1>5 DEF RecInv, RecStartsInTime
<1> QED
  BY <1>1, <1>2, <1>3, <1>4, <1>5 DEF RecNext

LEMMA RecInvHolds == RecSpec => []RecInv
<1>1. RecInit => RecInv
  BY RecInitFits
<1>2. RecInv /\ [RecNext]_rec => RecInv'
  BY RecNextKeeps
<1> QED
  BY <1>1, <1>2, PTL DEF RecSpec

\* What the invariant says of every file, the current one included.
LEMMA RecFilesFit ==
    ASSUME RecInv
    PROVE  /\ \A s \in RecFiles : s \in RecSegments /\ RecFileFits(s, RecIsFmp4, rec.units)
           /\ RecPlayable(rec) => \A s \in RecFiles : RecPlays(s.samples)
           /\ rec.inst = "done" /\ rec.faults = 0 => \A s \in RecFiles : s.completed = 1
<1>1. /\ rec.past \in Seq(RecSegments) /\ rec.seg \in RecSegments \cup {RecNoSegment}
      /\ RecSegFits(rec.seg, RecIsFmp4, rec.units, rec.inst, rec.faults = 0)
      /\ RecPastFits(rec.past, RecIsFmp4, rec.units, rec.faults = 0)
      /\ RecPlayable(rec) => RecVideoPlays(rec.past, rec.seg)
  BY RecRecordFields DEF RecInv, RecFits, RecIsFmp4
<1>2. ASSUME NEW i \in 1..Len(rec.past)
      PROVE  /\ rec.past[i] \in RecSegments /\ RecFileFits(rec.past[i], RecIsFmp4, rec.units)
             /\ RecPlayable(rec) => RecPlays(rec.past[i].samples)
             /\ rec.faults = 0 => rec.past[i].completed = 1
  BY <1>1 DEF RecPastFits, RecVideoPlays
<1>3. ASSUME rec.seg # RecNoSegment
      PROVE  /\ rec.seg \in RecSegments /\ RecFileFits(rec.seg, RecIsFmp4, rec.units) /\ rec.inst # "done"
             /\ RecPlayable(rec) => RecPlays(rec.seg.samples)
  BY <1>1, <1>3 DEF RecSegFits, RecVideoPlays, RecPlaysOn
<1>4. \A s \in RecFiles : (\E i \in 1..Len(rec.past) : s = rec.past[i]) \/ (s = rec.seg /\ rec.seg # RecNoSegment)
  BY DEF RecFiles
<1> QED
  BY <1>2, <1>3, <1>4

\* RecPlaces is the count of the places, without the samples an ended instance held back.
LEMMA RecPlacesAre ==
    ASSUME RecInv, NEW id \in Nat
    PROVE  /\ RecPlaces(id) \in Nat
           /\ RecPlacesIn(rec.pending, rec.late, rec.seg, rec.past, RecIsFmp4, id)
                = RecPlaces(id) + (IF rec.inst = "done" THEN RecInHeld(rec.pending, id) ELSE 0)
<1> DEFINE h == RecInHeld(rec.pending, id)
           l == RecInLate(rec.late, id)
           g == RecInSegment(rec.seg, RecIsFmp4, id)
           p == RecInPast(rec.past, id)
           b == IF rec.seg = RecNoSegment \/ (RecIsFmp4 /\ rec.seg.fd = "shut") THEN 0
                ELSE RecCountIn(rec.seg.part.samples, id)
           e == IF rec.seg = RecNoSegment THEN 0 ELSE RecCountIn(rec.seg.samples, id)
<1>1. h \in Nat /\ l \in Nat /\ g \in Nat /\ p \in Nat
  <2>1. rec \in RecRecord /\ RecMaxUnits \in Nat /\ RecFits(rec, rec.faults = 0) /\ (rec.faults = 0) \in BOOLEAN
    BY DEF RecInv
  <2> DEFINE clean == rec.faults = 0
  <2>2. RecFits(rec, clean) /\ clean \in BOOLEAN
    BY <2>1
  <2> HIDE DEF clean
  <2> QED
    BY <2>1, <2>2, RecCountsAre
<1>2. RecPlaces(id) = (IF rec.inst = "done" THEN 0 ELSE h) + l + b + p + e
  BY DEF RecPlaces, RecInHeld, RecInLate, RecInPast, RecHits, RecAt
<1>3. b \in Nat /\ e \in Nat /\ g = e + b
  <2>1. CASE rec.seg = RecNoSegment
    BY <2>1 DEF RecInSegment
  <2>2. CASE rec.seg # RecNoSegment
    <3>1. rec.seg \in RecSegments
      BY <2>2, RecRecordFields DEF RecInv
    <3>2. rec.seg.samples \in Seq(RecSamples) /\ rec.seg.part.samples \in Seq(RecSamples)
      BY <3>1, RecSegmentFields
    <3>3. RecCountIn(rec.seg.samples, id) \in Nat /\ RecCountIn(rec.seg.part.samples, id) \in Nat
      BY <3>2, RecCountIsFinite
    <3> QED
      BY <2>2, <3>3 DEF RecInSegment
  <2> QED
    BY <2>1, <2>2
<1>4. RecPlacesIn(rec.pending, rec.late, rec.seg, rec.past, RecIsFmp4, id) = h + l + g + p
  BY DEF RecPlacesIn
<1> HIDE DEF h, l, g, p, b, e
<1>5. RecPlaces(id) \in Nat /\ h + l + g + p = RecPlaces(id) + (IF rec.inst = "done" THEN h ELSE 0)
  BY <1>1, <1>2, <1>3
<1> QED
  BY <1>4, <1>5 DEF h

\* What the invariant says of the files, as the run states it.
LEMMA RecInvSays ==
    ASSUME RecInv
    PROVE  /\ RecNothingLostOrTwice /\ RecBaseTimes /\ RecFilesPlayAlone /\ RecHooksPaired /\ RecDurations
           /\ RecTypeOK
<1>1. RecNothingLostOrTwice
  <2> SUFFICES ASSUME ~rec.failed, rec.faults = 0, NEW id \in rec.accepted
               PROVE  /\ RecPlaces(id) = IF id \in RecUnwritten THEN 0 ELSE 1
                      /\ ~RecIsFmp4 => id \notin RecUnwritten
    BY DEF RecNothingLostOrTwice
  <2> DEFINE h == RecInHeld(rec.pending, id)
             n == RecPlaces(id)
  <2>1. id \in Nat /\ RecHeldFits(rec) /\ rec.units \in Nat
    BY RecRecordFields DEF RecInv, RecFits
  <2>2. RecOnce(rec, RecIsFmp4, id)
    BY DEF RecInv, RecFits, RecIsFmp4
  <2>3. n \in Nat /\ 1 = n + (IF rec.inst = "done" THEN h ELSE 0)
    BY <2>1, <2>2, RecPlacesAre DEF RecOnce
  <2>4. h = RecOne(rec.pending["video"].id = id) + RecOne(rec.pending["audio"].id = id)
    BY RecHeldIs
  <2>5. id \in RecUnwritten <=>
          rec.inst = "done" /\ (rec.pending["video"].id = id \/ rec.pending["audio"].id = id)
    BY DEF RecUnwritten, RecTracks
  <2> HIDE DEF h, n
  <2>6. n = IF id \in RecUnwritten THEN 0 ELSE 1
    BY <2>3, <2>4, <2>5 DEF RecOne
  <2>7. ASSUME ~RecIsFmp4 PROVE id \notin RecUnwritten
    <3>1. \A t \in RecTracks : rec.pending[t] = RecNone
      BY <2>1, <2>7 DEF RecHeldFits, RecIsFmp4
    <3>2. id # 0
      BY <2>1 DEF RecHeldFits
    <3> QED
      BY <2>5, <3>1, <3>2 DEF RecTracks, RecNone
  <2> QED
    BY <2>6, <2>7 DEF n
<1>2. RecBaseTimes
  BY RecFilesFit DEF RecBaseTimes, RecFileFits, RecWithin
<1>3. RecFilesPlayAlone
  BY RecFilesFit DEF RecFilesPlayAlone, RecPlayable, RecPlays
<1>4. RecHooksPaired
  <2>1. ASSUME NEW s \in RecFiles PROVE s.completed <= 1 /\ (s.completed = 1 => s.created >= 1)
    <3>1. s.fd \in RecFds /\ s.completed \in 0..1 /\ (s.fd = "none" => s.completed = 0) /\ (s.fd # "none" => s.created >= 1)
      BY RecFilesFit, RecSegmentFields DEF RecFileFits
    <3> QED
      BY <3>1
  <2> QED
    BY <2>1, RecFilesFit DEF RecHooksPaired
<1>5. RecDurations
  <2> SUFFICES ASSUME NEW s \in RecFiles, s.completed = 1
               PROVE  /\ s.rotated => s.duration >= RecSegment
                      /\ RecIsFmp4 => \A i \in 1..Len(s.samples) :
                                        s.start + s.duration >= s.samples[i].dts + s.samples[i].duration
    BY DEF RecDurations
  <2>1. /\ s \in RecSegments /\ s.duration = s.end - s.start /\ (s.rotated => s.duration >= RecSegment)
        /\ RecIsFmp4 => RecWithin(s.samples, s.start, s.end)
    BY RecFilesFit DEF RecFileFits
  <2>2. s.start \in Nat /\ s.end \in Nat /\ s.start + s.duration = s.end /\ s.samples \in Seq(RecSamples)
    <3>1. s.start \in Nat /\ s.end \in Nat /\ s.samples \in Seq(RecSamples)
      BY <2>1, RecSegmentFields
    <3> QED
      BY <2>1, <3>1
  <2>3. ASSUME RecIsFmp4, NEW i \in 1..Len(s.samples)
        PROVE  s.start + s.duration >= s.samples[i].dts + s.samples[i].duration
    <3>1. s.samples[i].dts + s.samples[i].duration <= s.end
      BY <2>1, <2>3 DEF RecWithin
    <3>2. s.samples[i].dts \in Nat /\ s.samples[i].duration \in Nat
      <4>1. s.samples[i] \in RecSamples
        BY <2>2
      <4> QED
        BY <4>1, RecSampleIs
    <3> QED
      BY <2>2, <3>1, <3>2
  <2> QED
    BY <2>1, <2>3
<1>6. RecTypeOK
  <2>1. \A s \in RecFiles : s.fd \in {"none", "open", "shut"} /\ s.created \in 0..2
    BY RecFilesFit, RecSegmentFields DEF RecFileFits, RecFds
  <2> QED
    BY <2>1, RecRecordFields DEF RecInv, RecTypeOK, RecRuns, RecInsts
<1> QED
  BY <1>1, <1>2, <1>3, <1>4, <1>5, <1>6

\* The phases of the recorder's goroutines, its bounds and the descriptors of its files have their types.
THEOREM RecTypeOKHolds == RecSpec => []RecTypeOK
<1>1. RecInv => RecTypeOK
  BY RecInvSays
<1> QED
  BY <1>1, RecInvHolds, PTL

\* What is written is in the files, once and playable, whatever operation on a file fails and whenever the
\* instance is replaced, and the hooks and durations tell of it; a new segment starts in time for what is held.
THEOREM RecFilesAreTrueHolds == RecSpec => RecFilesAreTrue
<1>1. RecInv => RecNothingLostOrTwice /\ RecBaseTimes /\ RecFilesPlayAlone /\ RecHooksPaired /\ RecDurations
  BY RecInvSays
<1>2. RecInv /\ [RecNext]_rec =>
        [RecIsFmp4 /\ rec.seg # RecNoSegment /\ rec'.seg # RecNoSegment /\ rec'.seg.start # rec.seg.start =>
         \A t, u \in RecTracks :
            rec'.pending[t] # RecNone /\ rec'.pending[u] # RecNone
            /\ (\A v \in RecTracks : rec'.pending[v] # RecNone => rec'.pending[v].dts <= rec'.pending[u].dts)
            /\ rec'.pending[u].dts - rec'.pending[t].dts <= RecTolerance
            => rec'.seg.start <= rec'.pending[t].dts]_rec
  BY RecNextKeeps DEF RecStartsInTime
<1> QED
  BY <1>1, <1>2, RecInvHolds, PTL DEF RecSpec, RecFilesAreTrue, RecRotationKeeps
=============================================================================
