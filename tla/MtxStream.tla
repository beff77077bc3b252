----------------------------- MODULE MtxStream -----------------------------
(***************************************************************************)
(* A stream of MediaMTX and its readers (mediamtx-main/internal/stream,    *)
(* counterdumper): the source writes units under the read lock of          *)
(* Stream.mutex into the ring buffer of every reader; a goroutine of each  *)
(* reader takes them out and hands them to its session.  A session adds    *)
(* and removes its reader under the write lock, and RemoveReader keeps     *)
(* that lock while it waits for the reader's goroutine.                    *)
(*                                                                         *)
(* The ring buffer is gortsplib's: a full one refuses, a closed one gives  *)
(* nothing more out.                                                       *)
(***************************************************************************)
EXTENDS Naturals, Sequences

CONSTANTS
    MstReaders,    \* readers, each with its session
    MstQueue,      \* WriteQueueSize
    MstMaxUnits    \* bound: units written

ASSUME MstAssumption == MstQueue \in Nat \ {0} /\ MstMaxUnits \in Nat

VARIABLES
    mstUnits,    \* units written so far; a unit is its number
    mstReader,   \* per reader: its session, goroutine, buffer, error channel and counters
    mstLock      \* the reader whose removal holds Stream.mutex, or "free"

MstVars == <<mstUnits, mstReader, mstLock>>

MstFree == "free"
MstNew == [session |-> "out", run |-> "none", queue |-> << >>, closed |-> FALSE, err |-> "none",
           given |-> << >>, discarded |-> 0, reported |-> 0, since |-> 0]

MstInit ==
    /\ mstUnits = 0 /\ mstLock = MstFree
    /\ mstReader = [r \in MstReaders |-> MstNew]

\* AddReader and Reader.start.
MstAddReader(r) ==
    /\ mstLock = MstFree /\ mstReader[r].session = "out"
    /\ mstReader' = [mstReader EXCEPT ![r] = [MstNew EXCEPT !.session = "in", !.run = "pull",
                                                            !.since = mstUnits]]
    /\ UNCHANGED <<mstUnits, mstLock>>

MstAttached == {r \in MstReaders : mstReader[r].session \in {"in", "leaving"}}

\* Mutant: one more than the buffer takes.
MstPushBeyond(d, u) ==
    IF Len(d.queue) <= MstQueue THEN [d EXCEPT !.queue = Append(@, u)]
    ELSE [d EXCEPT !.discarded = @ + 1]

\* Reader.push: a unit that does not fit is discarded and counted.
MstPush(d, u) ==
    IF Len(d.queue) < MstQueue THEN [d EXCEPT !.queue = Append(@, u)]
    ELSE [d EXCEPT !.discarded = @ + 1]

\* WriteUnit: the unit goes to all readers of its format before the lock is given back.
MstWriteUnit ==
    /\ mstLock = MstFree /\ mstUnits < MstMaxUnits
    /\ mstUnits' = mstUnits + 1
    /\ mstReader' = [r \in MstReaders |-> IF r \in MstAttached THEN MstPush(mstReader[r], mstUnits')
                                          ELSE mstReader[r]]
    /\ UNCHANGED mstLock

----------------------------------------------------------------------------
(* The goroutine of a reader, and its counter of discarded frames.         *)

MstSet(r, d) == mstReader' = [mstReader EXCEPT ![r] = d] /\ UNCHANGED <<mstUnits, mstLock>>

\* runInner: a unit is handed to the session, whose callback may fail.
MstPull(r) ==
    LET d == mstReader[r]
    IN  /\ d.run = "pull" /\ d.queue # << >> /\ ~d.closed
        /\ \E run \in {"pull", "send"} :
              MstSet(r, [d EXCEPT !.given = Append(@, Head(d.queue)), !.queue = Tail(@), !.run = run])

\* A closed buffer ends the goroutine.
MstPullClosed(r) ==
    LET d == mstReader[r]
    IN  d.run = "pull" /\ d.closed /\ MstSet(r, [d EXCEPT !.run = "send", !.queue = << >>])

\* run: the error is received by whoever asked for it, and the channel closed.
MstErrorSent(d) == [d EXCEPT !.run = "none", !.err = "closed"]

\* The session, waiting for <-Error(), learns that its callback failed.
MstSessionFails(r) ==
    LET d == mstReader[r]
    IN  /\ d.run = "send" /\ d.session = "in"
        /\ MstSet(r, [MstErrorSent(d) EXCEPT !.session = "leaving"])

\* The session ends for a reason of its own.
MstSessionEnds(r) == mstReader[r].session = "in" /\ MstSet(r, [mstReader[r] EXCEPT !.session = "leaving"])

\* RemoveReader takes the lock and closes the buffer ...
MstRemoveReader(r) ==
    /\ mstLock = MstFree /\ mstReader[r].session = "leaving"
    /\ mstLock' = r
    /\ mstReader' = [mstReader EXCEPT ![r].closed = TRUE]
    /\ UNCHANGED mstUnits

\* ... and waits for the goroutine, or finds the channel closed.
MstRemoved(r) ==
    LET d == mstReader[r]
    IN  /\ mstLock = r
        /\ d.run = "send" \/ d.err = "closed"
        /\ mstLock' = MstFree
        /\ mstReader' = [mstReader EXCEPT ![r] = [d EXCEPT !.session = "gone", !.run = "none",
                                                           !.err = "closed"]]
        /\ UNCHANGED mstUnits

\* Mutant: one frame is reported for all that were discarded.
MstReportLate(d) == [d EXCEPT !.reported = @ + 1, !.discarded = 0]
\* SwapUint64: the counter is read and reset at once.
MstReportAll(d) == [d EXCEPT !.reported = @ + d.discarded, !.discarded = 0]

\* CounterDumper.run, while the reader is attached.
MstReport(r) ==
    LET d == mstReader[r]
    IN  d.session \in {"in", "leaving"} /\ ~d.closed /\ d.discarded > 0 /\ MstSet(r, MstReportAll(d))

MstNext ==
    \/ MstWriteUnit
    \/ \E r \in MstReaders :
          \/ MstAddReader(r) \/ MstPull(r) \/ MstPullClosed(r) \/ MstSessionFails(r)
          \/ MstSessionEnds(r) \/ MstRemoveReader(r) \/ MstRemoved(r) \/ MstReport(r)

\* The goroutine of a reader's session, and of its buffer.
MstSessionGoesOn(r) == MstSessionFails(r) \/ MstRemoved(r)

\* Goroutines that can run do; a session that leaves gets the lock in its turn.
MstFair ==
    \A r \in MstReaders :
       WF_MstVars(MstPullClosed(r)) /\ WF_MstVars(MstSessionGoesOn(r)) /\ SF_MstVars(MstRemoveReader(r))

MstSpec == MstInit /\ [][MstNext]_MstVars /\ MstFair

----------------------------------------------------------------------------
(* Properties.                                                             *)

MstTypeOK ==
    /\ mstUnits \in 0..MstMaxUnits /\ mstLock \in MstReaders \cup {MstFree}
    /\ \A r \in MstReaders : /\ mstReader[r].session \in {"out", "in", "leaving", "gone"}
                             /\ mstReader[r].run \in {"none", "pull", "send"}
                             /\ Len(mstReader[r].queue) <= MstQueue

\* Every unit written while a reader is attached is given to it, waits for it,
\* or has been counted as discarded, until its buffer is closed; units are given
\* in the order they were written.
MstAllAccounted ==
    \A r \in MstReaders :
       LET d == mstReader[r]
           all == d.given \o d.queue
       IN  (d.session \in {"in", "leaving"} /\ ~d.closed) =>
              /\ Len(all) + d.discarded + d.reported = mstUnits - d.since
              /\ \A i \in 1..(Len(all) - 1) : all[i] < all[i + 1]

\* RemoveReader ends, so the source is never kept from writing for good.
MstServed(r) == mstReader[r].session # "leaving"
MstRemoveEnds == \A r \in MstReaders : []<>MstServed(r)
============================================================================
