--------------------------- MODULE KotlinCameras ---------------------------
(***************************************************************************)
(* The camera clients of the Kotlin server for one stream                  *)
(* (domain/rtsp/RTSPManager.kt, RTSPClient.kt): requests of the REST API,  *)
(* offers of viewers and the start at boot put a client into the map of    *)
(* clients and take it out again, each on a thread of its own, and every   *)
(* client runs a virtual thread that connects, reads packets and           *)
(* reconnects.                                                             *)
(*                                                                         *)
(* FFmpeg is external: its calls block, are not interruptible, return in   *)
(* the end because of the read timeout, and fail once the grabber has been *)
(* released.  The fields `grabber' and `virtualThread' are neither         *)
(* volatile nor locked: another thread may read them as still null.        *)
(***************************************************************************)
EXTENDS Naturals

CONSTANTS
    KcMaxRequests,    \* bound: requests that arrive
    KcMaxConcurrent,  \* bound: requests that overlap, which are then the only ones
    KcMaxAttempts     \* RTSPConfig.maxReconnectAttempts

ASSUME KcAssumption ==
    KcMaxRequests \in Nat /\ KcMaxConcurrent \in Nat \ {0} /\ KcMaxAttempts \in Nat \ {0}

\* A client has the number of the request that makes it; 0 stands for none.
KcReqs == 1..KcMaxRequests

VARIABLES
    kcMap,      \* the client that RTSPManager.clients has for the stream
    kcReq,      \* requests: where each one is, and which client it stops
    kcClient,   \* clients: their fields, their virtual thread and its grabber
    kcOverlap   \* history: two requests were under way at once

KcVars == <<kcMap, kcReq, kcClient, kcOverlap>>

\* `told' is history: a stop has found the client running.
KcNewClient ==
    [running |-> FALSE, thread |-> "none", assigned |-> FALSE, interrupted |-> FALSE,
     session |-> FALSE, grabber |-> FALSE, attempts |-> 0, told |-> FALSE]

KcNoRequest == [is |-> "none", all |-> FALSE, client |-> 0]
KcAnswered == [KcNoRequest EXCEPT !.is = "done"]

KcInit ==
    /\ kcMap = 0
    /\ kcReq = [r \in KcReqs |-> KcNoRequest]
    /\ kcClient = [r \in KcReqs |-> KcNewClient]
    /\ kcOverlap = FALSE

KcUnderWay == {r \in KcReqs : kcReq[r].is \notin {"none", "done"}}

KcTo(r, from, to) ==
    /\ kcReq[r].is = from
    /\ kcReq' = [kcReq EXCEPT ![r] = IF to = "done" THEN KcAnswered ELSE [@ EXCEPT !.is = to]]
    /\ UNCHANGED kcOverlap

KcSets(c, new) == kcClient' = [kcClient EXCEPT ![c] = new]

----------------------------------------------------------------------------
(* Starting: an offer asks first whether the client runs.                  *)

KcArrive(r, kind) ==
    /\ kcReq[r].is = "none" /\ \A q \in 1..(r - 1) : kcReq[q].is # "none"
    /\ r <= KcMaxConcurrent \/ (KcUnderWay = {} /\ ~kcOverlap)
    /\ kcReq' = [kcReq EXCEPT ![r] = [KcNoRequest EXCEPT !.is = IF kind = "stopAll" THEN "list" ELSE kind,
                                                           !.all = (kind = "stopAll")]]
    /\ kcOverlap' = (kcOverlap \/ KcUnderWay # {})
    /\ UNCHANGED <<kcMap, kcClient>>

KcAskRunning(r) ==
    /\ KcTo(r, "offer", IF kcMap # 0 /\ kcClient[kcMap].running THEN "done" ELSE "start")
    /\ UNCHANGED <<kcMap, kcClient>>

\* Mutant: the map is not asked before a client is put into it.
KcContainsNot(r) == KcTo(r, "start", "put") /\ UNCHANGED <<kcMap, kcClient>>

KcContains(r) ==
    /\ KcTo(r, "start", IF kcMap # 0 THEN "done" ELSE "put")
    /\ UNCHANGED <<kcMap, kcClient>>

KcPut(r) == KcTo(r, "put", "run") /\ kcMap' = r /\ UNCHANGED kcClient

\* RTSPClient.start: nobody else calls it for this client.
KcSetRunning(r) ==
    /\ KcTo(r, "run", "thread") /\ KcSets(r, [kcClient[r] EXCEPT !.running = TRUE])
    /\ UNCHANGED kcMap

KcStartThread(r) ==
    /\ KcTo(r, "thread", "assign") /\ KcSets(r, [kcClient[r] EXCEPT !.thread = "loop"])
    /\ UNCHANGED kcMap

KcAssignThread(r) ==
    /\ KcTo(r, "assign", "done") /\ KcSets(r, [kcClient[r] EXCEPT !.assigned = TRUE])
    /\ UNCHANGED kcMap

----------------------------------------------------------------------------
(* Stopping one client, or all of them and then clearing the map.          *)

KcFinds(r, next) ==
    kcReq' = [kcReq EXCEPT ![r].client = kcMap, ![r].is = IF kcMap = 0 THEN next ELSE "halt"]

KcTake(r) ==
    /\ kcReq[r].is = "stop" /\ KcFinds(r, "done") /\ kcMap' = 0
    /\ UNCHANGED <<kcClient, kcOverlap>>

KcList(r) == kcReq[r].is = "list" /\ KcFinds(r, "clear") /\ UNCHANGED <<kcMap, kcClient, kcOverlap>>

KcAfterStop(r) == IF kcReq[r].all THEN "clear" ELSE "done"

\* RTSPClient.stop on a client that does not run returns at once.
KcHalt(r) ==
    LET c == kcReq[r].client
    IN  /\ KcTo(r, "halt", IF kcClient[c].running THEN "cleanup" ELSE KcAfterStop(r))
        /\ KcSets(c, [kcClient[c] EXCEPT !.running = FALSE, !.told = @ \/ kcClient[c].running])
        /\ UNCHANGED kcMap

KcCleanup(r) ==
    LET c == kcReq[r].client
    IN  /\ KcTo(r, "cleanup", "interrupt")
        /\ \E seen \in {FALSE, kcClient[c].grabber} :
              KcSets(c, [kcClient[c] EXCEPT !.session = @ /\ ~seen, !.grabber = FALSE])
        /\ UNCHANGED kcMap

KcInterrupt(r) ==
    LET c == kcReq[r].client
    IN  /\ KcTo(r, "interrupt", KcAfterStop(r))
        /\ \E seen \in {FALSE, kcClient[c].assigned} :
              KcSets(c, [kcClient[c] EXCEPT !.interrupted = @ \/ seen])
        /\ UNCHANGED kcMap

KcClear(r) == KcTo(r, "clear", "done") /\ kcMap' = 0 /\ UNCHANGED kcClient

----------------------------------------------------------------------------
(* The virtual thread of a client: runWithReconnect.                       *)

KcThread(c, from, new) ==
    /\ kcClient[c].thread = from /\ KcSets(c, new) /\ UNCHANGED <<kcMap, kcReq, kcOverlap>>

KcGoes(c, from, to) == KcThread(c, from, [kcClient[c] EXCEPT !.thread = to])

KcLoop(c) == KcGoes(c, "loop", IF kcClient[c].running THEN "connect" ELSE "ends")

KcConnect(c) ==
    \/ KcThread(c, "connect", [kcClient[c] EXCEPT !.thread = "opened", !.session = TRUE])
    \/ KcGoes(c, "connect", "failing")

KcKeepGrabber(c) == KcThread(c, "opened", [kcClient[c] EXCEPT !.thread = "frames", !.grabber = TRUE])

\* processFrames looks at running before every packet.
KcFrames(c) == KcGoes(c, "frames", IF kcClient[c].running THEN "grab" ELSE "closing")

\* A packet, whose publishing may take an interrupt and ignore it; the end of the
\* stream; or an error.
KcGrab(c) ==
    \/ /\ kcClient[c].session
       /\ \E kept \in {FALSE, kcClient[c].interrupted} :
             KcThread(c, "grab", [kcClient[c] EXCEPT !.thread = "frames", !.interrupted = kept])
    \/ KcGoes(c, "grab", "closing")
    \/ KcGoes(c, "grab", "failing")

\* finally of connectAndStream; only an orderly end resets the attempts.
KcClose(c) ==
    LET closed == [kcClient[c] EXCEPT !.session = FALSE, !.grabber = FALSE]
    IN  \/ KcThread(c, "closing", [closed EXCEPT !.attempts = 0, !.thread = "loop"])
        \/ KcThread(c, "failing", [closed EXCEPT !.attempts = @ + 1, !.thread = "failed"])

KcRetry(c) == KcGoes(c, "failed", IF kcClient[c].attempts >= KcMaxAttempts THEN "ends" ELSE "sleep")

\* An interrupt, also one of before, makes sleep throw out of the loop.
KcSleep(c) ==
    \/ ~kcClient[c].interrupted /\ KcGoes(c, "sleep", "loop")
    \/ /\ kcClient[c].interrupted
       /\ KcThread(c, "sleep", [kcClient[c] EXCEPT !.thread = "ends", !.interrupted = FALSE])

\* finally of start.
KcEnds(c) ==
    KcThread(c, "ends", [kcClient[c] EXCEPT !.thread = "done", !.running = FALSE,
                                            !.session = @ /\ ~kcClient[c].grabber, !.grabber = FALSE])

----------------------------------------------------------------------------
KcRequest(r) ==
    \/ KcAskRunning(r) \/ KcContains(r) \/ KcPut(r) \/ KcSetRunning(r)
    \/ KcStartThread(r) \/ KcAssignThread(r)
    \/ KcTake(r) \/ KcList(r) \/ KcHalt(r) \/ KcCleanup(r) \/ KcInterrupt(r) \/ KcClear(r)

KcRuns(c) ==
    \/ KcLoop(c) \/ KcConnect(c) \/ KcKeepGrabber(c) \/ KcFrames(c) \/ KcGrab(c)
    \/ KcClose(c) \/ KcRetry(c) \/ KcSleep(c) \/ KcEnds(c)

KcNext ==
    \E r \in KcReqs :
        \/ \E kind \in {"start", "offer", "stop", "stopAll"} : KcArrive(r, kind)
        \/ KcRequest(r)
        \/ KcRuns(r)

\* Threads are scheduled, and no call of FFmpeg blocks for ever; requests need not come.
KcFairness == \A r \in KcReqs : WF_KcVars(KcRequest(r)) /\ WF_KcVars(KcRuns(r))

KcSpec == KcInit /\ [][KcNext]_KcVars /\ KcFairness

----------------------------------------------------------------------------
(* Properties.                                                             *)

KcTypeOK ==
    /\ kcMap \in 0..KcMaxRequests /\ kcOverlap \in BOOLEAN
    /\ \A r \in KcReqs :
         /\ kcReq[r].client \in 0..KcMaxRequests
         /\ kcReq[r].is \in {"halt", "cleanup", "interrupt"} => kcReq[r].client # 0
         /\ kcClient[r].attempts \in 0..KcMaxAttempts

\* As long as requests do not overlap, a client that runs is the one in the map, where
\* the next stop finds it; the look at the map and the store into it are two steps.
KcRunningIsFound ==
    ~kcOverlap /\ KcUnderWay = {} => \A c \in KcReqs : kcClient[c].running => kcMap = c

\* A client whose thread has ended does not say that it runs and has no session with the
\* camera, whichever of its thread and a stop released the grabber.
KcEndedIsClosed ==
    \A c \in KcReqs : kcClient[c].thread = "done" => ~kcClient[c].running /\ ~kcClient[c].session

\* A client that was running when it was stopped ends, at whichever step of connecting,
\* reading or waiting the stop meets it, and even if the interrupt gets lost.
KcStopEnds == \A c \in KcReqs : kcClient[c].told ~> kcClient[c].thread = "done"

\* All of them: a camera has a client that can be stopped, and a stopped client ends.
KcClientsServed == [](KcRunningIsFound /\ KcEndedIsClosed) /\ KcStopEnds
=============================================================================
