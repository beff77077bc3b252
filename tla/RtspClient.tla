---------------------------- MODULE RtspClient ----------------------------
(***************************************************************************)
(* One rtsp.Client of internal/rtsp/client.go: the goroutine that connects *)
(* and reconnects (runWithRetry, run), the camera it talks to through      *)
(* gortsplib, and the goroutine that calls Stop.                           *)
(*                                                                         *)
(* Stop cancels the context and then closes c.client, which run assigns    *)
(* without a lock and without looking at the context: the steps of both    *)
(* are separate.  gortsplib is external and modelled from its use: Close   *)
(* ends a session that Start has opened, and a closed session makes every  *)
(* later request and Wait fail; closing a client before Start has opened   *)
(* its session ends nothing.                                               *)
(***************************************************************************)
EXTENDS Naturals

CONSTANT
    ConfiguredRetries    \* ClientConfig.RetryCount (retry_count of config.yaml)

ASSUME RetriesAssumption == ConfiguredRetries \in Nat

VARIABLES
    pc,          \* where the goroutine of runWithRetry is
    attempt,     \* connection attempts so far
    session,     \* c.client: "none", "created", "open", "closed"
    connected,   \* Client.connected
    codecSet,    \* SetVideoCodec was called
    ctxDone,     \* Stop has cancelled the context
    stopPc       \* where the caller of Stop is

vars == <<pc, attempt, session, connected, codecSet, ctxDone, stopPc>>

\* NewClient puts the default in place of 0.
RetryCount == IF ConfiguredRetries = 0 THEN 3 ELSE ConfiguredRetries

\* Mutant: one attempt more.
RetriesUsedUpLate == RetryCount > 0 /\ attempt > RetryCount

\* runWithRetry: `attempt` is never set back, so it counts the attempts of the
\* client's whole life.
RetriesUsedUp == RetryCount > 0 /\ attempt >= RetryCount

Init ==
    /\ pc = "new"
    /\ attempt = 0
    /\ session = "none"
    /\ connected = FALSE
    /\ codecSet = FALSE
    /\ ctxDone = FALSE
    /\ stopPc = "idle"

----------------------------------------------------------------------------
(* The goroutine of runWithRetry.                                          *)

Start ==
    /\ pc = "new"
    /\ pc' = "top"
    /\ UNCHANGED <<attempt, session, connected, codecSet, ctxDone, stopPc>>

\* Top of the loop: the only look at the context before a connection.
TopOfLoop ==
    /\ pc = "top"
    /\ IF ctxDone
       THEN pc' = "ended" /\ UNCHANGED attempt
       ELSE pc' = "run" /\ attempt' = attempt + 1
    /\ UNCHANGED <<session, connected, codecSet, ctxDone, stopPc>>

\* run: a new gortsplib client, assigned to c.client.
NewSession ==
    /\ pc = "run"
    /\ session' = "created"
    /\ pc' = "connecting"
    /\ UNCHANGED <<attempt, connected, codecSet, ctxDone, stopPc>>

\* The camera answers, or the connection fails and run returns.
ConnectOk ==
    /\ pc = "connecting"
    /\ session' = "open"
    /\ pc' = "describing"
    /\ UNCHANGED <<attempt, connected, codecSet, ctxDone, stopPc>>

ConnectFails ==
    /\ pc = "connecting"
    /\ pc' = "failed"
    /\ UNCHANGED <<attempt, session, connected, codecSet, ctxDone, stopPc>>

\* DESCRIBE; the codec of the first format goes to the stream if it is H264 or H265.
Describe ==
    /\ pc = "describing"
    /\ session = "open"
    /\ pc' = "playing?"
    /\ codecSet' \in {TRUE, codecSet}
    /\ UNCHANGED <<attempt, session, connected, ctxDone, stopPc>>

\* SETUP, the packet callback, PLAY, and setConnected(true).
Play ==
    /\ pc = "playing?"
    /\ session = "open"
    /\ pc' = "playing"
    /\ connected' = TRUE
    /\ UNCHANGED <<attempt, session, codecSet, ctxDone, stopPc>>

\* Mutant: run returns without the deferred Close.
RunFailsOpen ==
    /\ pc \in {"describing", "playing?", "playing"}
    /\ pc' = "failed"
    /\ UNCHANGED <<attempt, session, connected, codecSet, ctxDone, stopPc>>

\* A request or Wait fails, because the camera ends the session or Stop has
\* closed it; the deferred Close ends it.
RunFails ==
    /\ pc \in {"describing", "playing?", "playing"}
    /\ session' = "closed"
    /\ pc' = "failed"
    /\ UNCHANGED <<attempt, connected, codecSet, ctxDone, stopPc>>

\* Mutant: a failed attempt leaves the client marked connected.
AfterFailureStale ==
    /\ pc = "failed"
    /\ pc' = IF ctxDone \/ RetriesUsedUp THEN "ended" ELSE "delay"
    /\ UNCHANGED <<attempt, session, connected, codecSet, ctxDone, stopPc>>

\* Back in runWithRetry: stopped, the client ends as it is; otherwise it is
\* marked disconnected and gives up or waits.
AfterFailure ==
    /\ pc = "failed"
    /\ IF ctxDone
       THEN pc' = "ended" /\ UNCHANGED connected
       ELSE /\ connected' = FALSE
            /\ pc' = IF RetriesUsedUp THEN "ended" ELSE "delay"
    /\ UNCHANGED <<attempt, session, codecSet, ctxDone, stopPc>>

\* Mutant: the timer of the delay is made once, before the loop: it fires a single time.
DelayOverOnce ==
    /\ pc = "delay"
    /\ \/ attempt = 1 /\ pc' = "top"
       \/ ctxDone /\ pc' = "ended"
    /\ UNCHANGED <<attempt, session, connected, codecSet, ctxDone, stopPc>>

\* The delay is over, or the context is cancelled: the select takes either.
DelayOver ==
    /\ pc = "delay"
    /\ \/ pc' = "top"
       \/ ctxDone /\ pc' = "ended"
    /\ UNCHANGED <<attempt, session, connected, codecSet, ctxDone, stopPc>>

----------------------------------------------------------------------------
(* Stop.                                                                   *)

StopCancel ==
    /\ stopPc = "idle"
    /\ pc # "new"
    /\ ctxDone' = TRUE
    /\ stopPc' = "cancelled"
    /\ UNCHANGED <<pc, attempt, session, connected, codecSet>>

\* Mutant: Stop only cancels the context.
StopWithoutClose ==
    /\ stopPc = "cancelled"
    /\ stopPc' = "returned"
    /\ UNCHANGED <<pc, attempt, session, connected, codecSet, ctxDone>>

\* Stop reads c.client once and closes what it finds.
StopClose ==
    /\ stopPc = "cancelled"
    /\ session' = IF session = "open" THEN "closed" ELSE session
    /\ stopPc' = "returned"
    /\ UNCHANGED <<pc, attempt, connected, codecSet, ctxDone>>

----------------------------------------------------------------------------
Loop ==
    \/ Start \/ TopOfLoop \/ NewSession \/ ConnectOk \/ ConnectFails
    \/ Describe \/ Play \/ AfterFailure \/ DelayOver
    \/ (session = "closed" /\ RunFails)

Next == Loop \/ RunFails \/ StopCancel \/ StopClose

Spec == Init /\ [][Next]_vars

(* The goroutines are scheduled and requests are answered or time out; a   *)
(* camera need not ever end a session that plays.                          *)
FairSpec == Spec /\ WF_vars(Loop) /\ WF_vars(StopClose)

----------------------------------------------------------------------------
(* Properties.                                                             *)

\* (also: no more connection attempts than configured)
TypeOK ==
    /\ pc \in {"new", "top", "run", "connecting", "describing", "playing?", "playing",
               "failed", "delay", "ended"}
    /\ attempt \in 0..RetryCount
    /\ session \in {"none", "created", "open", "closed"}
    /\ connected \in BOOLEAN /\ codecSet \in BOOLEAN /\ ctxDone \in BOOLEAN
    /\ stopPc \in {"idle", "cancelled", "returned"}

\* No session outlives the call of run that opened it, on any path out of it,
\* so a client never has two sessions with its camera.
OneSession == session = "open" => pc \in {"describing", "playing?", "playing"}

\* Until it is stopped, a client says it is connected only while it plays, or
\* in the instant between the failure and setConnected(false).
ConnectedIsPlaying == connected => pc \in {"playing", "failed"} \/ ctxDone

\* A stopped client that had opened its session when Stop cancelled it, or
\* was waiting to reconnect, ends.
StopEndsSession ==
    ((stopPc = "cancelled" /\ session = "open") \/ (ctxDone /\ pc = "delay")) ~> pc = "ended"

\* Every failure is followed by another attempt or by the end.
FailureHandled == pc = "failed" ~> pc \in {"run", "ended"}

\* Stop ends a client (the comment above Stop).
StopEnds == stopPc = "returned" ~> pc = "ended"
=============================================================================
