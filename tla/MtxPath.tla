------------------------------ MODULE MtxPath ------------------------------
(***************************************************************************)
(* One path of MediaMTX (mediamtx-main/internal/core/path.go): a goroutine *)
(* that serves readers, publishers, its own static source and its timers   *)
(* one event at a time.  A static source is driven by a handler goroutine  *)
(* (staticsources/handler.go) that runs an instance in a third goroutine.  *)
(*                                                                         *)
(* One event of path.runInner is one step, up to the place where it waits  *)
(* for another goroutine: Handler.Stop waits for the handler, which waits  *)
(* for the instance, which may be waiting for the path.                    *)
(*                                                                         *)
(* The on-demand states, timers and calls of a static source and of a      *)
(* publisher are two copies of the same fields in the code; a valid        *)
(* configuration never has both (conf/path.go), so one copy stands for     *)
(* whichever the path has.  Stream.Initialize is taken to succeed: when it *)
(* fails, setReady leaves pa.stream set on a path that is not ready.       *)
(***************************************************************************)
EXTENDS Naturals, Sequences, SequencesExt, FiniteSets

CONSTANTS
    MpClients,      \* sessions that describe, read or publish
    MpConfs,        \* the configurations the path may be made with
    MpMaxStreams    \* bound: streams the path makes

ASSUME MpAssumption ==
    /\ MpMaxStreams \in Nat
    /\ MpClients \cap {"none", "redirect", "handler"} = {}
    /\ \A c \in MpConfs :
         /\ c \in [source : {"redirect", "static", "publisher"}, demand : BOOLEAN, regexp : BOOLEAN,
                   override : BOOLEAN, maxReaders : Nat, record : BOOLEAN]
         /\ c.demand => c.source # "redirect"
         /\ c.regexp /\ c.source = "static" => c.demand

MpNone == "none"

VARIABLE
    mp  \* the path with its handler, its static source and its sessions

MpVars == <<mp>>

MpOff == [loop |-> "off", canceled |-> FALSE, instance |-> "none"]
MpOn == [loop |-> "select", canceled |-> FALSE, instance |-> "trying"]
MpIdle == [is |-> "idle", stream |-> 0, told |-> FALSE]

\* initialize and the first part of run: a source that is not on demand starts.
MpInit ==
    \E c \in MpConfs :
       mp = [conf |-> c, pc |-> "run", canceled |-> FALSE,
             source |-> CASE c.source = "redirect" -> "redirect"
                          [] c.source = "static" -> "handler"
                          [] OTHER -> MpNone,
             handler |-> IF c.source = "static" /\ ~c.demand THEN MpOn ELSE MpOff,
             stream |-> 0, made |-> 0, recorder |-> FALSE, notReadyHook |-> FALSE,
             command |-> FALSE, demand |-> "initial", readyTimer |-> FALSE, closeTimer |-> FALSE,
             readers |-> {}, describes |-> << >>, adds |-> << >>,
             sessions |-> [x \in MpClients |-> MpIdle]]

----------------------------------------------------------------------------
(* The helpers of path.go, from a state of the path to the next.           *)

MpShouldClose(s) ==
    s.conf.regexp /\ s.source = MpNone /\ s.readers = {} /\ s.describes = << >> /\ s.adds = << >>

\* Handler.Stop: the path waits for the handler and then goes on to pc = next.
MpStopHandler(s, next) ==
    IF s.handler.loop = "off" THEN [s EXCEPT !.pc = "panic"]
    ELSE [s EXCEPT !.handler.canceled = TRUE, !.pc = next]

\* onDemandStaticSourceStart, onDemandPublisherStart.
MpDemandStart(s) ==
    LET t == [s EXCEPT !.readyTimer = TRUE, !.demand = "waitingReady"]
    IN  IF s.conf.source # "static" THEN [t EXCEPT !.command = TRUE]
        ELSE IF s.handler.loop # "off" THEN [t EXCEPT !.pc = "panic"]
        ELSE [t EXCEPT !.handler = MpOn]

MpScheduleClose(s) == [s EXCEPT !.closeTimer = TRUE, !.demand = "closing"]

\* onDemandStaticSourceStop, onDemandPublisherStop.
MpDemandStop(s) ==
    LET t == [s EXCEPT !.demand = "initial",
                       !.closeTimer = IF s.demand = "closing" THEN FALSE ELSE @]
    IN  IF s.conf.source = "static" THEN MpStopHandler(t, "stopping run")
        ELSE IF s.command THEN [t EXCEPT !.command = FALSE]
        ELSE [t EXCEPT !.pc = "panic"]

\* setReady.
MpSetReady(s) ==
    [s EXCEPT !.stream = s.made + 1, !.made = s.made + 1, !.recorder = @ \/ s.conf.record,
              !.notReadyHook = TRUE]

\* Mutant: the readers are forgotten without being closed.
MpSetNotReadyQuiet(s) ==
    [s EXCEPT !.pc = IF s.notReadyHook THEN @ ELSE "panic",
              !.readers = {}, !.recorder = FALSE, !.stream = 0,
              !.notReadyHook = FALSE]

\* setNotReady: readers are closed and removed.  A nil hook is a panic, and so is
\* a second call of one, which closes the channel of its command again.
MpSetNotReady(s) ==
    [s EXCEPT !.pc = IF s.notReadyHook THEN @ ELSE "panic",
              !.sessions = [x \in MpClients |->
                              IF x \in s.readers THEN [s.sessions[x] EXCEPT !.told = TRUE]
                              ELSE s.sessions[x]],
              !.readers = {}, !.recorder = FALSE, !.stream = 0,
              !.notReadyHook = FALSE]

MpAnswer(s, x, r) == [s EXCEPT !.sessions[x] = r]
MpAnswerAll(s, xs, r) == [s EXCEPT !.sessions = [x \in MpClients |-> IF x \in xs THEN r ELSE s.sessions[x]]]

\* addReaderPost, for readers there is room for: a path about to close is used again.
MpAdmit(s, xs) ==
    LET t == MpAnswerAll([s EXCEPT !.readers = @ \cup xs], xs,
                         [is |-> "reading", stream |-> s.stream, told |-> FALSE])
    IN  IF xs # {} /\ s.conf.demand /\ s.demand = "closing"
        THEN [t EXCEPT !.demand = "ready", !.closeTimer = FALSE] ELSE t

\* The limit of readers leaves room for n more.
MpRoomFor(s, n) == s.conf.maxReaders = 0 \/ Cardinality(s.readers) + n <= s.conf.maxReaders

\* addReaderPost.
MpAddReaderPost(s, x) == IF MpRoomFor(s, 1) THEN MpAdmit(s, {x}) ELSE MpAnswer(s, x, MpIdle)

\* The requests on hold get an error, or the description they wait for.
MpRefuseHeld(s) ==
    [MpAnswerAll(s, ToSet(s.describes \o s.adds), MpIdle) EXCEPT !.describes = << >>, !.adds = << >>]

\* consumeOnHoldRequests: descriptions get the stream, readers are added in order while there is room.
MpConsume(s) ==
    MpAdmit(MpRefuseHeld(s), {s.adds[i] : i \in {j \in DOMAIN s.adds : MpRoomFor(s, j)}})

\* A publisher is told to close.
MpCloseSource(s) ==
    IF s.source \in MpClients THEN [s EXCEPT !.sessions[s.source].told = TRUE] ELSE s

MpRemovePublisher(s) ==
    [IF s.stream # 0 THEN MpSetNotReady(s) ELSE s EXCEPT !.source = MpNone]

\* run, after runInner has returned.
MpEnd(s) ==
    LET t == MpRefuseHeld([s EXCEPT !.canceled = TRUE, !.readyTimer = FALSE, !.closeTimer = FALSE])
        u == IF t.stream # 0 THEN MpSetNotReady(t) ELSE t
    IN  IF u.pc = "panic" THEN u
        ELSE IF u.source = "handler" /\ (~u.conf.demand \/ u.demand # "initial")
             THEN MpStopHandler(u, "stopping done")
        ELSE [MpCloseSource(u) EXCEPT !.pc = "done", !.command = FALSE]

\* The end of an event after which runInner looks at shouldClose.
MpOrClose(s) == IF s.pc = "run" /\ MpShouldClose(s) THEN MpEnd(s) ELSE s

----------------------------------------------------------------------------
(* The timers and the reload.                                              *)

MpReadyTimer ==
    /\ mp.pc = "run" /\ mp.readyTimer
    /\ mp' = MpOrClose(MpDemandStop(MpRefuseHeld([mp EXCEPT !.readyTimer = FALSE])))

\* Of the two close timers only the one of a static source ends the stream.
MpCloseTimer ==
    /\ mp.pc = "run" /\ mp.closeTimer
    /\ LET s == [mp EXCEPT !.closeTimer = FALSE]
       IN  mp' = MpDemandStop(IF s.conf.source = "static" THEN MpSetNotReady(s) ELSE s)

\* A new configuration may turn recording on and off; the others recreate the path.
MpReloadConf ==
    /\ mp.pc = "run"
    /\ mp' = [mp EXCEPT !.conf.record = ~mp.conf.record,
                        !.recorder = mp.stream # 0 /\ ~mp.conf.record]

\* pathManager closes the path, or its parent context ends; runInner returns.
MpCancel == ~mp.canceled /\ mp' = [mp EXCEPT !.canceled = TRUE]
MpTerminate == mp.pc = "run" /\ mp.canceled /\ mp' = MpEnd(mp)

----------------------------------------------------------------------------
(* The sessions.  A request that finds the path ending gets an error.      *)

\* describe and add-reader requests without a stream.
MpHold(s, x, queue) ==
    LET t == IF s.demand = "initial" THEN MpDemandStart(s) ELSE s
    IN  IF t.pc = "panic" THEN t
        ELSE IF queue = "describes"
             THEN MpAnswer([t EXCEPT !.describes = Append(@, x)], x, [MpIdle EXCEPT !.is = "held"])
             ELSE MpAnswer([t EXCEPT !.adds = Append(@, x)], x, [MpIdle EXCEPT !.is = "held"])

\* doDescribe: answered at once unless the path has to be woken up.
MpDescribe(x) ==
    /\ mp.pc = "run" /\ mp.sessions[x].is = "idle"
    /\ mp' = MpOrClose(IF mp.source = "redirect" \/ mp.stream # 0 \/ ~mp.conf.demand THEN mp
                       ELSE MpHold(mp, x, "describes"))

\* doAddReader.
MpAddReader(x) ==
    /\ mp.pc = "run" /\ mp.sessions[x].is = "idle"
    /\ mp' = MpOrClose(IF mp.stream # 0 THEN MpAddReaderPost(mp, x)
                       ELSE IF mp.conf.demand THEN MpHold(mp, x, "adds") ELSE mp)

\* RemoveReader: a session that has been told, or leaves by itself.
MpRemoveReader(x) ==
    /\ mp.sessions[x].is = "reading"
    /\ IF mp.pc = "run"
       THEN LET s == MpAnswer([mp EXCEPT !.readers = @ \ {x}], x, MpIdle)
            IN  mp' = IF s.readers = {} /\ s.conf.demand /\ s.demand = "ready"
                      THEN MpScheduleClose(s) ELSE s
       ELSE mp.canceled /\ mp' = MpAnswer(mp, x, MpIdle)

\* A new publisher replaces the old one.
MpReplace(s) == MpRemovePublisher(MpCloseSource(s))

\* doAddPublisher.
MpAddPublisher(x) ==
    /\ mp.pc = "run" /\ mp.sessions[x].is = "idle" /\ mp.made < MpMaxStreams
    /\ mp.conf.source = "publisher" /\ (mp.source # MpNone => mp.conf.override)
    /\ LET s == IF mp.source = MpNone THEN mp ELSE MpReplace(mp)
           t == MpSetReady([s EXCEPT !.source = x])
           u == IF t.conf.demand /\ t.demand # "initial"
                THEN MpScheduleClose([t EXCEPT !.readyTimer = FALSE]) ELSE t
       IN  mp' = MpAnswer(MpConsume(u), x, [is |-> "publishing", stream |-> u.stream, told |-> FALSE])

\* Only the publisher of the path takes its stream away.
MpIsPublisher(s, x) == s.source = x

MpRemovePublisherOf(x) ==
    /\ mp.sessions[x].is = "publishing"
    /\ IF mp.pc = "run"
       THEN LET s == MpAnswer(mp, x, MpIdle)
            IN  mp' = MpOrClose(IF MpIsPublisher(s, x) THEN MpRemovePublisher(s) ELSE s)
       ELSE mp.canceled /\ mp' = MpAnswer(mp, x, MpIdle)

----------------------------------------------------------------------------
(* The instance: it tries, asks to be ready, and later takes that back.    *)

MpInstance(from, to) == mp.handler.instance = from /\ mp' = [mp EXCEPT !.handler.instance = to]

MpInstanceAsks == MpInstance("trying", "asking")
MpInstanceFails == MpInstance("trying", "ending")
MpInstanceLeaves == MpInstance("ready", "leaving")
\* SetReady and SetNotReady return when the handler has been told to stop.
MpInstanceGivesUp ==
    /\ mp.handler.canceled
    /\ \/ mp.handler.loop # "fwdReady" /\ MpInstance("asking", "ending")
       \/ mp.handler.loop # "fwdNotReady" /\ MpInstance("leaving", "ending")

(* The handler: Handler.run, one case of its select per action.            *)

MpLoop(from, to) == mp.handler.loop = from /\ mp' = [mp EXCEPT !.handler.loop = to]

MpHandlerForwards ==
    \/ mp.handler.instance = "asking" /\ MpLoop("select", "fwdReady")
    \/ mp.handler.instance = "leaving" /\ MpLoop("select", "fwdNotReady")

\* The path, or the handler itself, is ending: the instance gets an error.
MpHandlerRefuses ==
    /\ mp.handler.loop \in {"fwdReady", "fwdNotReady"}
    /\ mp.canceled \/ mp.handler.canceled
    /\ mp' = [mp EXCEPT !.handler.loop = "select", !.handler.instance = "ending"]

\* The instance has returned an error; it is made again after a pause of five
\* seconds, by when a path whose context has ended has noticed it.
MpHandlerRecreates ==
    /\ mp.handler.loop = "select"
    /\ \/ MpInstance("ending", "none")
       \/ ~(mp.canceled /\ mp.pc = "run") /\ MpInstance("none", "trying")

MpHandlerCanceled ==
    /\ mp.handler.loop = "select" /\ mp.handler.canceled
    /\ mp' = [mp EXCEPT !.handler = IF @.instance = "none" THEN MpOff ELSE [@ EXCEPT !.loop = "drain"]]

MpHandlerDrains ==
    /\ mp.handler.loop = "drain" /\ mp.handler.instance = "ending"
    /\ mp' = [mp EXCEPT !.handler = MpOff]

----------------------------------------------------------------------------
(* What the path does for the handler.                                     *)

\* doSourceStaticSetReady.
MpSourceReady ==
    /\ mp.pc = "run" /\ mp.handler.loop = "fwdReady" /\ mp.made < MpMaxStreams
    /\ LET s == MpSetReady([mp EXCEPT !.handler.loop = "select", !.handler.instance = "ready"])
           t == IF s.conf.demand THEN MpScheduleClose([s EXCEPT !.readyTimer = FALSE]) ELSE s
       IN  mp' = MpConsume(t)

\* The instance is answered before the source is stopped.
MpNotReadyAnswer(s) == [s EXCEPT !.handler.loop = "select", !.handler.instance = "ending"]

\* doSourceStaticSetNotReady.
MpSourceNotReady ==
    /\ mp.pc = "run" /\ mp.handler.loop = "fwdNotReady"
    /\ LET s == MpNotReadyAnswer(MpSetNotReady(mp))
       IN  mp' = IF s.pc = "run" /\ s.conf.demand /\ s.demand # "initial" THEN MpDemandStop(s) ELSE s

\* Handler.Stop returns.
MpStopped ==
    /\ mp.pc \in {"stopping run", "stopping done"} /\ mp.handler.loop = "off"
    /\ mp' = [mp EXCEPT !.pc = IF mp.pc = "stopping run" THEN "run" ELSE "done"]

MpNext ==
    \/ MpReadyTimer \/ MpCloseTimer \/ MpReloadConf \/ MpCancel \/ MpTerminate
    \/ \E x \in MpClients :
          \/ MpDescribe(x) \/ MpAddReader(x) \/ MpRemoveReader(x)
          \/ MpAddPublisher(x) \/ MpRemovePublisherOf(x)
    \/ MpInstanceAsks \/ MpInstanceFails \/ MpInstanceLeaves \/ MpInstanceGivesUp
    \/ MpHandlerForwards \/ MpHandlerRefuses \/ MpHandlerRecreates
    \/ MpHandlerCanceled \/ MpHandlerDrains
    \/ MpSourceReady \/ MpSourceNotReady \/ MpStopped

\* The goroutine of the handler or of its instance, once its context has ended.
MpHandlerGoesOn ==
    \/ MpHandlerDrains
    \/ /\ mp.handler.canceled
       /\ \/ MpInstanceAsks \/ MpInstanceFails \/ MpInstanceLeaves \/ MpInstanceGivesUp
          \/ MpHandlerForwards \/ MpHandlerRefuses

\* The goroutine of the path.
MpGoesOn == MpStopped \/ MpTerminate \/ MpReadyTimer

\* A select picks at random, so the end of a context is not put off forever.
MpFair == WF_mp(MpHandlerGoesOn) /\ WF_mp(MpGoesOn) /\ SF_mp(MpHandlerCanceled)

MpSpec == MpInit /\ [][MpNext]_mp /\ MpFair

----------------------------------------------------------------------------
(* Properties.                                                             *)

MpSessionStates == {"idle", "held", "reading", "publishing"}

MpTypeOK ==
    /\ mp.pc \in {"run", "stopping run", "stopping done", "done", "panic"}
    /\ mp.source \in {MpNone, "redirect", "handler"} \cup MpClients
    /\ mp.stream \in 0..MpMaxStreams /\ mp.made \in mp.stream..MpMaxStreams
    /\ mp.demand \in {"initial", "waitingReady", "ready", "closing"}
    /\ mp.readers \subseteq MpClients
    /\ mp.sessions \in [MpClients -> [is : MpSessionStates, stream : 0..MpMaxStreams,
                                      told : BOOLEAN]]

\* No order of events starts a handler twice, stops one that does not run,
\* or calls a hook that is nil ("should not happen" in handler.go).
MpNeverPanics == mp.pc # "panic"

\* Who has been given a stream is a party of the path that now has this very
\* stream, or has been told to close.
MpAttachedOrTold ==
    \A x \in MpClients :
       LET s == mp.sessions[x]
       IN  /\ s.is = "reading" => s.told \/ (x \in mp.readers /\ s.stream = mp.stream)
           /\ s.is = "publishing" => s.told \/ (mp.source = x /\ s.stream = mp.stream)

\* A running path records exactly while it has a stream and the configuration asks for it.
MpRecordsStream == mp.pc = "run" => mp.recorder = (mp.stream # 0 /\ mp.conf.record)

\* A path made from a regular expression ends with its last use, although its
\* reload, its close timer and the leaving of a reader do not look at that.
MpUnusedEnds == (mp.pc = "run" /\ mp.made > 0) => ~MpShouldClose(mp)

\* A request on hold of an on-demand source has the ready timer running for it.
MpHeldIsTimed ==
    (mp.pc = "run" /\ mp.conf.source = "static" /\ mp.describes \o mp.adds # << >>) => mp.readyTimer

\* All of them: who is attached to a path, who waits for it, and what it records.
MpPathServes == MpNeverPanics /\ MpAttachedOrTold /\ MpRecordsStream /\ MpUnusedEnds /\ MpHeldIsTimed

\* Stopping a source ends: path, handler and instance never wait for each other.
MpServed == mp.pc \notin {"stopping run", "stopping done"}
MpStopReturns == []<>MpServed
============================================================================
