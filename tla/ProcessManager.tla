--------------------------- MODULE ProcessManager ---------------------------
(***************************************************************************)
(* process.Manager of internal/process/manager.go: external commands, each *)
(* watched by a goroutine that waits for its exit, then restarts it or     *)
(* takes it from the map; a ticker stops the ones without activity.        *)
(*                                                                         *)
(* Stop holds the lock while it waits 100 ms for the process to go.  The   *)
(* watcher of a stopped command sees it killed, which is an exit with an   *)
(* error: with Restart it starts the command again two seconds later.      *)
(* Time is abstracted: a process that has CloseAfter may be found inactive *)
(* at any check, since nothing calls UpdateActivity.                       *)
(***************************************************************************)
EXTENDS Naturals, FiniteSets

CONSTANTS
    PrcIds,      \* process ids
    PrcMax       \* bound: processes started

\* "none" stands for no id.
ASSUME PrcAssumption == PrcMax \in Nat /\ "none" \notin PrcIds

Prc == 1..PrcMax
PrcNone == 0

VARIABLES
    prcEntry,    \* Manager.processes: the process of each id, or none
    prcMade,     \* processes started
    prcOf,       \* of each process: its id and whether it has Restart
    prcAlive,    \* processes that run
    prcKilled,   \* processes whose context was cancelled
    prcFailed,   \* processes that ended with an error
    prcWatch,    \* the watcher of each: "none", "waiting", "sleeping", "removing", "done"
    prcStopping, \* the id that Stop is working on, or none: it holds the lock
    prcToStop,   \* ids the ticker found inactive and has still to stop
    prcTakenBy   \* of each process: the one whose watcher deleted its entry, or none (history)

PrcVars == <<prcEntry, prcMade, prcOf, prcAlive, prcKilled, prcFailed, prcWatch, prcStopping,
             prcToStop, prcTakenBy>>

PrcNoId == "none"

PrcInit ==
    /\ prcEntry = [i \in PrcIds |-> PrcNone] /\ prcMade = 0
    /\ prcOf = [p \in Prc |-> [id |-> PrcNoId, restart |-> FALSE]]
    /\ prcAlive = {} /\ prcKilled = {} /\ prcFailed = {}
    /\ prcWatch = [p \in Prc |-> "none"]
    /\ prcStopping = PrcNoId /\ prcToStop = {}
    /\ prcTakenBy = [p \in Prc |-> PrcNone]

\* Mutant: a command that is already running is not looked for.
PrcMayStartAny(i) == prcStopping = PrcNoId

\* Start holds the lock, and refuses an id that is in the map.
PrcMayStart(i) == prcStopping = PrcNoId /\ prcEntry[i] = PrcNone

\* What a successful Start does; `watch` is the watchers after it.
PrcLaunch(i, restart, watch) ==
    /\ prcMade < PrcMax
    /\ prcMade' = prcMade + 1
    /\ prcEntry' = [prcEntry EXCEPT ![i] = prcMade + 1]
    /\ prcOf' = [prcOf EXCEPT ![prcMade + 1] = [id |-> i, restart |-> restart]]
    /\ prcAlive' = prcAlive \cup {prcMade + 1}
    /\ prcWatch' = [watch EXCEPT ![prcMade + 1] = "waiting"]

\* Refused, or when cmd.Start fails, Start leaves everything as it was.
PrcStart(i, restart) ==
    /\ PrcMayStart(i)
    /\ PrcLaunch(i, restart, prcWatch)
    /\ UNCHANGED <<prcKilled, prcFailed, prcStopping, prcToStop, prcTakenBy>>

\* The command ends by itself, or is killed once its context is cancelled: an error,
\* unless it ended well just before the kill.
PrcExit(p, failed) ==
    /\ p \in prcAlive
    /\ prcAlive' = prcAlive \ {p}
    /\ prcFailed' = IF failed THEN prcFailed \cup {p} ELSE prcFailed
    /\ UNCHANGED <<prcEntry, prcMade, prcOf, prcKilled, prcWatch, prcStopping, prcToStop, prcTakenBy>>

\* monitorProcess: Wait has returned.
PrcReaped(p) ==
    /\ prcWatch[p] = "waiting" /\ p \notin prcAlive
    /\ prcWatch' = [prcWatch EXCEPT ![p] =
                      IF prcOf[p].restart /\ p \in prcFailed THEN "sleeping" ELSE "removing"]
    /\ UNCHANGED <<prcEntry, prcMade, prcOf, prcAlive, prcKilled, prcFailed, prcStopping,
                   prcToStop, prcTakenBy>>

\* The restart, if the map has no entry of the id any more and cmd.Start does not
\* fail; the watcher ends in any case.
PrcRestart(p) ==
    /\ prcWatch[p] = "sleeping" /\ prcStopping = PrcNoId
    /\ \/ /\ PrcMayStart(prcOf[p].id)
          /\ PrcLaunch(prcOf[p].id, TRUE, [prcWatch EXCEPT ![p] = "done"])
       \/ /\ prcWatch' = [prcWatch EXCEPT ![p] = "done"]
          /\ UNCHANGED <<prcMade, prcEntry, prcOf, prcAlive>>
    /\ UNCHANGED <<prcKilled, prcFailed, prcStopping, prcToStop, prcTakenBy>>

\* The watcher takes the id from the map, whichever process it stands for.
PrcRemove(p) ==
    /\ prcWatch[p] = "removing" /\ prcStopping = PrcNoId
    /\ prcEntry' = [prcEntry EXCEPT ![prcOf[p].id] = PrcNone]
    /\ prcTakenBy' = [r \in Prc |-> IF prcEntry[prcOf[p].id] = r THEN p ELSE prcTakenBy[r]]
    /\ prcWatch' = [prcWatch EXCEPT ![p] = "done"]
    /\ UNCHANGED <<prcMade, prcOf, prcAlive, prcKilled, prcFailed, prcStopping, prcToStop>>

----------------------------------------------------------------------------
(* Stop, called by a handler, by the ticker, and by StopAll.               *)

PrcCancel(i) ==
    /\ prcStopping = PrcNoId /\ prcEntry[i] # PrcNone
    /\ prcStopping' = i
    /\ prcKilled' = prcKilled \cup {prcEntry[i]}
    /\ UNCHANGED <<prcEntry, prcMade, prcOf, prcAlive, prcFailed, prcWatch, prcTakenBy>>

\* A handler, or StopAll for one of the ids it listed.
PrcStop(i) == PrcCancel(i) /\ UNCHANGED prcToStop

\* checkInactiveProcesses lists what is inactive, then stops it by id: an id
\* that is gone meanwhile is an error that is logged.
PrcListInactive(ids) ==
    /\ prcToStop = {} /\ prcStopping = PrcNoId
    /\ ids # {} /\ \A i \in ids : prcEntry[i] # PrcNone
    /\ prcToStop' = ids
    /\ UNCHANGED <<prcEntry, prcMade, prcOf, prcAlive, prcKilled, prcFailed, prcWatch,
                   prcStopping, prcTakenBy>>

PrcStopInactive(i) ==
    /\ i \in prcToStop /\ prcStopping = PrcNoId
    /\ prcToStop' = prcToStop \ {i}
    /\ IF prcEntry[i] # PrcNone
       THEN PrcCancel(i)
       ELSE UNCHANGED <<prcEntry, prcMade, prcOf, prcAlive, prcKilled, prcFailed, prcWatch,
                        prcStopping, prcTakenBy>>

PrcStopped(i) == [prcEntry EXCEPT ![i] = PrcNone]

\* 100 ms later Stop deletes the entry, whether the process is gone or not.
PrcForget(i) ==
    /\ prcStopping = i
    /\ prcStopping' = PrcNoId
    /\ prcEntry' = PrcStopped(i)
    /\ UNCHANGED <<prcMade, prcOf, prcAlive, prcKilled, prcFailed, prcWatch, prcToStop, prcTakenBy>>

PrcProcess(p) ==
    \/ \E failed \in BOOLEAN : PrcExit(p, failed)
    \/ PrcReaped(p) \/ PrcRestart(p) \/ PrcRemove(p)

PrcManager(i) ==
    \/ \E restart \in BOOLEAN : PrcStart(i, restart)
    \/ PrcStop(i) \/ PrcStopInactive(i) \/ PrcForget(i)

PrcNext ==
    \/ \E p \in Prc : PrcProcess(p)
    \/ \E i \in PrcIds : PrcManager(i)
    \/ \E ids \in SUBSET PrcIds : PrcListInactive(ids)

PrcSpec == PrcInit /\ [][PrcNext]_PrcVars

----------------------------------------------------------------------------
(* Properties.                                                             *)

PrcTypeOK ==
    /\ prcEntry \in [PrcIds -> Prc \cup {PrcNone}] /\ prcMade \in 0..PrcMax
    /\ prcOf \in [Prc -> [id : PrcIds \cup {PrcNoId}, restart : BOOLEAN]]
    /\ prcAlive \subseteq Prc /\ prcKilled \subseteq Prc /\ prcFailed \subseteq Prc
    /\ prcWatch \in [Prc -> {"none", "waiting", "sleeping", "removing", "done"}]
    /\ prcStopping \in PrcIds \cup {PrcNoId} /\ prcToStop \subseteq PrcIds
    /\ prcTakenBy \in [Prc -> Prc \cup {PrcNone}]

\* The watcher of an earlier command of the id deleted the entry of p.
PrcTaken(p) ==
    /\ prcTakenBy[p] \in 1..(p - 1)
    /\ prcOf[prcTakenBy[p]].id = prcOf[p].id

(* A command that runs and that nobody has tried to stop can be found      *)
(* under its id, and so can be stopped, or seen to run by IsRunning - with *)
(* one exception: the watcher of an earlier command of the id took the     *)
(* entry away.  That begins with a Stop: a watcher comes upon an entry     *)
(* that is not its own only when Stop had deleted its own, or when its own *)
(* had been taken in the same way.  So, without Stop, Start never runs two *)
(* commands of one id side by side.                                        *)
PrcCommandsAreKnown ==
    /\ \A p \in prcAlive \ prcKilled : prcEntry[prcOf[p].id] = p \/ PrcTaken(p)
    /\ \A p \in Prc : PrcTaken(p) => prcTakenBy[p] \in prcKilled \/ PrcTaken(prcTakenBy[p])
=============================================================================
