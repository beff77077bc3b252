---------------------------- MODULE MtxCommands ----------------------------
(***************************************************************************)
(* The external commands of MediaMTX: externalcmd.Cmd and Pool, and the    *)
(* hooks of a connection, reader, path or demand.  A hook starts its       *)
(* command ("on"); the function it returns closes it and launches another  *)
(* one ("un") that nobody closes.  core closes the pool last, after        *)
(* everything that has hooks.                                              *)
(***************************************************************************)
EXTENDS Naturals

VARIABLES
    hook,       \* "none", "open", or "left" once its closing function was called
    restart,    \* the configuration restarts the first command (RunOnReadyRestart...)
    pool,       \* "open"; "waits" in Pool.Close; "closed"
    cmd         \* [at |-> where Cmd.run is, terminate |-> closed, process |-> its process]

CmdVars == <<hook, restart, pool, cmd>>

CmdIds == {"on", "un"}

CmdInit ==
    /\ hook = "none" /\ pool = "open"
    /\ restart \in BOOLEAN
    /\ cmd = [c \in CmdIds |-> [at |-> "none", terminate |-> FALSE, process |-> "none"]]

----------------------------------------------------------------------------
(* The hooks.                                                              *)

\* NewCmd, for the commands that are configured.
CmdNew(c) == [cmd EXCEPT ![c].at = "starts"]

CmdOpen ==
    /\ hook = "none" /\ pool = "open"
    /\ hook' = "open"
    /\ cmd' \in {cmd, CmdNew("on")}
    /\ UNCHANGED <<restart, pool>>

CmdLeave ==
    /\ hook = "open"
    /\ hook' = "left"
    /\ LET close(f) == [f EXCEPT !["on"].terminate = f["on"].at # "none"]
       IN  cmd' \in {close(cmd), close(CmdNew("un"))}
    /\ UNCHANGED <<restart, pool>>

----------------------------------------------------------------------------
(* Cmd.run and runOSSpecific.                                              *)

CmdTo(c, at, process) ==
    /\ cmd' = [cmd EXCEPT ![c].at = at, ![c].process = process]
    /\ UNCHANGED <<hook, restart, pool>>

CmdAfterExit(c) == IF c = "on" /\ restart THEN "pause" ELSE "done"

\* The command is started, without a look at terminate; its text or the start may be at fault.
CmdStart(c) ==
    cmd[c].at = "starts" /\ (CmdTo(c, "runs", "up") \/ CmdTo(c, CmdAfterExit(c), "none"))

\* The process ends, by itself or by the signal; the goroutine of cmd.Wait waits to say so.
CmdProcessEnds(c) == cmd[c].process = "up" /\ CmdTo(c, cmd[c].at, "ended")

CmdExited(c) ==
    cmd[c].at = "runs" /\ cmd[c].process = "ended" /\ CmdTo(c, CmdAfterExit(c), "none")

CmdKill(c) == cmd[c].at = "runs" /\ cmd[c].terminate /\ CmdTo(c, "killed", cmd[c].process)
CmdKilled(c) == cmd[c].at = "killed" /\ cmd[c].process = "ended" /\ CmdTo(c, "done", "none")

CmdAgain(c) == cmd[c].at = "pause" /\ CmdTo(c, "starts", "none")
CmdNotAgain(c) == cmd[c].at = "pause" /\ cmd[c].terminate /\ CmdTo(c, "done", "none")

----------------------------------------------------------------------------
(* Pool.Close waits for the commands that were made and have not ended.    *)

CmdPoolClose ==
    /\ pool = "open" /\ hook # "open"
    /\ pool' = "waits" /\ UNCHANGED <<hook, restart, cmd>>

CmdPoolClosed ==
    /\ pool = "waits" /\ \A c \in CmdIds : cmd[c].at \in {"none", "done"}
    /\ pool' = "closed" /\ UNCHANGED <<hook, restart, cmd>>

CmdRuns(c) ==
    \/ CmdStart(c) \/ CmdProcessEnds(c) \/ CmdExited(c) \/ CmdKill(c) \/ CmdKilled(c)
    \/ CmdAgain(c) \/ CmdNotAgain(c)

CmdNext ==
    CmdOpen \/ CmdLeave \/ CmdPoolClose \/ CmdPoolClosed \/ \E c \in CmdIds : CmdRuns(c)

\* A goroutine goes on, and a process that was interrupted ends.
CmdGoesOn(c) ==
    \/ CmdStart(c) \/ CmdExited(c) \/ CmdKilled(c) \/ CmdAgain(c)
    \/ cmd[c].at = "killed" /\ CmdProcessEnds(c)

\* A select that looks at terminate takes it at last.
CmdTerminated(c) == CmdKill(c) \/ CmdNotAgain(c)

CmdFair == \A c \in CmdIds : WF_CmdVars(CmdGoesOn(c)) /\ SF_CmdVars(CmdTerminated(c))

CmdSpec == CmdInit /\ [][CmdNext]_CmdVars /\ CmdFair

----------------------------------------------------------------------------
(* Properties.                                                             *)

\* The steps of the commands and of the pool.
CmdTypeOK ==
    /\ hook \in {"none", "open", "left"} /\ pool \in {"open", "waits", "closed"}
    /\ \A c \in CmdIds :
           /\ cmd[c].at \in {"none", "starts", "runs", "killed", "pause", "done"}
           /\ cmd[c].process \in {"none", "up", "ended"}

\* MediaMTX leaves no process behind: a command that has ended took its process with it, and when
\* the pool is closed every command has ended and none begins any more.
CmdNoneLeft ==
    /\ \A c \in CmdIds : cmd[c].at = "done" => cmd[c].process = "none"
    /\ pool = "closed" => hook # "open" /\ \A c \in CmdIds : cmd[c].at \in {"none", "done"}

\* A command whose hook was left ends, also one that is between two starts or starts once more.
CmdServed(c) == cmd[c].terminate => cmd[c].at = "done"
CmdEnds == \A c \in CmdIds : []<>CmdServed(c)
=============================================================================
