------------------------------ MODULE MCParts ------------------------------
(***************************************************************************)
(* The smaller parts of both servers on small instances.  Of the Go        *)
(* server: the client of a camera, a stream whose buffers never fill, the  *)
(* signaling server, the paths of the RTSP server, the manager of          *)
(* commands, the configuration and the list of cameras; of the Kotlin      *)
(* server: the clients of cameras.  They share no state, so a behaviour is *)
(* one of one part: part is chosen at first and the others stay as they    *)
(* begin.                                                                  *)
(***************************************************************************)
EXTENDS RtspClient, Signaling, RtspPaths, ProcessManager, ConfigPaths, CctvSync,
        KotlinCameras

CONSTANTS Writers, Subscribers, BufferSize, ChanSize, MaxWrites, c1, c2

VARIABLES
    part,       \* the part that moves
    managerDone,
    entry, closed, bufOpen, buffer, wpc, seq, dpc, held, targets,
    subs, chan, stopped, wkpc, last, panicked

\* CoreStream; its ctxDone is not that of RtspClient.
Roomy == INSTANCE CoreStream WITH ctxDone <- managerDone

PartNames == {"client", "roomy", "signaling", "paths", "process", "config", "cctv",
              "cameras"}

roomyVars == <<managerDone, entry, closed, bufOpen, buffer, wpc, seq, dpc, held, targets,
               subs, chan, stopped, wkpc, last, panicked>>

PartsVars == <<part, vars, roomyVars, SigVars, PthVars, PrcVars, CfgVars, CctvVars, KcVars>>

PartsInit ==
    /\ part \in PartNames
    /\ Init /\ Roomy!Init /\ SigInit /\ PthInit /\ PrcInit /\ CfgInit /\ CctvInit
    /\ KcInit

PartsNext ==
    /\ UNCHANGED part
    /\ IF part = "client" THEN Next ELSE UNCHANGED vars
    /\ IF part = "roomy" THEN Roomy!Next ELSE UNCHANGED roomyVars
    /\ IF part = "signaling" THEN SigNext ELSE UNCHANGED SigVars
    /\ IF part = "paths" THEN PthNext ELSE UNCHANGED PthVars
    /\ IF part = "process" THEN PrcNext ELSE UNCHANGED PrcVars
    /\ IF part = "config" THEN CfgNext ELSE UNCHANGED CfgVars
    /\ IF part = "cctv" THEN CctvNext ELSE UNCHANGED CctvVars
    /\ IF part = "cameras" THEN KcNext ELSE UNCHANGED KcVars

\* The fairness of the modules, in lots of one step each: as only one part moves, a
\* condition on a lot says the same as one on each of its steps.
PartsMoving ==
    CASE part = "client" -> vars [] part = "signaling" -> SigVars [] part = "cameras" -> KcVars
      [] OTHER -> part

PartsGoOn(k) ==
    /\ UNCHANGED part
    /\ CASE part = "client" -> (k = 1 /\ Loop) \/ (k = 2 /\ StopClose)
         [] part = "signaling" ->
              \/ k \in 1..2 /\ SigReadEnd(<<c1, c2>>[k])
              \/ k \in 3..4 /\ SigWriterGoesOn(<<c1, c2>>[k - 2])
         [] part = "cameras" ->
              (k \in 1..3 /\ KcRequest(k)) \/ (k \in 4..6 /\ KcRuns(k - 3))
         [] OTHER -> FALSE

PartsFairness == \A k \in 1..6 : WF_PartsMoving(PartsGoOn(k))

PartsSpec == PartsInit /\ [][PartsNext]_PartsVars /\ PartsFairness

----------------------------------------------------------------------------
\* The types of the parts that have no run of their own.
PartsTypeOK == SigTypeOK /\ PthTypeOK /\ PrcTypeOK /\ CfgTypeOK /\ KcTypeOK

\* CoreStream's property, for this instance of it.
RoomyGapless == Roomy!Gapless
============================================================================
