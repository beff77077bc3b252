------------------------------ MODULE MtxCore ------------------------------
(***************************************************************************)
(* The core of MediaMTX (mediamtx-main/internal/core/core.go): it makes    *)
(* the resources of the server in one order, and on a reload closes, in    *)
(* the opposite order, those that the new configuration concerns, then     *)
(* makes them again.  Closing a resource closes those that hold it.        *)
(*                                                                         *)
(* New configurations come from the file and from handlers of the API      *)
(* (internal/api/api.go), which keeps a copy of the configuration under a  *)
(* mutex: it edits its copy and sends the result to the core.              *)
(*                                                                         *)
(* A configuration is a value for each group of settings that the core     *)
(* compares together.  The logger is held by everything, so it is not      *)
(* counted among what a resource holds.                                    *)
(***************************************************************************)
EXTENDS Naturals, Sequences, SequencesExt

CONSTANTS
    CorEdits,       \* edits: pairs of a group of settings and its new value
    CorMaxEdits     \* bound: edits of the file or through the API

ASSUME CorAssumption == CorMaxEdits \in Nat

\* The order in which createResources makes them; closeResources takes it backwards.
CorOrder == <<"logger", "auth", "metrics", "pprof", "cleaner", "playback", "paths", "rtsp", "rtsps",
              "rtmp", "rtmps", "hls", "webrtc", "srt", "api">>
CorResources == ToSet(CorOrder)
CorServers == {"rtsp", "rtsps", "rtmp", "rtmps", "hls", "webrtc", "srt"}

CorShared == {"timeouts", "queues", "rtspAddress", "rtspEncryption", "hooks", "srtpPorts"}
CorGroups == CorResources \cup CorShared

\* The settings that a resource is made from, besides its own.
CorSettings(r) ==
    {r} \cup CASE r \in {"logger", "cleaner"} -> {}
               [] r \in {"auth", "metrics", "pprof", "playback", "hls", "api"} -> {"timeouts"}
               [] r = "paths" -> {"timeouts", "queues", "rtspAddress", "rtspEncryption"}
               [] r = "rtsp" -> {"timeouts", "queues", "rtspAddress", "rtspEncryption", "hooks"}
               [] r = "rtsps" -> {"timeouts", "queues", "rtspAddress", "rtspEncryption", "hooks",
                                  "srtpPorts"}
               [] r \in {"rtmp", "rtmps"} -> {"timeouts", "rtspAddress", "hooks"}
               [] r = "webrtc" -> {"timeouts", "queues"}
               [] r = "srt" -> {"timeouts", "queues", "rtspAddress", "hooks"}

\* The resources that a resource is given when it is made.
CorHolds(r) ==
    CASE r \in {"logger", "auth", "cleaner"} -> {}
      [] r \in {"metrics", "pprof", "playback"} -> {"auth"}
      [] r = "paths" -> {"auth", "metrics"}
      [] r \in CorServers -> {"paths", "metrics"}
      [] r = "api" -> {"auth", "paths"} \cup CorServers

\* A resource is made if its configuration asks for it.
CorWanted(r, conf) ==
    CASE r = "rtsp" -> conf[r] # "off" /\ conf.rtspEncryption # "strict"
      [] r = "rtsps" -> conf[r] # "off" /\ conf.rtspEncryption # "no"
      [] OTHER -> conf[r] # "off"

VARIABLES
    cor,      \* the loop of the core, its configuration and the one being applied
    corUp,    \* each resource: 0, or the reload that made it, from what, and what it holds
    corFile,  \* the configuration file, and whether a change has been signalled
    corApi    \* the API: its copy, the handler that has the mutex, and goroutines that send

CorVars == <<cor, corUp, corFile, corApi>>

CorDown == [id |-> 0, from |-> << >>, holds |-> << >>]
CorStart == [g \in CorGroups |-> IF g = "rtspEncryption" THEN "optional" ELSE "a"]

CorInit ==
    /\ cor = [pc |-> "create", conf |-> CorStart, reloads |-> 0, edits |-> 0, byApi |-> FALSE,
              todo |-> CorResources]
    /\ corUp = [r \in CorResources |-> CorDown]
    /\ corFile = [conf |-> CorStart, signal |-> FALSE]
    /\ corApi = [conf |-> CorStart, handler |-> "none", sends |-> {}]

----------------------------------------------------------------------------
(* closeResources.                                                         *)

\* The groups whose change closes a resource: those it is made from, except that
\* the ports of SRTP are not compared.
CorCompared(r) == CorSettings(r) \ {"srtpPorts"}

\* The resources whose closing closes a resource.
CorClosedWith(r) == CASE r \in {"auth", "logger"} -> {}
                      [] r = "srt" -> {"paths", "logger"}
                      [] r = "api" -> (CorHolds(r) \ {"rtmps"}) \cup {"logger"}
                      [] OTHER -> CorHolds(r) \cup {"logger"}

\* A change closes a resource if it concerns the resource's settings or closes, before
\* it, another that the resource is closed with.
CorConcerns(old, new, r, before) ==
    \/ \E g \in CorCompared(r) : old[g] # new[g]
    \/ CorClosedWith(r) \cap before # {}

\* The resources that the change from one configuration to another closes.
CorCloses(old, new) ==
    LET closes[i \in 0..Len(CorOrder)] ==
          IF i = 0 THEN {}
          ELSE closes[i - 1] \cup {r \in {CorOrder[i]} : CorConcerns(old, new, r, closes[i - 1])}
    IN  closes[Len(CorOrder)]

CorUpSet == {r \in CorResources : corUp[r].id # 0}
CorRank(r) == CHOOSE i \in 1..Len(CorOrder) : CorOrder[i] = r

\* Mutant: resources are closed in the order they were made.
CorNextToCloseFirst(s) == CHOOSE r \in s : \A q \in s : CorRank(r) <= CorRank(q)
CorNextToClose(s) == CHOOSE r \in s : \A q \in s : CorRank(r) >= CorRank(q)
CorNextToMake(s) == CHOOSE r \in s : \A q \in s : CorRank(r) <= CorRank(q)

\* reloadConf begins.
CorReload(new, byApi) ==
    LET closes == CorCloses(cor.conf, new) \cap CorUpSet
    IN  cor' = [cor EXCEPT !.pc = "close", !.conf = new, !.reloads = @ + 1, !.byApi = byApi,
                           !.todo = closes]

CorReloadFile ==
    /\ cor.pc = "run" /\ corFile.signal
    /\ corFile' = [corFile EXCEPT !.signal = FALSE]
    /\ CorReload(corFile.conf, FALSE)
    /\ UNCHANGED <<corUp, corApi>>

\* An API that stays is given the configuration before anything is closed, unless it
\* sent it ("avoid a loop"); that takes the mutex of the API.
CorTellsApi == "api" \in CorUpSet /\ "api" \notin cor.todo /\ ~cor.byApi

CorCloseOne ==
    /\ cor.pc = "stop" \/ (cor.pc = "close" /\ ~CorTellsApi)
    /\ cor.todo # {}
    /\ LET r == CorNextToClose(cor.todo)
       IN  /\ cor' = [cor EXCEPT !.todo = @ \ {r}]
           /\ corUp' = [corUp EXCEPT ![r] = CorDown]
    /\ UNCHANGED <<corFile, corApi>>

\* API.ReloadConf.
CorApiReload ==
    /\ cor.pc = "close" /\ CorTellsApi /\ corApi.handler = "none"
    /\ corApi' = [corApi EXCEPT !.conf = cor.conf]
    /\ cor' = [cor EXCEPT !.byApi = TRUE]
    /\ UNCHANGED <<corUp, corFile>>

\* createResources begins, with whatever is wanted and not there.
CorClosed ==
    /\ cor.pc = "close" /\ cor.todo = {} /\ ~CorTellsApi
    /\ cor' = [cor EXCEPT !.pc = "create",
                          !.todo = {r \in CorResources \ CorUpSet : CorWanted(r, cor.conf)}]
    /\ UNCHANGED <<corUp, corFile, corApi>>

CorCreateOne ==
    /\ cor.pc = "create" /\ cor.todo # {}
    /\ LET r == CorNextToMake(cor.todo)
       IN  /\ cor' = [cor EXCEPT !.todo = @ \ {r}]
           /\ corUp' = [corUp EXCEPT ![r] =
                          [id |-> cor.reloads + 1,
                           from |-> [g \in CorSettings(r) |-> cor.conf[g]],
                           holds |-> [d \in CorHolds(r) |-> corUp[d].id]]]
           /\ corApi' = IF r = "api" THEN [corApi EXCEPT !.conf = cor.conf] ELSE corApi
    /\ UNCHANGED corFile

\* A listener that cannot be opened ends the server: everything is closed.
CorCreateFails ==
    /\ cor.pc = "create" /\ cor.todo # {}
    /\ CorNextToMake(cor.todo) \notin {"auth", "cleaner", "paths"}
    /\ cor' = [cor EXCEPT !.pc = "stop", !.todo = CorUpSet]
    /\ UNCHANGED <<corUp, corFile, corApi>>

CorCreated ==
    /\ cor.pc = "create" /\ cor.todo = {}
    /\ cor' = [cor EXCEPT !.pc = "run"]
    /\ UNCHANGED <<corUp, corFile, corApi>>

CorStopped ==
    /\ cor.pc = "stop" /\ cor.todo = {}
    /\ cor' = [cor EXCEPT !.pc = "done"]
    /\ UNCHANGED <<corUp, corFile, corApi>>

----------------------------------------------------------------------------
(* Where new configurations come from.                                     *)

CorEdited(conf, e) == [conf EXCEPT ![e[1]] = e[2]]
CorCounted == cor.edits < CorMaxEdits /\ cor' = [cor EXCEPT !.edits = @ + 1]

\* Edits wait for the moments when something can still come of them: the core looks at
\* nothing else while it closes and makes resources, except at the mutex of the API.
CorLooks == cor.pc = "run" \/ (cor.pc = "close" /\ CorTellsApi)

\* The file is written, and its watcher signals that, unless it has signalled a moment ago.
CorFileChanges(e) ==
    /\ CorLooks /\ corFile.conf # CorEdited(corFile.conf, e)
    /\ CorCounted
    /\ \E seen \in BOOLEAN :
          corFile' = [conf |-> CorEdited(corFile.conf, e), signal |-> corFile.signal \/ seen]
    /\ UNCHANGED <<corUp, corApi>>

\* A handler edits the copy of the API under the mutex and keeps the mutex while it
\* sends the result; the handler of global settings leaves that to a goroutine.
CorEdit(e, inGoroutine) ==
    /\ CorLooks /\ corUp["api"].id # 0 /\ corApi.handler = "none"
    /\ CorCounted
    /\ LET new == CorEdited(corApi.conf, e)
       IN  /\ new # corApi.conf
           /\ corApi' = IF inGoroutine THEN [corApi EXCEPT !.conf = new, !.sends = @ \cup {new}]
                        ELSE [corApi EXCEPT !.conf = new, !.handler = "sends"]
    /\ UNCHANGED <<corUp, corFile>>

\* onConfigGlobalPatch, and the handlers of path defaults and paths.
CorPatchGlobal(e) == e[1] # "cleaner" /\ CorEdit(e, TRUE)
CorPatchPaths(e) == e[1] = "cleaner" /\ CorEdit(e, FALSE)

\* APIConfigSet: the core takes it when it is at its select, or the sender gives up.
CorTakeSent(conf) ==
    /\ conf \in corApi.sends
    /\ corApi' = [corApi EXCEPT !.sends = @ \ {conf}]
    /\ \/ cor.pc = "run" /\ CorReload(conf, TRUE)
       \/ cor.pc \in {"stop", "done"} /\ UNCHANGED cor
    /\ UNCHANGED <<corUp, corFile>>
CorTakeHandler ==
    /\ corApi.handler = "sends"
    /\ corApi' = [corApi EXCEPT !.handler = "none"]
    /\ \/ cor.pc = "run" /\ CorReload(corApi.conf, TRUE)
       \/ cor.pc \in {"stop", "done"} /\ UNCHANGED cor
    /\ UNCHANGED <<corUp, corFile>>

\* Close, or an interrupt.
CorClose ==
    /\ cor.pc = "run"
    /\ cor' = [cor EXCEPT !.pc = "stop", !.todo = CorUpSet]
    /\ UNCHANGED <<corUp, corFile, corApi>>

CorNext ==
    \/ CorReloadFile \/ CorCloseOne \/ CorApiReload \/ CorClosed \/ CorCreateOne \/ CorCreateFails
    \/ CorCreated \/ CorStopped \/ CorTakeHandler \/ CorClose
    \/ \E e \in CorEdits : CorFileChanges(e) \/ CorPatchGlobal(e) \/ CorPatchPaths(e)
    \/ \E conf \in corApi.sends : CorTakeSent(conf)

CorSpec == CorInit /\ [][CorNext]_CorVars

----------------------------------------------------------------------------
(* Properties.                                                             *)

CorTypeOK ==
    /\ cor.pc \in {"run", "close", "create", "stop", "done"} /\ cor.todo \subseteq CorResources
    /\ \A r \in CorResources : corUp[r].id \in 0..(CorMaxEdits + 1)
    /\ corApi.handler \in {"none", "sends"}

CorLiveRef(r, d) == corUp[r].id # 0 => corUp[r].holds[d] = corUp[d].id

\* At every moment of a reload, a resource that is up holds the instances that are
\* up: nothing is closed before those who use it.  (The API does not follow the
\* RTMPS server: closeAPI does not look at closeRTMPSServer.)
CorHoldsLive ==
    \A r \in CorResources : \A d \in CorHolds(r) : <<r, d>> # <<"api", "rtmps">> => CorLiveRef(r, d)

\* After a reload exactly the wanted resources are up, each made from the settings
\* that are in force (the ports of SRTP apart, which a reload does not look at).
CorUpToDate ==
    cor.pc = "run" =>
       \A r \in CorResources :
          IF CorWanted(r, cor.conf)
          THEN corUp[r].id # 0 /\ \A g \in CorSettings(r) \ {"srtpPorts"} :
                                     corUp[r].from[g] = cor.conf[g]
          ELSE corUp[r].id = 0

\* Both: the resources of the core are wired as the settings say, in and after a reload.
CorResourcesFit == CorHoldsLive /\ CorUpToDate
============================================================================
