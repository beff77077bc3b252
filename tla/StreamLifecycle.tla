-------------------------- MODULE StreamLifecycle --------------------------
(***************************************************************************)
(* One stream id through the server: its row in the database, its object   *)
(* in StreamManager.streams, its entry in Application.rtspClients, its HLS *)
(* muxer, and the goroutines that change them: the HTTP handlers of        *)
(* internal/api/server.go, startOnDemandStream and stopStream of           *)
(* cmd/server/main.go, PathManager.GetOrCreatePath of the RTSP server, and  *)
(* loadStreamsFromConfigAndDB after a start of the process.  Ids do not    *)
(* interact, so one is enough.                                             *)
(*                                                                         *)
(* Each request is a goroutine interrupted between any two accesses to     *)
(* shared state; rtspClients has no lock.  `overlapped` remembers whether a *)
(* request has ever met another one, or the loading at boot, under way.    *)
(* A crash loses everything but the database.  Each call of the database   *)
(* may fail.  Client.Stop may be lost (RtspClient says when): a client that *)
(* was stopped and plays on is stray.  The streams API is create, update,  *)
(* delete and start; rtsp is an ANNOUNCE or DESCRIBE of an RTSP session;   *)
(* pathAdd and pathDelete are the paths API, which writes the database and *)
(* nothing else.                                                           *)
(***************************************************************************)
EXTENDS Naturals

CONSTANTS
    Sources,         \* camera URLs
    NoSource,        \* not a URL: no row, or no path in config.yaml
    ConfigSource,    \* the id's source in config.yaml, or NoSource
    ConfigOnDemand,  \* its sourceOnDemand there
    Kinds,           \* the requests clients send
    MaxRequests,     \* bound: requests
    MaxConcurrent,   \* bound: requests of a behaviour in which some overlap
    MaxCrashes       \* bound: crashes of the process

ASSUME SourcesAssumption == NoSource \notin Sources /\ ConfigSource \in Sources \cup {NoSource}
ASSUME KindsAssumption ==
    Kinds \subseteq {"create", "update", "delete", "start", "rtsp", "pathAdd", "pathDelete"}
ASSUME FlagsAssumption == ConfigOnDemand \in BOOLEAN
ASSUME BoundsAssumption == MaxRequests \in Nat /\ MaxConcurrent \in Nat /\ MaxCrashes \in Nat

Boot == 0                        \* loadStreamsFromConfigAndDB, as a request
Requests == 1..MaxRequests
Goroutines == {Boot} \cup Requests

\* Every request and every start of the process makes at most one of each.
MaxObjects == MaxRequests + MaxCrashes + 1
Objects == 1..MaxObjects
None == 0

VARIABLES
    db,         \* row: [source, onDemand]; source = NoSource when there is none
    stream,     \* the object in StreamManager.streams, or None
    streams,    \* number of stream objects made
    running,    \* the client in rtspClients, or None
    clients,    \* clients[c]: [state, source, stream] of every client object
    made,       \* number of client objects made
    muxer,      \* an HLS muxer exists
    rtspPath,   \* the object of the id's path in PathManager.paths, or None
    req,        \* req[r]: [kind, pc, row, stream, client] of every goroutine
    overlapped, \* a request has come while another was being handled
    startFailed, \* the last attempt to start the client has ended in an error
    unloaded,   \* the row is one that the loading at boot could not list
    crashes

shared == <<db, stream, streams, running, clients, made, muxer, rtspPath>>
ghosts == <<overlapped, startFailed, unloaded>>
vars == <<shared, req, ghosts, crashes>>

NoRow == [source |-> NoSource, onDemand |-> FALSE]
Rows == [source : Sources, onDemand : BOOLEAN]

Init ==
    /\ db \in {NoRow} \cup Rows
    /\ stream = None /\ streams = 0
    /\ running = None
    /\ clients = [c \in Objects |-> [state |-> "none", source |-> NoSource, stream |-> None]]
    /\ made = 0
    /\ muxer = FALSE
    /\ rtspPath = None
    /\ req = [r \in Goroutines |-> [kind |-> "boot", pc |-> IF r = Boot THEN "config" ELSE "idle",
                                    row |-> NoRow, stream |-> None, client |-> None]]
    /\ overlapped = FALSE /\ startFailed = FALSE /\ unloaded = FALSE
    /\ crashes = 0

Idle == \A r \in Goroutines : req[r].pc \in {"idle", "done"}

Goto(r, pc) == req' = [req EXCEPT ![r].pc = pc]

----------------------------------------------------------------------------
(* Requests arrive.                                                        *)

\* A request body is a row; delete and start have none.
Bodies(kind) == IF kind \in {"create", "update", "pathAdd"} THEN Rows ELSE {NoRow}

FirstStep(kind) ==
    CASE kind = "start" -> "check"
      [] kind = "rtsp"  -> "path"
      [] OTHER          -> "row"

Arrive(r, kind, row) ==
    /\ req[r].pc = "idle"
    /\ \A q \in Requests : q < r => req[q].pc # "idle"
    /\ overlapped' = (overlapped \/ ~Idle)
    /\ overlapped' => r <= MaxConcurrent
    /\ req' = [req EXCEPT ![r] = [kind |-> kind, pc |-> FirstStep(kind), row |-> row,
                                  stream |-> None, client |-> None]]
    /\ UNCHANGED <<shared, startFailed, unloaded, crashes>>

\* streamRepo.Create, Update and Delete: an error, for want of the row or of the
\* database, ends the request.
InsertRow(r) ==
    /\ req[r].pc = "row"
    /\ req[r].kind \in {"create", "pathAdd"}
    /\ \/ db = NoRow /\ db' = req[r].row /\ Goto(r, IF req[r].kind = "create" THEN "object" ELSE "done")
       \/ db' = db /\ Goto(r, "done")
    /\ UNCHANGED <<stream, streams, running, clients, made, muxer, rtspPath, ghosts, crashes>>

UpdateRow(r) ==
    /\ req[r].pc = "row"
    /\ req[r].kind = "update"
    /\ \/ db # NoRow /\ db' = req[r].row /\ Goto(r, "muxer")
       \/ db' = db /\ Goto(r, "done")
    /\ UNCHANGED <<stream, streams, running, clients, made, muxer, rtspPath, ghosts, crashes>>

DeleteRow(r) ==
    /\ req[r].pc = "row"
    /\ req[r].kind \in {"delete", "pathDelete"}
    /\ \/ /\ db # NoRow /\ db' = NoRow /\ unloaded' = FALSE
          /\ Goto(r, IF req[r].kind = "delete" THEN "muxer" ELSE "done")
       \/ UNCHANGED <<db, unloaded>> /\ Goto(r, "done")
    /\ UNCHANGED <<stream, streams, running, clients, made, muxer, rtspPath, overlapped, startFailed,
                   crashes>>

\* StreamManager.CreateStream; the handler goes on whether or not there was one.
CreateObject(r) ==
    /\ req[r].pc = "object"
    /\ IF stream = None
       THEN streams' = streams + 1 /\ stream' = streams'
       ELSE UNCHANGED <<stream, streams>>
    /\ Goto(r, IF req[r].row.onDemand THEN "done" ELSE "check")
    /\ UNCHANGED <<db, running, clients, made, muxer, rtspPath, ghosts, crashes>>

\* PathManager.GetOrCreatePath, under pm.mu: a path is made over the object there is, or over one
\* made for it.  Nothing removes a path.
FindPath(r) ==
    /\ req[r].pc = "path"
    /\ \A q \in Requests : req[q].pc # "pathObject"
    /\ rtspPath' = IF rtspPath = None THEN stream ELSE rtspPath
    /\ Goto(r, IF rtspPath' = None THEN "pathObject" ELSE "done")
    /\ UNCHANGED <<db, stream, streams, running, clients, made, muxer, ghosts, crashes>>

\* CreateStream fails if a REST handler has made the object meanwhile.
MakePath(r) ==
    /\ req[r].pc = "pathObject"
    /\ IF stream = None
       THEN streams' = streams + 1 /\ stream' = streams' /\ rtspPath' = streams'
       ELSE UNCHANGED <<stream, streams, rtspPath>>
    /\ Goto(r, "done")
    /\ UNCHANGED <<db, running, clients, made, muxer, ghosts, crashes>>

----------------------------------------------------------------------------
(* startOnDemandStream, called by handleCreateStream, handleUpdateStream,  *)
(* handleStartStream, handleHLSPlaylist and handleWebRTCOffer.             *)

CheckRunning(r) ==
    /\ req[r].pc = "check"
    /\ Goto(r, IF running # None THEN "done" ELSE "stream")
    /\ UNCHANGED <<shared, ghosts, crashes>>

StartFails(r) == Goto(r, "done") /\ startFailed' = TRUE

FindStream(r) ==
    /\ req[r].pc = "stream"
    /\ IF stream = None
       THEN StartFails(r)
       ELSE /\ req' = [req EXCEPT ![r].pc = "source", ![r].stream = stream]
            /\ UNCHANGED startFailed
    /\ UNCHANGED <<shared, overlapped, unloaded, crashes>>

\* config.yaml first, the database if it has no such path; the query may fail.
FoundSources == IF ConfigSource # NoSource THEN {ConfigSource} ELSE {db.source, NoSource}

FindSource(r) ==
    /\ req[r].pc = "source"
    /\ \E source \in FoundSources :
         IF source = NoSource
         THEN StartFails(r)
         ELSE /\ req' = [req EXCEPT ![r].pc = "client", ![r].row.source = source]
              /\ UNCHANGED startFailed
    /\ UNCHANGED <<shared, overlapped, unloaded, crashes>>

\* createRTSPClient: the client starts and keeps the stream object it was given.
CreateClient(r) ==
    /\ req[r].pc = "client"
    /\ made' = made + 1
    /\ clients' = [clients EXCEPT ![made'] = [state |-> "live", source |-> req[r].row.source,
                                              stream |-> req[r].stream]]
    /\ req' = [req EXCEPT ![r].pc = "store", ![r].client = made']
    /\ UNCHANGED <<db, stream, streams, running, muxer, rtspPath, ghosts, crashes>>

\* It returns an error: NewClient does not accept the URL.
NoClient(r) ==
    /\ req[r].pc = "client"
    /\ StartFails(r)
    /\ UNCHANGED <<shared, overlapped, unloaded, crashes>>

StoreClient(r) ==
    /\ req[r].pc = "store"
    /\ running' = req[r].client
    /\ startFailed' = FALSE
    /\ Goto(r, "done")
    /\ UNCHANGED <<db, stream, streams, clients, made, muxer, rtspPath, overlapped, unloaded, crashes>>

----------------------------------------------------------------------------
(* stopStream, called by handleUpdateStream and handleDeleteStream, and    *)
(* the end of handleDeleteStream.  No process ever runs for an id: nothing *)
(* calls process.Manager.Start.                                            *)

\* Mutant: an update never starts the stream again.
AfterStopNoRestart(r) == IF req[r].kind = "delete" THEN "remove" ELSE "done"

AfterStop(r) ==
    IF req[r].kind = "delete" THEN "remove"
    ELSE IF req[r].row.onDemand THEN "done" ELSE "check"

RemoveMuxer(r) ==
    /\ req[r].pc = "muxer"
    /\ muxer' = FALSE
    /\ Goto(r, "lookup")
    /\ UNCHANGED <<db, stream, streams, running, clients, made, rtspPath, ghosts, crashes>>

LookupClient(r) ==
    /\ req[r].pc = "lookup"
    /\ req' = [req EXCEPT ![r].pc = IF running # None THEN "stop" ELSE AfterStop(r),
                          ![r].client = running]
    /\ UNCHANGED <<shared, ghosts, crashes>>

\* Client.Stop of the client found, which another request may have stopped.  One
\* that is about to open its session goes on with it (client.go:133, 220).
Stopped(state) == IF state \in {"live", "stray"} THEN {"stopped", "stray"} ELSE {"stopped"}

StopClient(r) ==
    /\ req[r].pc = "stop"
    /\ \E state \in Stopped(clients[req[r].client].state) :
         clients' = [clients EXCEPT ![req[r].client].state = state]
    /\ Goto(r, "unmap")
    /\ UNCHANGED <<db, stream, streams, running, made, muxer, rtspPath, ghosts, crashes>>

\* Mutant: the stopped client stays in the map.
KeepMapped(r) ==
    /\ req[r].pc = "unmap"
    /\ Goto(r, AfterStop(r))
    /\ UNCHANGED <<shared, ghosts, crashes>>

\* delete(rtspClients, id): whichever client is there now.
Unmap(r) ==
    /\ req[r].pc = "unmap"
    /\ running' = None
    /\ Goto(r, AfterStop(r))
    /\ UNCHANGED <<db, stream, streams, clients, made, muxer, rtspPath, ghosts, crashes>>

\* Mutant: the stream object stays when its row is deleted.
KeepObject(r) ==
    /\ req[r].pc = "remove"
    /\ Goto(r, "done")
    /\ UNCHANGED <<shared, ghosts, crashes>>

\* StreamManager.RemoveStream; not finding the stream is only logged.
RemoveObject(r) ==
    /\ req[r].pc = "remove"
    /\ stream' = None
    /\ Goto(r, "done")
    /\ UNCHANGED <<db, streams, running, clients, made, muxer, rtspPath, ghosts, crashes>>

----------------------------------------------------------------------------
(* Clients, and the process.                                               *)

MayPlay(c) == clients[c].state \in {"live", "stray"}

\* OnConnect makes a muxer if the id has a stream by then.
Connect(c) ==
    /\ MayPlay(c)
    /\ ~muxer
    /\ stream # None
    /\ muxer' = TRUE
    /\ UNCHANGED <<db, stream, streams, running, clients, made, rtspPath, req, ghosts, crashes>>

\* A client that has used up its attempts ends and stays in the map.
GiveUp(c) ==
    /\ clients[c].state = "live"
    /\ clients' = [clients EXCEPT ![c].state = "gaveUp"]
    /\ UNCHANGED <<db, stream, streams, running, made, muxer, rtspPath, req, ghosts, crashes>>

\* The session of a stray client ends, and with it the client.
StrayEnds(c) ==
    /\ clients[c].state = "stray"
    /\ clients' = [clients EXCEPT ![c].state = "stopped"]
    /\ UNCHANGED <<db, stream, streams, running, made, muxer, rtspPath, req, ghosts, crashes>>

\* loadStreamsFromConfigAndDB: a path of config.yaml without a row gets one,
\* then the rows are listed.  Failing to insert is only logged, failing to list
\* ends the loading.
SyncConfig ==
    /\ req[Boot].pc = "config"
    /\ \/ /\ db = NoRow /\ ConfigSource # NoSource
          /\ db' = [source |-> ConfigSource, onDemand |-> ConfigOnDemand]
       \/ db' = db
    /\ Goto(Boot, "list")
    /\ UNCHANGED <<stream, streams, running, clients, made, muxer, rtspPath, ghosts, crashes>>

ListRows ==
    /\ req[Boot].pc = "list"
    /\ \/ /\ req' = [req EXCEPT ![Boot].pc = IF db = NoRow THEN "done" ELSE "bootObject",
                                ![Boot].row = db]
          /\ unloaded' = FALSE
       \/ Goto(Boot, "done") /\ unloaded' = (db # NoRow)
    /\ UNCHANGED <<shared, overlapped, startFailed, crashes>>

\* A stream that exists already ends the loading of this row; an always-on
\* stream gets a client without a look at rtspClients (startRTSPClient).
BootObject ==
    /\ req[Boot].pc = "bootObject"
    /\ IF stream = None
       THEN /\ streams' = streams + 1 /\ stream' = streams'
            /\ Goto(Boot, IF req[Boot].row.onDemand THEN "done" ELSE "bootStream")
       ELSE /\ UNCHANGED <<stream, streams>>
            /\ Goto(Boot, "done")
    /\ UNCHANGED <<db, running, clients, made, muxer, rtspPath, ghosts, crashes>>

BootStream ==
    /\ req[Boot].pc = "bootStream"
    /\ IF stream = None
       THEN StartFails(Boot)
       ELSE /\ req' = [req EXCEPT ![Boot].pc = "client", ![Boot].stream = stream]
            /\ UNCHANGED startFailed
    /\ UNCHANGED <<shared, overlapped, unloaded, crashes>>

\* The process ends at any point and starts again.
Crash ==
    /\ crashes < MaxCrashes
    /\ crashes' = crashes + 1
    /\ stream' = None /\ running' = None /\ muxer' = FALSE /\ rtspPath' = None
    /\ startFailed' = FALSE /\ unloaded' = FALSE
    /\ clients' = [c \in Objects |->
                     [clients[c] EXCEPT !.state = IF @ = "none" THEN "none" ELSE "stopped"]]
    /\ req' = [r \in Goroutines |->
                 [req[r] EXCEPT !.pc = IF r = Boot THEN "config"
                                       ELSE IF @ = "idle" THEN "idle" ELSE "done"]]
    /\ UNCHANGED <<db, streams, made, overlapped>>

----------------------------------------------------------------------------
Start(r) ==
    \/ CheckRunning(r) \/ FindStream(r) \/ FindSource(r)
    \/ CreateClient(r) \/ NoClient(r) \/ StoreClient(r)
Stop(r) == RemoveMuxer(r) \/ LookupClient(r) \/ StopClient(r) \/ Unmap(r)
Handle(r) ==
    \/ InsertRow(r) \/ UpdateRow(r) \/ DeleteRow(r) \/ CreateObject(r)
    \/ Start(r) \/ Stop(r) \/ RemoveObject(r)
    \/ FindPath(r) \/ MakePath(r)
Load ==
    \/ SyncConfig \/ ListRows \/ BootObject \/ BootStream
    \/ CreateClient(Boot) \/ NoClient(Boot) \/ StoreClient(Boot)

Next ==
    \/ \E r \in Requests, kind \in Kinds : \E row \in Bodies(kind) : Arrive(r, kind, row)
    \/ \E r \in Requests : Handle(r)
    \/ Load
    \/ \E c \in Objects : Connect(c) \/ GiveUp(c) \/ StrayEnds(c)
    \/ Crash

Spec == Init /\ [][Next]_vars

----------------------------------------------------------------------------
(* Properties.                                                             *)

TypeOK ==
    /\ db \in {NoRow} \cup Rows
    /\ stream \in 0..MaxObjects /\ streams \in 0..MaxObjects
    /\ running \in 0..MaxObjects /\ made \in 0..MaxObjects
    /\ clients \in [Objects -> [state : {"none", "live", "stray", "stopped", "gaveUp"},
                                source : Sources \cup {NoSource}, stream : 0..MaxObjects]]
    /\ \A c \in Objects : clients[c].state = "none" <=> c > made
    /\ rtspPath \in 0..MaxObjects
    /\ muxer \in BOOLEAN /\ overlapped \in BOOLEAN
    /\ startFailed \in BOOLEAN /\ unloaded \in BOOLEAN
    /\ crashes \in 0..MaxCrashes

Quiet == Idle /\ ~overlapped

\* With one request at a time, whenever none is being handled an id with a row
\* has a stream object, unless the loading at boot could not list the row, and
\* an object without a row is one that the RTSP server's path holds.  This also
\* after a crash in the middle of a request (create and delete write the
\* database first) and after requests that failed half-way.
StreamPerRow ==
    Quiet =>
        /\ db # NoRow => stream # None \/ unloaded
        /\ stream # None => db # NoRow \/ stream = rtspPath

\* With one request at a time, whenever none is being handled every client that
\* has not been stopped is the one in rtspClients, and the one in rtspClients
\* has not been stopped and reads the row's source into the present stream
\* object.
ClientServesRow ==
    Quiet =>
        /\ \A c \in Objects : clients[c].state = "live" => c = running
        /\ running # None => /\ clients[running].state \notin {"stopped", "stray"}
                             /\ clients[running].stream = stream
                             /\ clients[running].source = db.source

\* With one request at a time, an always-on stream has a client whenever no
\* request is being handled, unless the last attempt to start one has ended in
\* an error or the loading at boot could not list the row.
AlwaysOnHasClient ==
    Quiet /\ db # NoRow /\ ~db.onDemand => running # None \/ startFailed \/ unloaded

\* However requests interleave, a stopped client is in rtspClients only while
\* a request that has stopped it is about to delete the entry: the next start
\* does not take it for a running one for ever.
StoppedClientLeaves ==
    running # None /\ clients[running].state \in {"stopped", "stray"} =>
        \E r \in Requests : req[r].pc = "unmap"

\* One connection to a camera, however many users ask for the stream
\* (test/integration/ondemand_verification_test.go).
OneConnection == \A c, d \in Objects : MayPlay(c) /\ MayPlay(d) => c = d
=============================================================================
