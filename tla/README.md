# Verification of MediaStream

MediaStream relays camera streams (RTSP) to browsers (WebRTC). The repository
holds three servers: the Go server (`src/go-legacy`), the MediaMTX server kept
inside it (`src/go-legacy/mediamtx-main`), and the rewrite in Kotlin
(`src/src/main/kotlin`). This directory holds TLA+ modules of what runs
concurrently in them, the TLC configurations that check the modules on small
instances, and proofs that TLAPS checks for every value of the constants.

File and line references are to the repository. Go paths are under
`src/go-legacy/`, those that begin with `mtx/` under
`src/go-legacy/mediamtx-main/internal/`, Kotlin paths under
`src/src/main/kotlin/com/pluxity/mediaserver/`.

## 1. The system

### Go server

| Part | Source | State | Operations | What is hard | Module |
|---|---|---|---|---|---|
| Stream | `internal/core/stream_manager.go` | packet buffer, `closed`, subscribers and a channel for each | WritePacket, distributePackets, Subscribe, Unsubscribe, worker.run, RemoveStream, Close | three kinds of goroutine and two channels; a full buffer; closing a channel that others send to | `CoreStream`, `Broadcast` |
| Camera client | `internal/rtsp/client.go` | the gortsplib client, `connected`, attempts | Start, Stop, runWithRetry, run | Stop against the goroutine that reconnects, failure at every step | `RtspClient` |
| Life of a stream | `cmd/server/main.go`, `internal/api/server.go`, `internal/database/stream_repository.go`, `internal/rtsp/path_manager.go` | row, object in `StreamManager.streams`, entry in `rtspClients`, muxer | create, update, delete, start, an RTSP session that makes a path, loading at boot | four places that must agree, handlers that interleave, a crash between two writes | `StreamLifecycle` |
| Viewers | `internal/webrtc/{manager,peer}.go`, `handleWebRTCOffer` and `cleanupPeer` in `main.go` | `Manager.peers`, `closeOnce`, `peerStreams`, subscriptions | offer, failure, cleanup, Manager.Close | callbacks, a lock held over a call that calls back, failure at any step of an offer | `PeerLifecycle` |
| Signaling | `internal/signaling/server.go` | map of clients, send channels | register, unregister, read and write pumps, an offer's goroutine, Close | a channel closed against the goroutine that answers an offer | `Signaling` |
| RTSP server | `internal/rtsp/{path_manager,publisher,subscriber,server_rtsp}.go` | paths, publisher slot, subscribers | describe, announce, record, setup, play, session close | a path keeps the stream object it was made with while REST requests replace it | `RtspPaths` |
| Commands | `internal/process/manager.go` | map of processes | Start, Stop, the watcher, the ticker, StopAll | the watcher of one command against the next of the same id | `ProcessManager` |
| Paths and settings | `internal/core/{config,config_store}.go`, `internal/api/paths_handler.go` | `paths`, `yamlPaths`, runtime file | load, add, update, delete, save | a save that fails or is interrupted by a crash | `ConfigPaths` |
| Camera list | `internal/cctv/manager.go`, `internal/client/api_client.go` | list, token | Start, ManualSync | overlapping fetches, a failure between sign-in and fetch | `CctvSync` |

`main.go` ties the parts together. `createRTSPClient` hands every packet of a
client to `Stream.WritePacket`; `handleWebRTCOffer` starts a stream on demand,
makes a peer and subscribes it to the stream object; the REST handlers call back
into `startOnDemandStream` and `stopStream`; the signaling server calls
`handleWebRTCOffer` from a goroutine per offer. Nothing calls `process.Manager.Start`
or installs `PathsHandler` in the program as built.

### MediaMTX

Goroutines that own their state and serve one event at a time, joined by
unbuffered channels; the danger is that two of them wait for each other.

| Part | Source | What is hard | Module |
|---|---|---|---|
| Path and handler of its static source | `mtx/core/path.go`, `mtx/staticsources/handler.go` | on-demand states, three timers, requests on hold, Handler.Stop waiting for an instance that waits for the path | `MtxPath` |
| Path manager | `mtx/core/path_manager.go` | reloads against requests and against what paths tell it | `MtxPathManager` |
| Stream and readers | `mtx/stream/*.go`, `mtx/counterdumper` | RemoveReader waits under the write lock; ring buffers that overflow | `MtxStream` |
| Core, API, configuration watcher | `mtx/core/core.go`, `mtx/api/api.go`, `mtx/confwatcher` | which resources a reload closes and remakes, and who holds what | `MtxCore` |
| RTMP and SRT servers | `mtx/servers/{rtmp,srt}` | listener, loop, connections, kicks and closing | `MtxConns` |
| RTSP server | `mtx/servers/rtsp` | callbacks of gortsplib against kicks | `MtxRtsp` |
| WebRTC server | `mtx/servers/webrtc` | three parties per request over unbuffered channels | `MtxWebrtc` |
| Recorder | `mtx/recorder` | samples held back, parts, segments, failing file operations | `MtxRecorder` |
| Peer connections, WHEP client | `mtx/protocols/{webrtc,whip}` | pion's reports overtake each other | `MtxPeerConn` |
| Static sources | `mtx/staticsources/{rtsp,rtmp,srt,mpegts,rtp,webrtc}` | Run, its reader goroutine and the handler that cancels it | `MtxSources` |
| External commands and hooks | `mtx/externalcmd`, `mtx/hooks` | a command closed before, between and after its starts | `MtxCommands` |

### Kotlin server

| Part | Source | State | Operations | Module |
|---|---|---|---|---|
| Viewers | `controller/SignalingController.kt`, `domain/webrtc/{WebRTCManager,WebRTCPeer}.kt`, `domain/stream/StreamFlow.kt` | map of peers, `running`, coroutines, packet reference counts | offer, end of session, start, close, collect, release | `ViewerSessions` |
| Cameras | `domain/rtsp/{RTSPManager,RTSPClient}.kt`, `config/StreamInitializer.kt`, `controller/StreamController.kt` | map of clients, `running`, virtual thread, grabber | start, stop, stop all, connect, read, reconnect | `KotlinCameras` |

`PROJECT.json` lists every component, the ones left out with the reason, and the
hazards at their lines.

### What makes each part correct

* Stream (Go): no packet is duplicated or overtaken, a slow subscriber delays
  nobody, a writer is never held up, and after removal or shutdown everything
  ends. No goroutine sends on a closed channel.
* Camera clients (both servers): at most one session with the camera; every
  failure leads to another attempt or to the end; stopping ends it.
* Life of a stream: row, object, client and source agree whenever nothing is
  being handled; a stopped client does not linger; one connection per camera.
* Viewers: the limit of peers holds, no slot of it is lost, closing never waits
  for itself, a closed peer stops receiving, none gets out of reach.
* Signaling: a registered client is served; both of its goroutines end.
* RTSP paths: one publisher, and the players receive what it writes.
* Commands: what runs can be found and stopped.
* Paths and cameras: what is configured survives requests and restarts, and a
  list is never replaced by an older one.
* MediaMTX: nobody waits for ever for another goroutine; who ends leaves the
  path and the tables; the tables agree; no unit is lost uncounted; files hold
  what was recorded; a reload leaves the resources wired to each other.

## 2. The modules

### CoreStream, Broadcast

One `core.Stream`. State: `buffer` is `packetBuffer`, `chan[s]` a worker's
`packetChan`, `subs` the keys of `Stream.subscribers`, `closed` the flag under
`closeMutex`, `bufOpen` and `stopped` say which channels are closed, and `wpc`,
`dpc` and `wkpc` where each goroutine is. WritePacket is five steps
(`CheckOpen`, `TrySend`, `DropOldest`, `Recheck`, `BlockingSend`) because the
code holds no lock between them; the distributor receives, copies the workers
and sends to each; RemoveStream marks the stream closed and then closes the
buffer; Close cancels the context and closes the buffer without the mark. A send
on a closed channel sets `panicked`, after which nothing happens: the process
has ended. A packet is its writer and number.

`Broadcast` is the abstract specification: a lossy broadcast that hands
subscribers published packets in order and only after they have joined.
`IsBroadcast` in `CoreStream` states the refinement; `closed`, `seq`, `wkpc` and
`last` are mapped.

### RtspClient

One `rtsp.Client`. `Loop` is runWithRetry and run step by step; `StopCancel` and
`StopClose` are the two halves of Stop. gortsplib is external: Close ends a
session that Start has opened and makes its later calls fail; before that it ends
nothing.

### StreamLifecycle

One stream id, with `Requests` as goroutines, each interrupted between any two
accesses to shared state (`Start` is startOnDemandStream, `Stop` is stopStream),
and the loading at boot as request 0. An ANNOUNCE or DESCRIBE of the RTSP server
is a request too: `FindPath` and `MakePath` are GetOrCreatePath, which makes an
object without a row, and `rtspPath` is the object its path keeps. `Crash` loses
everything but `db`. Calls of the database and createRTSPClient may fail:
`startFailed` remembers that the last attempt to start the client did, `unloaded`
that the row could not be listed at boot.

A client's inside is `RtspClient`'s; here it is live, stopped, stray or has given
up. A stray client is one whose Stop was lost (the run `client_stop_leak`): it
plays on until its session ends (`StrayEnds`).

### PeerLifecycle

Viewers of one id. Four goroutines act on a peer: offer, event callback, closer
(`onPeerClosed`, then RemovePeer) and Manager.Close; `once` is `closeOnce` and
`locked` is `Manager.mutex`. The stream object may be removed and made again
meanwhile.

### Signaling

Clients of the WebSocket server: `sigClients` are the keys of `Server.clients`,
`sigOpen` the clients whose send channel is open, `sigReader` and `sigWriter` the
two pumps. An offer is answered by a goroutine of its own. A send to a closed
channel sets `sigPanic`; `SigClientsServed` holds until then.

### RtspPaths

The five requests of an RTSP session over `PathManager.paths`, and the REST
handlers that make and remove streams. GetOrCreatePath holds `pm.mu` over two
calls into the stream manager (`pthMaking`), between which the registry may
change. A path keeps its object, and a publisher keeps its slot for ever:
`OnSessionClose` only logs. A REST removal closes the object (`pthClosed`), after
which its path writes to nobody, also when REST makes a stream of the name again.

### ProcessManager

`Manager.processes` as `prcEntry`, and each process with its watcher. Stop holds
the lock while it waits for the process and then deletes the entry; the watcher
deletes by id, whichever process the entry is of: `prcTakenBy` is a history of
whose watcher took an entry away. A start may fail, in a restart as in a request.

### ConfigPaths

ConfigStore: `cfgPaths` and `cfgYaml` in memory, `cfgFile` missing, torn or
whole. A change is made in memory first and written after; the write may fail,
which leaves the old file, a torn one or the new one, or be cut by a crash. At a
start the file may be unreadable, which like a torn one is only a warning
(`cfgWarned`). AddPaths is one step per id. The HLS settings are the only
ones config.go corrects.

### CctvSync

Calls of Start and ManualSync, each in the steps in which the program talks to
the external service. A list is the number of refreshes the service had made. An
accepted sign-in may bring a token and cookies or not, and overwrites them either
way; an accepted answer without `data` is an empty list (`CctvNoList`).

### KotlinCameras

The clients of one stream. A request looks the map up, stores and starts in
separate steps; a stop takes the client out, clears `running`, interrupts and
releases. The thread of a client connects, reads and reconnects. `grabber` and
`virtualThread` are plain fields: another thread may still see null, which the
model leaves open. Nobody who has called stop waits for the thread.

### ViewerSessions

Viewers of one stream of the Kotlin server. `hpc` is the thread that handles a
session's messages, `cpc` the one in `afterConnectionClosed`, `job` a peer's
collecting coroutine. External, modelled from their use: the container handles
the messages of one session one at a time but may end a session from another
thread; a coroutine on a cancelled scope never starts; a `MutableSharedFlow`
without replay that drops the oldest packet when full (a collector may miss any
packet); a Netty buffer with count 0 cannot be read.

### MtxPath, MtxPathManager

`MtxPath`: one event of `path.runInner` is one step, up to the place where it
waits for another goroutine, which is in `mp.pc`: "stopping run" and "stopping
done" are Handler.Stop. The handler and its instance are goroutines of their
own. The fields of an on-demand static source and of an on-demand publisher are
one copy, because a valid configuration has only one of the two. A nil hook or a
"should not happen" sets `pc = "panic"`.

`MtxPathManager`: the table with, per path object, what the manager sees of it.
A request has two steps (the manager finds the path, the client then talks to
it), so that a path may end in between. A reload goes over the table path by
path and waits for those it removes; the configuration for a path that stays is
carried by a goroutine (`pmReloads`) that may arrive late.

### MtxStream

One stream, readers with their ring buffers, goroutines and error channels, and
the lock: `mstLock` is the removal that holds it while it waits.

### MtxCore

`CorOrder` is the order in which `createResources` makes the resources;
`CorHolds` what each is given. A configuration is a value per group of settings
that closeResources compares together. The API's mutex and the channel to the
core are in `corApi`: the deadlock of section 5 is reachable.

### MtxConns, MtxRtsp, MtxWebrtc

Servers of one protocol. A session is where its goroutine is, what it is
attached to, and whether it was cancelled; the path manager answers yes or no.
`MtxConns` has the RTMP and the SRT server, whose loops are the same code;
`MtxRtsp` has gortsplib calling back; `MtxWebrtc` has the HTTP handlers, the
loop and a goroutine for candidates per session.

### MtxRecorder

Recorder.run, one instance, and the two formats. A codec is the way its callback
treats a unit; a unit has a time and whether it is a key frame. fMP4 holds one
sample per track back, and an instance that ends drops it; MPEG-TS writes through
a buffer.

### MtxPeerConn

One peer connection with its user (a WHIP session, a WHEP session or the WHEP
client) and whoever closes it. pion's reports arrive in any order. `remote` is
the session at the server of a WHEP client: "unknown" is one that the server has
opened and whose address the client could not read.

### MtxSources, MtxCommands

`MtxSources`: Run of the static sources, with the handler's side of it. What the
sources differ in is what Run returns when cancelled and, for WHEP, that Run
itself asks the path. `MtxCommands`: the two commands of a hook, one with
restarts, and Pool.Close.

### MC modules

`MCCoreStream`, `MCStreamLifecycle`, `MCPeerLifecycle` and `MCViewerSessions`
name the small sets the configurations use. `MCParts` and `MCMediaMtx` run
several modules side by side that share no state: the variable `part` is chosen
at first and only that part moves, so the state space is the sum of the parts
and not their product. The parts of MediaMTX meet through calls; each module
leaves the answers of its neighbours open (a path may refuse, a source may end
at any time), so its properties do not depend on them.

## 3. Runs

| Run | Shows | Bounds, and why they are enough |
|---|---|---|
| `stream_order` | `TypeOK`, `InOrder`, `HandedInOrder`, refinement of `Broadcast` | two writers with three packets each, a buffer of two and a channel of one: both overflow, two writers race for the room one of them made; a subscriber that comes and goes, removal and shutdown at any point. One subscriber: subscribers share only the buffer, and the proofs cover any number |
| `stream_live` | `DistributorNotBlocked`, `WriteReturns`, `StreamGoroutinesEnd` | buffers of one, two packets, two subscribers of which either may never return from OnPacket |
| `stream_delete` | violated: `WriterNeverPanics` (while the process is not being shut down) | one writer, removal |
| `client_stop_leak` | violated: `StopEnds` | one attempt |
| `lifecycle` | `StreamPerRow`, `ClientServesRow`, `AlwaysOnHasClient`, `StoppedClientLeaves` | one id with two sources, which are symmetric; three requests one at a time, or two (`MaxConcurrent`) that interleave with each other and with the boot, among them an RTSP session; one crash; any call of the database, start or stop may fail. Three are the shortest create, update or delete, start |
| `lifecycle_two_starts` | violated: `OneConnection` | two starts of an on-demand stream, so that the loading at boot starts nothing (`OnDemandSpec`) |
| `peer` | `TypeOK` (the limit), `NoLostSlot`, `ClosedPeerRemoved`, `StopsReceiving` | two offers for one slot: one waits for the other's slot; the stream removed and made again once |
| `peer_leak` | violated: `ClosedPeerUnsubscribed` | one offer |
| `viewers` | `RunningPeerIsFound`, `EndedSessionLeaves`, `ClosedPeerEnds` | two sessions for one slot, one offering twice so that its peer is replaced; one packet, enough for a coroutine to be cancelled before, while and after it handles one |
| `viewers_release` | violated: `ReadsLivePacket` | two viewers |
| `parts` | the smaller parts of both servers, see below | |
| `mediamtx` | the parts of MediaMTX, see below | |

### parts

| Part | Properties | Bounds |
|---|---|---|
| client | `TypeOK`, `OneSession`, `ConnectedIsPlaying`, `StopEndsSession`, `FailureHandled` | three attempts: a first, a middle and a last one |
| roomy | `RoomyGapless`: nothing is lost when nothing is full | room for all three packets of a writer, two subscribers |
| signaling | `SigClientsServed` | two clients, a send channel of one so that it fills, two offers of each, so that one is answered while the other waits |
| paths | `PthPacketsArrive`: one publisher, and its packets reach exactly the players of the path until the object is removed, nobody from then on | one path (paths share only the lock), a publisher and two more sessions, an object and the one that replaces it |
| process | `PrcCommandsAreKnown`: a command that runs is found under its id, unless the watcher of an earlier one, that was stopped, took the entry | one id, three processes of it: one that ends, one that is stopped and one that is started meanwhile |
| config | `CfgPathsPersist`: memory and file agree, and a restart brings the paths back, unless the program has warned that it could not save or load | two paths, so that an AddPaths can be half done; two bodies; a boot after the first |
| cctv | `CctvNeverOlder`: the list goes back only while fetches overlap, and is emptied only by the service | three calls that overlap, three states of the service's list |
| cameras | `KcClientsServed` | three requests, two of which may overlap, two attempts of a client |

`PartsTypeOK` is the type invariant of the parts that have no other run.

### mediamtx

| Part | Properties | Bounds |
|---|---|---|
| path | `MpPathServes`: never a panic (`MpNeverPanics`); a client is held, attached or told (`MpAttachedOrTold`); the recorder runs when it should (`MpRecordsStream`); an unused path ends (`MpUnusedEnds`); who is on hold has a timer running (`MpHeldIsTimed`) | three clients: a publisher, the one that takes its place and a reader; six configurations, one per kind of source with and without on-demand, regular expression, override and limit of readers; two streams, so that a path becomes ready again |
| manager | `PmTableIsTrue`: a path belongs to the configuration (`PmPathsBelong`), what is ready is known (`PmReadyIsKnown`), one source (`PmOneSource`), and a request is checked against the configuration it finds (`PmCheckedConf`) | one name, three configurations of it (a regular expression, its own with and without a source), two path objects, one reload with a request at any point. Names share only the table |
| stream | `MstAllAccounted`: a unit is handed, queued, or counted as discarded | two readers with a queue of one and three units: it overflows while another reader is removed |
| core | `CorResourcesFit`: who is up holds who is up (`CorHoldsLive`) and was made from the current settings (`CorUpToDate`) | six edits, two of them in a behaviour, from file or API: a second reload finds what the first left |
| conns | `ConSessionsLeave` | two RTMP connections or an SRT one; the loops are the same code |
| rtsp | `RtsSessionsLeave` | two sessions, one kick |
| webrtc | `WrtSessionsLeave` | one session with two candidates' requests: they share only the loop |
| recorder | `RecFilesAreTrue`: no sample is written twice, and none is lost but the ones an fMP4 instance holds back when it ends (`RecNothingLostOrTwice`), base times are those of the samples (`RecBaseTimes`), a file plays alone (`RecFilesPlayAlone`), hooks are paired (`RecHooksPaired`), durations (`RecDurations`) and rotation (`RecRotationKeeps`) | fMP4 with each kind of track and MPEG-TS, four units, time that goes back, on by one or by more than a part, one failing header or close of a file, after which the supervisor starts another instance |
| peer | `PcoEndsClean`: no channel is closed twice, the end is seen, tracks are released, and a session that a WHEP client knows of is deleted unless the client was cancelled | one track, two changes of state, in each of the three uses |
| source | `SrcEndsClean`: a Run that returns has let go of its stream, reader and connection, and returns an error whenever it was not cancelled | two Runs, so that the second begins after the first failed |
| commands | `CmdNoneLeft`: after Pool.Close no command runs that the pool should have closed | the two commands of one hook |

`MtxSessionsLeave` is the conjunction for the servers, sources and commands;
`MtxTypeOK` that of the types. `MtxNobodyWaits` is the liveness of all parts in
one formula: no Stop, reload, removal, Close, WHIP request or end of a
recorder, peer connection, source or command waits for ever. As only one part
moves, it says of each part what that part's module states by itself
(`MpStopReturns`, `PmReloadReturns`, ..., `CmdEnds`).

### Deadlock, and where a property is claimed

CHECK_DEADLOCK is FALSE in every configuration because each system may really
stop: the bounds on packets, offers and requests are used up, a client has
ended, or a panic has ended the process. Waiting that should not happen is
covered by the liveness properties (`WriteReturns`, `ClosedPeerRemoved`,
`MtxNobodyWaits` and so on).

`StreamPerRow`, `ClientServesRow` and `AlwaysOnHasClient` are claimed while
requests do not overlap (`overlapped`), because handlers that overlap on one id
do break them: there is no lock around `rtspClients`, and `OneConnection` shows
the simplest case. They are claimed for the streams API and the RTSP server: the
paths API (`internal/api/server.go:340`) writes only the database. Their text
names what failures may leave: a row that the boot could not list has no object
(`unloaded`), an always-on stream whose start failed has no client until the next
request (`startFailed`), and the object of an RTSP path may have no row
(`rtspPath`). `lifecycle` has no path
in `config.yaml` for the id; with one, `FoundSource` prefers it to the row
(`main.go:918`) and an update cannot change what the client reads. Other
properties of the modules exclude, in their text, a case in which the code does
not keep them; section 5 has each of these.

### Fairness

* Stream: a goroutine inside WritePacket goes on (nobody has to start another
  call); the distributor and a worker's receive or return are scheduled by the
  Go runtime. OnPacket may take for ever, so it has no fairness. Where a select
  has several ready cases, weak fairness is on their disjunction only: Go picks
  at random and the properties do not depend on it.
* Client: the goroutine goes on, since each request has a timeout; a camera need
  never end a session that plays. The caller of Stop goes on.
* Peers: each goroutine that has been started takes finitely many steps, so weak
  fairness of their disjunction is weak fairness of each. Offers, failures,
  shutdown and REST requests need not come.
* Signaling: the two pumps end once the connection is closed, because reads and
  writes on it fail. Kotlin: threads and coroutines are scheduled, each
  separately; offers, ends of sessions and packets need not come.
* MediaMTX: each goroutine goes on (weak fairness); a read on a closed connection
  fails and an interrupted process ends. Strong fairness is on the cases of a
  select that watch a cancelled context or a terminate channel
  (`MpHandlerCanceled`, `PmToldCloses`, `MstRemoveReader`, `RecTerminated`,
  `PcoDropped`, `PcoTerminated`, `CmdTerminated`): Go chooses at random among
  the ready cases, so a case that is ready again and again is taken. Clients,
  packets, edits, kicks and failures need not come.

`MCParts` and `MCMediaMtx` state the fairness in lots: a lot has one step of each
part, and since only one part ever moves, a condition on a lot is the condition
on that step.

## 4. Proofs

Each theorem holds for every value of the constants that meets the ASSUMEs of
its module: any number of writers, requests, sessions, paths and connections,
and any bound. The safety properties of the runs come first; the types they rest
on are part of the invariants.

### Go server

| Module | Theorem | Argument |
|---|---|---|
| `CoreStreamProofs` | `TypeCorrect` | `TypeOK` is inductive |
| | `OrderKept` | `InOrder` is inductive relative to `TypeOK`: everything between WritePacket and OnPacket - channel, the distributor's packet, buffer - is ordered piece by piece and against the next piece, and bounded by the newest packet sent. That every piece is compared is what makes it inductive: order of what is handed out alone is not |
| | `HandedInOrderHolds` | the head of a channel is newer than `last` by `InOrder` |
| | `GaplessHolds` | when neither the buffer nor a channel can fill (`RoomForAll`), a subscriber misses nothing after its first packet. `GaplessInv`: whatever follows the last packet OnPacket got is in the channel, in the distributor's hand or in the buffer, or has not been sent, and nothing is dropped because packets in a queue differ (`InOrder`), so that it has room for one that is not in it. `RoomyGapless` is the instance that `parts` checks |
| | `ImplementsBroadcast` | the initial state maps to one of `Broadcast`, each step to a step or a stutter; that a handed packet is new and was published is `InOrder` again |
| `StreamLifecycleProofs` | `TypeCorrect` | types, and `Bounded`: objects and clients are numbered, and the numbers suffice |
| | `StoppedClientLeavesHolds` | `Unknown(r)`: the client that a request has made and not stored yet is nobody else's and not stopped. However requests interleave, a stopped client is in `rtspClients` only between its Stop and the delete in the same stopStream |
| | `StreamPerRowHolds`, `AlwaysOnHasClientHolds`, `ClientServesRowHolds` | `SequentialInv`: when no request is being handled, row, object, running client and source agree (`Settled`); while one is, `Phase` says for each of its places which part of the agreement is open and what the request has in hand for it. That a client whose stop was lost plays on does not break it: it has left the map and is stray, not live. What a failing call leaves out is in `startFailed` and `unloaded`. The theorems assume what their properties are about: requests of the streams API and the RTSP server one at a time, and for the source that `config.yaml` does not name the id |
| `PeerLifecycleProofs` | `TypeCorrect` | types, and the limit as an invariant of its own from `Cardinality` of a set with one element more or fewer |
| | `NoSlotLost` | strengthened with `Slots(p)`: nothing happens to a peer before it is registered; the closer has started exactly when Close has ended; one goroutine at most is in the middle of Close; whoever is done with RemovePeer leaves no peer behind |
| `PartsProofs` | `TypeCorrect`, `OneSessionHolds`, `ConnectedIsPlayingHolds` | about `RtspClient`: `IInv` adds that an attempt is left whenever the loop is about to make one (`HasAttemptLeft`) and what session each place in run has (`SessionOfRun`) |
| | `SignalingServesClients` | `SigInv`: who may still take a client out of the map, by the place of its read pump, so that its channel is closed once |
| | `PthPacketsArriveHolds` | `PthInv`: who owns a path, what each place of a session uses of it (`PthUses`), that the subscribers of a path are exactly the receivers of the object it holds (`PthListed`), and that what is registered is open and what a path holds and is not registered any more is closed (`PthShut`) |
| | `PrcCommandsAreKnownHolds` | `PrcInv`: a process is under its id, was killed, or lost its entry to the watcher of an earlier one (`prcTakenBy`), by the place of its watcher; the earlier one was stopped, or had lost its own entry so |
| | `CfgPathsPersistHolds` | `CfgInv`: what a start on the present file would load is what is in memory, except after a save that failed or a start that warned; a torn file makes the next start warn |
| | `CctvNeverOlderHolds` | an action property: the list that a fetch has in hand is no older than any that was stored (`cctvShown`) as long as fetches do not overlap, unless it is the empty one of an answer without data |
| | `PartsTypeCorrect` | the invariants of the parts imply `PartsTypeOK`, whichever part moves |

### Kotlin server

| Module | Theorem | Argument |
|---|---|---|
| `KotlinServerProofs` | `ViewersTypeCorrect` | types |
| | `RunningPeerIsFoundHolds`, `EndedSessionLeavesHolds` | `Found(p)`: a peer that runs is in the map, in the hands of its offer, or of whoever closes it; `Session(s)`: which peer an offer and a close have in hand at each place. Peers of a session that ended in the middle of its offer are excluded (`raced`), as in the properties |
| `PartsProofs` | `KcClientsAreStoppable` | `KcInv`: a client's session by the place of its thread (`KcClientFits`), and the one client that can be live while requests do not overlap |

### MediaMTX

| Module | Theorem | Argument |
|---|---|---|
| `MediaMtxProofs` | `MpPathServesHolds` | `MpFits`, the parts of which are named for what they relate: the source to its configuration, the handler to where run is, each session to the present stream (`MpAttached`), timers and requests on hold to the on-demand state (`MpDemandFits`), the handler's instance to the stream (`MpInstanceFits`), and use to existence (`MpUsed`). None is inductive alone: that a static source is not stopped twice needs that the handler runs exactly when the source is demanded, which needs that the stream is its instance's. The helpers of the path (setReady, setNotReady, consumeOnHoldRequests, ...) have a lemma each, the handlers are proved from them |
| | `PmTableIsTrueHolds` | `PmInv`: an entry of the table and its path fit the configuration of their name (`PmListed`), which in the middle of a reload is the new one for the entries the loop has looked at and the old one for those it has still to do (`PmConfFor`); a path that has not ended is in the table, or is the one the loop waits for, or closes by itself and has no static source (`PmKept`). One static source at a time follows from the second, not from the table. createPath takes objects of their own for the new names, an injection that exists by cardinality (`PmInjects`, `PmCreatedIs`) |
| | `MstAllAccountedHolds` | `MstFits` counts what is given, queued, discarded and reported since the reader came, and orders what is given before what is queued |
| | `CorResourcesFitHolds` | `CorLive` and `CorPhase`: while resources are closed, what is left fits the new configuration or is still to be closed; while they are made, everything before the one that is next is up, wanted and current. That `closeResources` closes with a resource all that hold it (`CorLeaves`) is proved along the order of the resources |
| | `PcoEndsCleanHolds` | `PcoInv`, in parts for the user, pion, run, the tracks and the closer: what each place holds and who still closes it. A session whose address the client could not read is not in the claim: nobody could delete it |
| `MtxRecorderProofs` | `RecFilesAreTrueHolds` | `RecInv`: the recorder is typed, and `RecFits` says of each place a sample can be in what it holds - the samples held back and the late ones (`RecHeldFits`), the current segment with its part or buffer (`RecSegFits`), the past files (`RecPastFits`) -, that files play alone and the next one will (`RecVideoPlays`, `RecVideoNext`; `RecPlayable` names the exceptions, those of the property), and, as long as nothing has failed, that each accepted unit is in one place (`RecOnce`) - in none if it was held back by an fMP4 instance that has ended. How often a unit is in a file is the cardinality of the set of its positions, so a step adds or moves one position and no step needs an induction over the samples. Each operation on a segment (open, flush, write, close) has lemmas for what it keeps, each format one for a unit that arrives |
| | `RecTypeOKHolds` | the types that are part of `RecInv` |
| `MtxSessionsProofs` | `ConSessionsLeaveHolds` | `ConFits` by the place of the connection, and `ConHandsOne`: the listener hands over one connection at a time, without which an answered request could be answered again |
| | `RtsSessionsLeaveHolds`, `WrtSessionsLeaveHolds` | what a session holds by its state, and what the tables of the server know of it (`RtsFits`, `WrtFits`) |
| | `SrcEndsCleanHolds`, `CmdNoneLeftHolds` | what Run and its reader hold by their places (`SrcFits`); a process belongs to a command, a command to a hook, and once the pool waits no hook opens (`CmdInv`) |
| | `MtxSessionsLeaveHolds` | the five together: the part that moves keeps its invariant, the others stand still |
| | `MtxTypeOKHolds` | the invariants of all parts together (`MtxInv`) give their types. Two facts are added to them: a reload takes up an edit that was still waiting, so that no instance is numbered beyond the edits (`CorBudget`), and the places of the hook and the pool (`CmdHookTyped`) |

Assumptions, all of them ASSUMEs that TLC evaluates in the runs:

* capacities and limits are positive, bounds are natural numbers, offers are finite;
* what stands for nothing is none of the things it stands beside: `"none"` is no
  session and no id of a process, and the names of a path's sources that are
  no client's are no client;
* the names of paths are finitely many, and among the path objects, which the
  code makes without limit, there is room for the paths that exist all the time:
  without it the manager of the model could not start;
* paths that have the same configuration name have the same configuration: in
  the code the name is the key of the configuration;
* what the code checks before it runs: a path's configuration has the fields and
  kinds that `conf/path.go` lets through (a redirect is not on demand, a static
  source of a regular expression is), and a default of `config.yaml` is one that
  loading accepts.

Only model-checked:

* every liveness property (`MtxNobodyWaits`, `StopEndsSession`, ..., and the parts of
  `SigClientsServed` and `KcClientsServed` that are liveness): they follow from
  fairness, and TLAPS does not do ENABLED.

No module has a recursive operator; `CorCloses` is a recursive function, and
what it computes is proved step by step along the order, without induction over
data.

## 5. What the code does not do

Runs that are expected to find a violation, each with its finding in
`PROJECT.json`:

1. `stream_delete`: deleting a stream that receives packets can panic with a send
   on a closed channel (`stream_manager.go:209` against `159`).
2. `client_stop_leak`: Stop between the look at the context and the opening of the
   session is lost, and the client plays on (`client.go:133`, `220`).
3. `lifecycle_two_starts`: two starts at once open two connections to one camera,
   one of which nobody can stop (`main.go:903`, `948`).
4. `peer_leak`: a peer that closes before its mapping is stored is never
   unsubscribed (`main.go:800`, `808`).
5. `viewers_release`: with two viewers of one stream in the Kotlin server, the
   first to be done releases the packet the other is about to read
   (`WebRTCPeer.kt:407`).

Met while modelling, without a run of their own. Where a model can reach one,
the property that would fail there excludes it by name.

Go server:

* `client.go:87-89` turns a `RetryCount` of 0 into 3, although the comment at `189`
  says that 0 retries for ever; `190` counts attempts over the client's whole life.
* A client that has given up stays in `rtspClients`, so a start takes it for a
  running one (`main.go:903`); an update does not change what a configured
  stream reads (`918`); `rtspClients` is a map without a lock (`1031`); shutdown
  closes the database before the API server (`646`); deleting a path leaves the
  object and the client (`internal/api/server.go:340`).
* `stream_manager.go:317` can send on a channel that Unsubscribe has closed
  (`SendToStoppedWorker`).
* An offer's goroutine can send its answer on a channel that unregister has
  closed (`internal/signaling/server.go:257`).
* Restart of processes never works: Start refuses an id whose entry is still
  there (`internal/process/manager.go:46`, `159`), although the comment at `153`
  and `paths_handler.go:252` promise one after a crash.
* A path of the RTSP server keeps the object that a REST request has removed and
  closed; its publisher's packets fail from then on (`path_manager.go:45-59`).
* The first save after a start that could not read the runtime file writes over
  it (`config_store.go:37`, `201`).
* An answer of the camera service without `data` empties the list
  (`api_client.go:189-203`).

MediaMTX:

* Path: an error of setReady leaves the stream behind, and the next setNotReady
  calls a nil hook (`path.go:689-701`, `479-484`). A publisher that is removed
  leaves an on-demand path closing or ready (`mediamtx.yml:677-679`). Closing a
  server waits for sessions that are on hold in AddReader.
* Path manager: the goroutines that carry a reloaded configuration to their
  paths may arrive in the wrong order (`path_manager.go:204-267`).
* Core: an edit over the API while a reload from the file closes the API is a
  deadlock (`api.go:323-348`, `1144-1148`); two edits of the global
  configuration may be applied in the reverse order; closing RTSPS does not
  compare the SRTP ports; closing the API does not compare the RTMPS server.
* Configuration watcher: events within a second of the last are dropped.
* RTMP, SRT: an error of Accept ends the server without a word.
* RTSP: a session that is kicked during SETUP or RECORD stays in its path, PLAY
  after a kick has no path, and two kicks at once do the second on nil.
* WebRTC: a goroutine that reads a session's candidates may wait for one who has
  ended. `onWHIPPost` asks `errors.As(err, ...)` where it means `res.err`.
* Peer connections: a WHEP client leaves its session at the other side when it
  cannot read the answer (no ETag, an error of the body, a Location that does not
  parse: `whip/client.go:92-100`, `243-251`), or is cancelled as the handshake succeeds; its loop spins while it waits;
  WaitUntilConnected does not watch for the state failed.
* Recorder: the last sample of a track is never written; a segment whose header
  could not be written has its create hook called twice; when video comes late, a
  segment starts with a picture that is not a key frame; the height of VP9 is
  taken from its width; the time of MPEG-1 audio samples within a unit, and in
  MPEG-TS a last time that goes back, are wrong (`mediamtx.yml:501-504`).
* Commands: a command that is closed may be started once more before it is
  killed (`externalcmd/cmd.go:105`); the commands of the runOnUn... settings
  cannot be closed, so Pool.Close waits for them; the Unix code ignores the exit
  code it is given.
* Raspberry Pi camera source: a secondary camera adds itself to the stream of the
  primary one without watching its context and is not taken out when it ends.

Kotlin server:

* Two starts at once make two clients of one camera (`RTSPManager.kt:38`); a client that
  has given up refuses later starts (`42`); a stop before a start is done leaves
  a client that runs.
* The attempts of a client are reset only when a session ends in order, and then
  it reconnects without a pause (`RTSPClient.kt:102`).
* Sessions that offer at once can exceed `maxPeers` (`WebRTCManager.kt:71`, `86`),
  and a session that ends in the middle of its offer can leave a peer that runs
  for ever (`166`; `raced` in `ViewerSessions`).
* The rollover counter of SRTP is never increased (`SRTPTransformer.kt:155`).

## 6. Not modelled

* Content and codecs of packets: RTP, SRTP, codec processors and converters, SDP.
  They are sequential code about bytes, which unit tests reach.
* What only reads: REST queries, health and metrics, playback, the record
  cleaner, the HLS endpoints (both HLS packages are missing in the repository).
* Parsing and checking of MediaMTX's configuration, and authentication. Which
  settings a reload compares is in `MtxCore` and `MtxPathManager`.
* ICE and DTLS of the Kotlin server: wrappers of libraries whose behaviour the
  repository does not settle.
* SQL (a statement is one step), logging, the command-line starter, the entry
  points, the browser pages, the order of the Close calls in `cleanup`.
* The Raspberry Pi camera, an executable for ARM.

Partly modelled: the stream's row (no GET handlers), the viewers of both servers
(no candidates, codec choice or DTLS), the stream of MediaMTX (no formats or
statistics) and its core (the API's lists are left out; its kicks are in the
servers' modules).

Concurrent use of the Go map `rtspClients` is taken as atomic accesses; that Go
may end the process there is not modelled. Libraries are modelled from how the
code uses them: gortsplib, pion (event callbacks come in goroutines of their
own), Netty reference counts, kotlinx coroutines, JavaCV's grabber, the
WebSocket container, HTTP servers and operating-system processes.

Besides the instances, the models have bounds that stand in their guards: on
packets, units, offers, requests, path objects, reloads, edits, boots and runs.
Each is a CONSTANT, declared with the word bound.

## 7. Plan

Done: all modules of section 2, and the proofs of section 4. Next:

1. A Stream.Initialize that fails in `MtxPath`, with the panic it leads to
   excluded by name in `MpNeverPanics`; now `MpSetReady` takes it to succeed.
2. Refinements of the parts of MediaMTX whose promise is short: the fan-out of
   a stream to its readers as `Broadcast`.

## 8. How to run

    tlc -config lifecycle.cfg MCStreamLifecycle.tla
    tlc -config parts.cfg MCParts.tla
    tlc -config mediamtx.cfg MCMediaMtx.tla
    tlapm CoreStreamProofs.tla
    tlapm MediaMtxProofs.tla

`mediamtx` and `parts` take two to three minutes each, the others less;
`MediaMtxProofs` takes about ten minutes, `MtxRecorderProofs` and
`MtxSessionsProofs` five to eight, the other proofs one to five.
`PROJECT.json` names the module and configuration of each run, the source lines
of each definition, and for each property a mutant of the code that breaks it.
