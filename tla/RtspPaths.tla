----------------------------- MODULE RtspPaths -----------------------------
(***************************************************************************)
(* The RTSP server of internal/rtsp: sessions announce, record, describe,  *)
(* set up and play paths (server_rtsp.go, path_manager.go, publisher.go,   *)
(* subscriber.go), over the streams that the REST handlers make and remove *)
(* meanwhile (StreamManager.streams).                                      *)
(*                                                                         *)
(* A path keeps the stream object it was made with and is never removed;   *)
(* OnSessionClose only logs, so neither the publisher nor the subscribers  *)
(* of a path leave it.  GetStream and CreateStream are two calls, made     *)
(* under PathManager.mu only: the registry may change between them.  A     *)
(* stream that is removed is closed: the path that holds it writes to      *)
(* nobody any more, also when REST makes a stream of the name again.       *)
(***************************************************************************)
EXTENDS Naturals, FiniteSets

CONSTANTS
    PthNames,       \* path names, which are stream ids
    PthSessions,    \* RTSP sessions
    PthMaxObjects   \* bound: stream objects made

\* "none" stands for no session.
ASSUME PthAssumption == PthMaxObjects \in Nat /\ "none" \notin PthSessions

PthNone == 0
PthObjects == 1..PthMaxObjects
PthCodecs == {"none", "H264", "H265"}

VARIABLES
    pthRegistry,   \* StreamManager.streams: the object of each id, or none
    pthMade,       \* stream objects made
    pthClosed,     \* objects that RemoveStream has closed
    pthCodec,      \* Stream.videoCodec of each object
    pthReceives,   \* Stream.subscribers of each object: sessions
    pthPaths,      \* PathManager.paths: a Path record for each name made so far
    pthMaking,     \* GetOrCreatePath found no stream for this session, or none: pm.mu is held
    pthSession     \* each session: "idle", "gone", or the method it is in

PthVars == <<pthRegistry, pthMade, pthClosed, pthCodec, pthReceives, pthPaths, pthMaking, pthSession>>

PthNoSession == "none"
PthKnown == DOMAIN pthPaths

\* A new Path over object o.
PthNewPath(o) == [obj |-> o, publisher |-> PthNoSession, active |-> FALSE, sdp |-> FALSE,
                  subscribers |-> {}]

PthInit ==
    /\ pthRegistry = [n \in PthNames |-> PthNone] /\ pthMade = 0 /\ pthClosed = {}
    /\ pthCodec = [o \in PthObjects |-> "none"]
    /\ pthReceives = [o \in PthObjects |-> {}]
    /\ pthPaths = << >> /\ pthMaking = PthNoSession
    /\ pthSession = [s \in PthSessions |-> [in |-> "idle", path |-> PthNone]]

PthIn(s, method, n) == pthSession[s] = [in |-> method, path |-> n]
PthTo(s, method, n) == pthSession' = [pthSession EXCEPT ![s] = [in |-> method, path |-> n]]

----------------------------------------------------------------------------
(* The REST side: CreateStream and RemoveStream of the stream manager.     *)

PthRestCreate(n) ==
    /\ pthRegistry[n] = PthNone /\ pthMade < PthMaxObjects
    /\ pthMade' = pthMade + 1
    /\ pthRegistry' = [pthRegistry EXCEPT ![n] = pthMade + 1]
    /\ UNCHANGED <<pthClosed, pthCodec, pthReceives, pthPaths, pthMaking, pthSession>>

PthRestRemove(n) ==
    /\ pthRegistry[n] # PthNone
    /\ pthRegistry' = [pthRegistry EXCEPT ![n] = PthNone]
    /\ pthClosed' = pthClosed \cup {pthRegistry[n]}
    /\ UNCHANGED <<pthMade, pthCodec, pthReceives, pthPaths, pthMaking, pthSession>>

\* A client of rtsp.Client learns the codec of the camera behind a stream.
PthCameraCodec(o, codec) ==
    /\ o <= pthMade /\ codec # "none"
    /\ pthCodec' = [pthCodec EXCEPT ![o] = codec]
    /\ UNCHANGED <<pthRegistry, pthMade, pthClosed, pthReceives, pthPaths, pthMaking, pthSession>>

----------------------------------------------------------------------------
(* GetOrCreatePath, called by ANNOUNCE and DESCRIBE.                       *)

\* A known path is returned as it is, whatever has become of its stream.
PthPathFor(n) ==
    IF n \in PthKnown THEN pthPaths
    ELSE [m \in PthKnown \cup {n} |-> IF m = n THEN PthNewPath(pthRegistry[n]) ELSE pthPaths[m]]

\* A request for a path comes in; without path and stream it goes on to make one.
PthLookup(s, n, method) ==
    /\ pthSession[s].in = "idle" /\ pthMaking = PthNoSession
    /\ method \in {"announce", "describe"}
    /\ IF n \in PthKnown \/ pthRegistry[n] # PthNone
       THEN pthPaths' = PthPathFor(n) /\ UNCHANGED pthMaking
       ELSE pthMaking' = s /\ UNCHANGED pthPaths
    /\ PthTo(s, method, n)
    /\ UNCHANGED <<pthRegistry, pthMade, pthClosed, pthCodec, pthReceives>>

\* CreateStream fails when a REST handler has made the stream meanwhile.
PthMake(s, n) ==
    /\ pthMaking = s /\ pthSession[s].path = n
    /\ pthMaking' = PthNoSession
    /\ IF pthRegistry[n] = PthNone
       THEN /\ pthMade < PthMaxObjects
            /\ pthMade' = pthMade + 1
            /\ pthRegistry' = [pthRegistry EXCEPT ![n] = pthMade + 1]
            /\ pthPaths' = [m \in PthKnown \cup {n} |->
                              IF m = n THEN PthNewPath(pthMade + 1) ELSE pthPaths[m]]
            /\ UNCHANGED pthSession
       ELSE /\ PthTo(s, "idle", PthNone)
            /\ UNCHANGED <<pthMade, pthRegistry, pthPaths>>
    /\ UNCHANGED <<pthClosed, pthCodec, pthReceives>>

----------------------------------------------------------------------------
(* The methods, each under Path.mu.                                        *)

\* Mutant: the slot is not looked at.
PthSlotAny(n) == TRUE

PthSlotFree(n) == pthPaths[n].publisher = PthNoSession

\* parseCodecInfo: the first video format names the stream's codec; without
\* one the publisher is refused.
PthAnnounce(s, n, codec) ==
    /\ PthIn(s, "announce", n) /\ pthMaking # s
    /\ IF PthSlotFree(n) /\ codec # "none"
       THEN /\ pthCodec' = [pthCodec EXCEPT ![pthPaths[n].obj] = codec]
            /\ pthPaths' = [pthPaths EXCEPT ![n].publisher = s, ![n].active = FALSE]
            /\ PthTo(s, "announced", n)
       ELSE PthTo(s, "idle", PthNone) /\ UNCHANGED <<pthCodec, pthPaths>>
    /\ UNCHANGED <<pthRegistry, pthMade, pthClosed, pthReceives, pthMaking>>

\* RECORD activates the path's publisher; a second one is refused.
PthRecord(s, n) ==
    /\ PthIn(s, "announced", n) /\ pthMaking = PthNoSession
    /\ pthPaths' = [pthPaths EXCEPT ![n].active = TRUE]
    /\ PthTo(s, "recording", n)
    /\ UNCHANGED <<pthRegistry, pthMade, pthClosed, pthCodec, pthReceives, pthMaking>>

\* GetSDP: the server stream is made once, when the codec of the stream is known.
PthDescribe(s, n) ==
    /\ PthIn(s, "describe", n) /\ pthMaking # s
    /\ pthPaths' = [pthPaths EXCEPT ![n].sdp = @ \/ pthCodec[pthPaths[n].obj] # "none"]
    /\ PthTo(s, "idle", PthNone)
    /\ UNCHANGED <<pthRegistry, pthMade, pthClosed, pthCodec, pthReceives, pthMaking>>

\* SETUP: the path has a server stream, or is not found.
PthSetup(s, n) ==
    /\ pthSession[s].in = "idle" /\ pthMaking = PthNoSession
    /\ n \in PthKnown /\ pthPaths[n].sdp
    /\ PthTo(s, "ready", n)
    /\ UNCHANGED <<pthRegistry, pthMade, pthClosed, pthCodec, pthReceives, pthPaths, pthMaking>>

PthObjectOf(n) == pthPaths[n].obj

\* Stream.WritePacket fails once the stream is closed; else whoever subscribed gets the packet.
PthReaches(o) == IF o \in pthClosed THEN {} ELSE pthReceives[o]

\* PLAY: RegisterSubscriber and Subscriber.Activate, which subscribes to the stream.
PthPlay(s, n) ==
    /\ PthIn(s, "ready", n) /\ pthMaking = PthNoSession
    /\ s \notin pthPaths[n].subscribers
    /\ pthPaths' = [pthPaths EXCEPT ![n].subscribers = @ \cup {s}]
    /\ pthReceives' = [pthReceives EXCEPT ![PthObjectOf(n)] = @ \cup {s}]
    /\ PthTo(s, "playing", n)
    /\ UNCHANGED <<pthRegistry, pthMade, pthClosed, pthCodec, pthMaking>>

\* The connection ends between two requests: OnSessionClose changes nothing.
PthLeave(s) ==
    /\ pthSession[s].in \in {"idle", "announced", "recording", "ready", "playing"}
    /\ pthSession' = [pthSession EXCEPT ![s].in = "gone"]
    /\ UNCHANGED <<pthRegistry, pthMade, pthClosed, pthCodec, pthReceives, pthPaths, pthMaking>>

PthRequest(s, n) ==
    \/ \E method \in {"announce", "describe"} : PthLookup(s, n, method)
    \/ PthMake(s, n)
    \/ \E codec \in PthCodecs : PthAnnounce(s, n, codec)
    \/ PthRecord(s, n) \/ PthDescribe(s, n) \/ PthSetup(s, n) \/ PthPlay(s, n)

PthNext ==
    \/ \E n \in PthNames : PthRestCreate(n) \/ PthRestRemove(n)
    \/ \E o \in PthObjects, codec \in PthCodecs : PthCameraCodec(o, codec)
    \/ \E s \in PthSessions, n \in PthNames : PthRequest(s, n)
    \/ \E s \in PthSessions : PthLeave(s)

PthSpec == PthInit /\ [][PthNext]_PthVars

----------------------------------------------------------------------------
(* Properties.                                                             *)

PthPathRecord ==
    [obj : PthObjects, publisher : PthSessions \cup {PthNoSession}, active : BOOLEAN,
     sdp : BOOLEAN, subscribers : SUBSET PthSessions]

PthTypeOK ==
    /\ pthRegistry \in [PthNames -> PthObjects \cup {PthNone}]
    /\ pthMade \in 0..PthMaxObjects /\ pthClosed \subseteq PthObjects
    /\ pthCodec \in [PthObjects -> PthCodecs]
    /\ pthReceives \in [PthObjects -> SUBSET PthSessions]
    /\ PthKnown \subseteq PthNames /\ pthPaths \in [PthKnown -> PthPathRecord]
    /\ pthMaking \in PthSessions \cup {PthNoSession}
    /\ pthSession \in [PthSessions ->
                          [in : {"idle", "gone", "announce", "announced", "recording",
                                 "describe", "ready", "playing"},
                           path : PthNames \cup {PthNone}]]

(* A session has announced or records a path only while it is the one      *)
(* publisher of the path, so two sessions never write packets to one       *)
(* stream object through their paths.                                      *)
PthOnePublisher ==
    \A s \in PthSessions, n \in PthNames :
        pthSession[s].in \in {"announced", "recording"} /\ pthSession[s].path = n =>
            /\ pthPaths[n].publisher = s
            /\ \A m \in PthKnown \ {n} : pthPaths[m].obj # pthPaths[n].obj

(* What the publisher of a path writes reaches exactly those who play the  *)
(* path while the stream REST has under that name is the one the path was  *)
(* made with, and nobody once it was removed, even if it is made again.    *)
PthPlayersReceive ==
    /\ \A n \in PthKnown :
         PthReaches(pthPaths[n].obj) =
             IF pthPaths[n].obj = pthRegistry[n] THEN pthPaths[n].subscribers ELSE {}
    /\ \A s \in PthSessions, n \in PthKnown :
         pthSession[s] = [in |-> "playing", path |-> n] => s \in pthPaths[n].subscribers

\* Both: what a publisher sends over RTSP reaches those who play its path, and no other path's.
PthPacketsArrive == PthOnePublisher /\ PthPlayersReceive
=============================================================================
