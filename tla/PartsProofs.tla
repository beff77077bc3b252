---------------------------- MODULE PartsProofs ----------------------------
(***************************************************************************)
(* Proofs about the smaller parts of both servers, those that MCParts puts *)
(* side by side, each for every value of its constants: the client of one  *)
(* camera (RtspClient), the list of cameras (CctvSync), the signaling      *)
(* server (Signaling), the configuration with its runtime file             *)
(* (ConfigPaths), the paths of the RTSP server (RtspPaths), the manager of *)
(* commands (ProcessManager) and the camera clients of the Kotlin server   *)
(* (KotlinCameras).                                                        *)
(***************************************************************************)
EXTENDS MCParts, TLAPS

----------------------------------------------------------------------------
(* RtspClient.                                                             *)

\* The number of attempts below which each place is reached: a client that
\* waits, or is about to look at the context, has an attempt left.
HasAttemptLeft == pc \in {"new", "top", "delay"} => attempt < RetryCount

\* A session is opened by the connection under way, and only by it.
SessionOfRun ==
    /\ pc \in {"describing", "playing?", "playing"} => session \in {"open", "closed"}
    /\ pc \notin {"describing", "playing?", "playing"} => session # "open"

LEMMA RetryCountType == RetryCount \in Nat \ {0}
  BY RetriesAssumption DEF RetryCount

IInv == TypeOK /\ HasAttemptLeft /\ SessionOfRun /\ ConnectedIsPlaying

\* The Boolean part of TypeOK.
Booleans == connected \in BOOLEAN /\ codecSet \in BOOLEAN /\ ctxDone \in BOOLEAN

LEMMA InitIInv == Init => IInv
<1> SUFFICES ASSUME Init PROVE IInv
  OBVIOUS
<1>1. Booleans
  BY DEF Init, Booleans
<1>2. TypeOK /\ HasAttemptLeft
  BY <1>1, RetryCountType DEF Init, Booleans, TypeOK, HasAttemptLeft
<1>3. SessionOfRun
  BY DEF Init, SessionOfRun
<1>4. ConnectedIsPlaying
  BY DEF Init, ConnectedIsPlaying
<1> QED
  BY <1>2, <1>3, <1>4 DEF IInv

LEMMA NextIInv == IInv /\ [Next]_vars => IInv'
<1> SUFFICES ASSUME IInv, [Next]_vars PROVE IInv'
  OBVIOUS
<1> USE RetryCountType DEF IInv, TypeOK, HasAttemptLeft, SessionOfRun, ConnectedIsPlaying
<1>1. CASE Start
  BY <1>1 DEF Start
<1>2. CASE TopOfLoop
  BY <1>2 DEF TopOfLoop
<1>3. CASE NewSession
  BY <1>3 DEF NewSession
<1>4. CASE ConnectOk \/ ConnectFails
  BY <1>4 DEF ConnectOk, ConnectFails
<1>5. CASE Describe
  <2>1. Booleans'
    BY <1>5 DEF Describe, Booleans
  <2> QED
    BY <1>5, <2>1 DEF Describe, Booleans
<1>11. CASE Play
  <2>1. Booleans' /\ ConnectedIsPlaying'
    BY <1>11 DEF Play, Booleans
  <2>2. TypeOK' /\ HasAttemptLeft' /\ SessionOfRun'
    BY <1>11, <2>1 DEF Play, Booleans
  <2> QED
    BY <2>1, <2>2
<1>6. CASE RunFails
  BY <1>6 DEF RunFails
<1>7. CASE AfterFailure
  <2>1. Booleans' /\ ConnectedIsPlaying'
    BY <1>7 DEF AfterFailure, Booleans
  <2>2. TypeOK' /\ HasAttemptLeft' /\ SessionOfRun'
    BY <1>7, <2>1 DEF AfterFailure, RetriesUsedUp, Booleans
  <2> QED
    BY <2>1, <2>2
<1>8. CASE DelayOver
  BY <1>8 DEF DelayOver
<1>9. CASE StopCancel
  <2>1. Booleans' /\ ConnectedIsPlaying'
    BY <1>9 DEF StopCancel, Booleans
  <2>2. TypeOK' /\ HasAttemptLeft' /\ SessionOfRun'
    BY <1>9, <2>1 DEF StopCancel, Booleans
  <2> QED
    BY <2>1, <2>2
<1>12. CASE StopClose
  BY <1>12 DEF StopClose
<1>10. CASE UNCHANGED vars
  BY <1>10 DEF vars
<1> QED
  BY <1>1, <1>2, <1>3, <1>4, <1>5, <1>6, <1>7, <1>8, <1>9, <1>10, <1>11, <1>12
     DEF Next, Loop

\* A client never makes more attempts than configured, whatever the camera and
\* the caller of Stop do.
THEOREM TypeCorrect == Spec => []TypeOK
<1>1. IInv => TypeOK
  BY DEF IInv
<1> QED
  BY InitIInv, NextIInv, <1>1, PTL DEF Spec

\* No session with a camera outlives the call of run that opened it.
THEOREM OneSessionHolds == Spec => []OneSession
<1>1. IInv => OneSession
  BY DEF IInv, SessionOfRun, OneSession
<1> QED
  BY InitIInv, NextIInv, <1>1, PTL DEF Spec

\* A client that is not stopped says connected only while it plays.
THEOREM ConnectedIsPlayingHolds == Spec => []ConnectedIsPlaying
<1>1. IInv => ConnectedIsPlaying
  BY DEF IInv
<1> QED
  BY InitIInv, NextIInv, <1>1, PTL DEF Spec

----------------------------------------------------------------------------
(* CctvSync.                                                               *)

\* A fetched list that waits to be stored is no older than any stored one,
\* or has no cameras, as long as no two calls fetch at once.
CctvInv ==
    /\ cctvShown \in Nat /\ cctvServer \in Nat /\ cctvShown <= cctvServer
    /\ cctvPc \in [CctvRuns -> {"idle", "body", "signed", "ask", "replace", "failed", "done"}]
    /\ cctvAnswer \in [CctvRuns -> Nat]
    /\ \A r \in CctvRuns : cctvAnswer[r] <= cctvServer
    /\ ~cctvOverlap =>
         \A r \in CctvRuns : cctvPc[r] = "replace" =>
             /\ cctvShown <= cctvAnswer[r] \/ cctvAnswer[r] = CctvNoList
             /\ \A q \in CctvRuns \ {r} : cctvPc[q] # "replace"

LEMMA CctvInvInit == CctvInit => CctvInv
  BY DEF CctvInit, CctvInv, CctvNoList

LEMMA CctvInvNext == CctvInv /\ [CctvNext]_CctvVars => CctvInv'
<1> SUFFICES ASSUME CctvInv, [CctvNext]_CctvVars PROVE CctvInv'
  OBVIOUS
<1> USE DEF CctvInv, CctvGoto
\* A call that goes to another place than "replace", with nothing else of the invariant changed.
<1>1. ASSUME NEW r \in CctvRuns, NEW place \in {"body", "failed", "signed", "ask"},
             cctvPc' = [cctvPc EXCEPT ![r] = place], cctvServer' \in {cctvServer, cctvServer + 1},
             UNCHANGED <<cctvAnswer, cctvShown, cctvOverlap>>
      PROVE  CctvInv'
  BY <1>1
<1>2. ASSUME NEW r \in CctvRuns, NEW accepted \in BOOLEAN, NEW cookies, CctvSignIn(r, accepted, cookies)
      PROVE  CctvInv'
  <2>1. PICK place \in {"failed", "body"} : cctvPc' = [cctvPc EXCEPT ![r] = place]
    BY <1>2 DEF CctvSignIn
  <2> QED
    BY <1>1, <1>2, <2>1 DEF CctvSignIn
<1>3. ASSUME NEW r \in CctvRuns, NEW read \in BOOLEAN, NEW parsed \in BOOLEAN, NEW manual \in BOOLEAN,
             NEW token, CctvTakeToken(r, read, parsed, token, manual)
      PROVE  CctvInv'
  <2>1. PICK place \in {"failed", "signed", "ask"} : cctvPc' = [cctvPc EXCEPT ![r] = place]
    BY <1>3 DEF CctvTakeToken
  <2> QED
    BY <1>1, <1>3, <2>1 DEF CctvTakeToken
<1>4. ASSUME NEW r \in CctvRuns, NEW answered \in BOOLEAN, CctvSyncServer(r, answered) PROVE CctvInv'
  <2>1. cctvServer' \in {cctvServer, cctvServer + 1}
    BY <1>4 DEF CctvSyncServer
  <2>2. PICK place \in {"failed", "ask"} : cctvPc' = [cctvPc EXCEPT ![r] = place]
    BY <1>4 DEF CctvSyncServer
  <2> QED
    BY <1>1, <1>4, <2>1, <2>2 DEF CctvSyncServer
<1>5. ASSUME NEW r \in CctvRuns, NEW answer \in {"list", "none", "failed"}, CctvAsk(r, answer) PROVE CctvInv'
  <2>1. PICK n \in {cctvServer, CctvNoList} : cctvAnswer' = [cctvAnswer EXCEPT ![r] = n]
    BY <1>5 DEF CctvAsk
  <2>2. n \in Nat /\ n <= cctvServer /\ (cctvShown <= n \/ n = CctvNoList)
    BY <2>1 DEF CctvNoList
  <2>3. PICK place \in {"failed", "replace"} : cctvPc' = [cctvPc EXCEPT ![r] = place]
    BY <1>5 DEF CctvAsk
  <2>4. ~cctvOverlap' => ~cctvOverlap /\ \A q \in CctvRuns \ {r} : cctvPc[q] # "replace"
    BY <1>5 DEF CctvAsk
  <2>5. cctvServer' = cctvServer /\ cctvShown' = cctvShown
    BY <1>5 DEF CctvAsk
  <2> QED
    BY <2>1, <2>2, <2>3, <2>4, <2>5
<1>6. ASSUME NEW r \in CctvRuns, CctvReplace(r) PROVE CctvInv'
  BY <1>6 DEF CctvReplace
<1>7. ASSUME NEW r \in CctvRuns, CctvNotSigned(r) PROVE CctvInv'
  BY <1>1, <1>7 DEF CctvNotSigned
<1>8. CASE UNCHANGED CctvVars
  BY <1>8 DEF CctvVars
<1>9. ASSUME NEW r \in CctvRuns, CctvCall(r) PROVE CctvInv'
  BY <1>2, <1>3, <1>4, <1>5, <1>6, <1>7, <1>9 DEF CctvCall
<1> QED
  BY <1>8, <1>9 DEF CctvNext

\* The list of cameras (manager.go, fetchCCTVs) becomes empty only by an answer without cameras, and is
\* never again older than one there has been, unless two calls were fetching at once.
THEOREM CctvNeverOlderHolds == CctvSpec => CctvNeverOlder
<1> DEFINE Newer == \/ cctvOverlap \/ cctvList' >= cctvShown
                    \/ cctvList' = CctvNoList
                       /\ \E r \in CctvRuns : cctvPc[r] = "replace" /\ cctvAnswer[r] = CctvNoList
<1>1. CctvInv /\ [CctvNext]_CctvVars => [cctvList' # cctvList => Newer]_CctvVars
  <2> SUFFICES ASSUME CctvInv, CctvNext, cctvList' # cctvList PROVE Newer
    OBVIOUS
  <2>1. ASSUME NEW r \in CctvRuns, CctvReplace(r) PROVE Newer
    BY <2>1 DEF CctvInv, CctvReplace
  <2> QED
    BY <2>1 DEF CctvNext, CctvCall, CctvSignIn, CctvTakeToken, CctvNotSigned, CctvSyncServer, CctvAsk,
                CctvBeforeAsk
<1> QED
  BY <1>1, CctvInvInit, CctvInvNext, PTL DEF CctvSpec, CctvNeverOlder

----------------------------------------------------------------------------
(* Signaling.                                                              *)

SigInv ==
    /\ SigTypeOK
    /\ \A c \in SigClients : sigConn[c] = "none" => sigGone[c] = 0
    /\ SigRegisteredIsServed /\ SigGoneOnce

LEMMA SigInvInit == SigInit => SigInv
<1> SUFFICES ASSUME SigInit PROVE SigInv
  OBVIOUS
<1>1. sigDown \in BOOLEAN /\ sigPanic \in BOOLEAN
  BY Zenon DEF SigInit
<1> QED
  BY <1>1, SigAssumption DEF SigInit, SigInv, SigTypeOK, SigRegisteredIsServed, SigGoneOnce

LEMMA SigInvNext == SigInv /\ [SigNext]_SigVars => SigInv'
<1> SUFFICES ASSUME SigInv, [SigNext]_SigVars PROVE SigInv'
  OBVIOUS
<1> USE DEF SigInv, SigTypeOK, SigRegisteredIsServed, SigGoneOnce
<1>1. ASSUME NEW c \in SigClients, SigConnect(c) PROVE SigInv'
  BY <1>1 DEF SigConnect
<1>2. ASSUME NEW c \in SigClients, SigHangUp(c) \/ SigDrained(c) PROVE SigInv'
  <2>1. sigConn' = [sigConn EXCEPT ![c] = "closed"]
    BY <1>2 DEF SigHangUp, SigDrained
  <2> QED
    BY <1>2, <2>1 DEF SigHangUp, SigDrained
<1>3. ASSUME NEW c \in SigClients, SigReadOffer(c) PROVE SigInv'
  BY <1>3 DEF SigReadOffer
<1>4. ASSUME NEW c \in SigClients, SigAnswer(c) PROVE SigInv'
  <2>1. sigOffers' \in [SigClients -> Nat]
    BY <1>4 DEF SigAnswer
  <2>2. sigQueue' \in [SigClients -> 0..SigCapacity]
    BY <1>4, SigAssumption DEF SigAnswer, SigQueued
  <2>3. sigPanic' \in BOOLEAN
    <3>1. sigPanic' = sigPanic \/ sigPanic' = TRUE
      BY <1>4 DEF SigAnswer
    <3> QED
      BY <3>1
  <2> QED
    BY <1>4, <2>1, <2>2, <2>3 DEF SigAnswer
<1>5. ASSUME NEW c \in SigClients, SigTake(c) \/ SigWrite(c) PROVE SigInv'
  <2>1. sigQueue' \in [SigClients -> 0..SigCapacity]
    BY <1>5, SigAssumption DEF SigTake, SigWrite
  <2> QED
    BY <1>5, <2>1 DEF SigTake, SigWrite
<1>6. ASSUME NEW c \in SigClients, SigReadEnd(c) PROVE SigInv'
  <2>1. CASE c \in sigClients
    BY <1>6, <2>1 DEF SigReadEnd, SigUnregister
  <2>2. CASE c \notin sigClients
    BY <1>6, <2>2 DEF SigReadEnd, SigUnregister
  <2> QED
    BY <2>1, <2>2
<1>7. CASE SigClose
  <2>1. sigDown' \in BOOLEAN
    BY <1>7, Zenon DEF SigClose
  <2> QED
    BY <1>7, <2>1 DEF SigClose
<1>8. CASE UNCHANGED SigVars
  BY <1>8 DEF SigVars
<1> QED
  BY <1>1, <1>2, <1>3, <1>4, <1>5, <1>6, <1>7, <1>8 DEF SigNext, SigClient

\* Whoever is in Server.clients has an open channel and a reader (signaling/server.go), and onClose is
\* called once at most for a client, when its channel is closed.  These are the parts of
\* SigClientsServed that are no liveness.
THEOREM SignalingServesClients == SigSpec => [](SigRegisteredIsServed /\ SigGoneOnce)
<1>1. SigInv => SigRegisteredIsServed /\ SigGoneOnce
  BY DEF SigInv
<1> QED
  BY <1>1, SigInvInit, SigInvNext, PTL DEF SigSpec

----------------------------------------------------------------------------
(* ConfigPaths.                                                            *)

\* The paths are what a start on the present config.yaml would load, unless there was a warning or will be.
CfgSaved == cfgWarned \/ cfgFile.is = "torn" \/ cfgPaths = CfgLoad(cfgYaml, cfgFile)

\* The running program knows that its file is torn.
CfgTornWarns == cfgUp /\ cfgFile.is = "torn" => cfgWarned

CfgInv ==
    /\ CfgTypeOK /\ CfgTornWarns
    /\ cfgFile.paths \in CfgMaps
    /\ cfgFile.is = "torn" => cfgFile = CfgTorn
    /\ cfgUp => cfgBoots > 0
    /\ cfgBoots > 0 =>
         /\ CfgSaved
         /\ \A i \in DOMAIN cfgYaml : i \in DOMAIN cfgPaths /\ cfgPaths[i] = cfgYaml[i]
         /\ CfgValid(cfgHls) /\ cfgHls.dur \in Int /\ cfgHls.count \in Int /\ cfgHls.threshold \in Int

LEMMA CfgMapFacts ==
    /\ \A f : f \in CfgMaps <=> /\ DOMAIN f \subseteq CfgIds /\ f = [i \in DOMAIN f |-> f[i]]
                                /\ \A i \in DOMAIN f : f[i] \in CfgBodies
    /\ << >> \in CfgMaps
<1>1. ASSUME NEW f, f \in CfgMaps
      PROVE  /\ DOMAIN f \subseteq CfgIds /\ f = [i \in DOMAIN f |-> f[i]]
             /\ \A i \in DOMAIN f : f[i] \in CfgBodies
  BY <1>1 DEF CfgMaps
<1>2. ASSUME NEW f, DOMAIN f \subseteq CfgIds, f = [i \in DOMAIN f |-> f[i]],
             \A i \in DOMAIN f : f[i] \in CfgBodies
      PROVE  f \in CfgMaps
  <2>1. f \in [DOMAIN f -> CfgBodies]
    BY <1>2
  <2> QED
    BY <1>2, <2>1 DEF CfgMaps
<1>3. << >> \in [{} -> CfgBodies]
  OBVIOUS
<1>4. << >> \in CfgMaps
  BY <1>3 DEF CfgMaps
<1> QED
  BY <1>1, <1>2, <1>4

\* Maps stay maps, and loading puts config.yaml over the file.
LEMMA CfgOverIsMap ==
    ASSUME NEW f \in CfgMaps, NEW g \in CfgMaps
    PROVE  CfgOver(f, g) \in CfgMaps
  BY CfgMapFacts DEF CfgOver

LEMMA CfgWithoutIsMap ==
    ASSUME NEW f \in CfgMaps, NEW ids
    PROVE  CfgWithout(f, ids) \in CfgMaps
  BY CfgMapFacts DEF CfgWithout

LEMMA CfgLoadFacts ==
    ASSUME NEW yaml \in CfgMaps, NEW file, file.paths \in CfgMaps
    PROVE  /\ CfgLoad(yaml, file) \in CfgMaps
           /\ \A i \in DOMAIN yaml : i \in DOMAIN CfgLoad(yaml, file) /\ CfgLoad(yaml, file)[i] = yaml[i]
  BY CfgOverIsMap DEF CfgLoad, CfgOver

\* What is written and then loaded over the same config.yaml is what was in memory.
LEMMA CfgWrittenIsLoaded ==
    ASSUME NEW paths \in CfgMaps,
           \A i \in DOMAIN cfgYaml : i \in DOMAIN paths /\ paths[i] = cfgYaml[i]
    PROVE  paths = CfgLoad(cfgYaml, CfgWritten(paths))
<1>1. paths = [i \in DOMAIN paths |-> paths[i]]
  BY CfgMapFacts
<1>2. CfgWritten(paths).paths = [i \in DOMAIN paths \ DOMAIN cfgYaml |-> paths[i]]
  BY DEF CfgWritten, CfgFile, CfgWithout
<1>3. CfgLoad(cfgYaml, CfgWritten(paths)) = [i \in DOMAIN paths |-> paths[i]]
  BY <1>2 DEF CfgLoad, CfgOver
<1> QED
  BY <1>1, <1>3

LEMMA CfgInvInit == CfgInit => CfgInv
<1> SUFFICES ASSUME CfgInit PROVE CfgInv
  OBVIOUS
<1>1. ~cfgUp /\ cfgUp \in BOOLEAN /\ cfgWarned \in BOOLEAN
  BY Zenon DEF CfgInit
<1> QED
  BY <1>1, CfgMapFacts, CfgAssumption DEF CfgInit, CfgInv, CfgTypeOK, CfgTornWarns, CfgNoFile

\* What a change of the map comes to, saved or not.
LEMMA CfgChangeKeepsInv ==
    ASSUME CfgInv, cfgUp, NEW paths \in CfgMaps, CfgChange(paths),
           \A i \in DOMAIN cfgYaml : i \in DOMAIN paths /\ paths[i] = cfgYaml[i],
           cfgYaml' = cfgYaml, cfgBoots' = cfgBoots, cfgHls' = cfgHls, cfgAdding' \subseteq CfgIds
    PROVE  CfgInv'
<1>1. CfgValid(cfgHls)' /\ cfgBoots > 0 /\ cfgUp \in BOOLEAN /\ cfgWarned \in BOOLEAN
  BY DEF CfgInv, CfgValid, CfgTypeOK
<1>2. CASE cfgPaths' = paths /\ cfgFile' = CfgWritten(paths) /\ cfgUp' = cfgUp /\ cfgWarned' = FALSE
  <2>1. paths = CfgLoad(cfgYaml, CfgWritten(paths)) /\ CfgWithout(paths, DOMAIN cfgYaml) \in CfgMaps
    BY CfgWrittenIsLoaded, CfgWithoutIsMap
  <2>2. CfgSaved'
    BY <1>2, <2>1 DEF CfgSaved, CfgLoad
  <2>3. cfgFile'.is = "whole" /\ cfgFile'.paths \in CfgMaps
    BY <1>2, <2>1 DEF CfgWritten, CfgFile
  <2>4. cfgWarned' \in BOOLEAN
    BY <1>2, Zenon
  <2>5. CfgTornWarns'
    BY <2>3 DEF CfgTornWarns
  <2> QED
    BY <1>1, <1>2, <2>2, <2>3, <2>4, <2>5 DEF CfgInv, CfgTypeOK
<1>3. CASE /\ cfgPaths' = paths /\ cfgWarned' = TRUE /\ cfgUp' = cfgUp
           /\ cfgFile' \in {cfgFile, CfgTorn, CfgWritten(paths)}
  <2>1. CfgSaved' /\ cfgWarned' \in BOOLEAN /\ CfgTornWarns'
    BY <1>3, Zenon DEF CfgSaved, CfgTornWarns
  <2>2. CfgWithout(paths, DOMAIN cfgYaml) \in CfgMaps
    BY CfgWithoutIsMap
  <2>3. /\ cfgFile'.is \in {"missing", "torn", "whole"} /\ cfgFile'.paths \in CfgMaps
        /\ cfgFile'.is = "torn" => cfgFile' = CfgTorn
    BY <1>3, <2>2, CfgMapFacts DEF CfgInv, CfgTypeOK, CfgTorn, CfgWritten, CfgFile
  <2> QED
    BY <1>1, <1>3, <2>1, <2>3 DEF CfgInv, CfgTypeOK
<1>4. CASE cfgFile' = CfgTorn /\ cfgUp' = FALSE /\ cfgPaths' = cfgPaths /\ cfgWarned' = cfgWarned
  <2>1. ~cfgUp' /\ cfgUp' \in BOOLEAN
    BY <1>4, Zenon
  <2>2. CfgSaved'
    BY <1>4 DEF CfgSaved, CfgTorn
  <2>3. cfgFile'.is = "torn" /\ cfgFile'.paths \in CfgMaps
    BY <1>4, CfgMapFacts DEF CfgTorn
  <2>4. CfgTornWarns'
    BY <2>1 DEF CfgTornWarns
  <2> QED
    BY <1>1, <1>4, <2>1, <2>2, <2>3, <2>4 DEF CfgInv, CfgTypeOK
<1> QED
  BY <1>2, <1>3, <1>4 DEF CfgChange

LEMMA CfgInvNext == CfgInv /\ [CfgNext]_CfgVars => CfgInv'
<1> SUFFICES ASSUME CfgInv, [CfgNext]_CfgVars PROVE CfgInv'
  OBVIOUS
<1>1. ASSUME NEW yaml \in CfgMaps, NEW hls \in CfgHlsSettings, NEW readable \in BOOLEAN,
             CfgBoot(yaml, hls, readable)
      PROVE  CfgInv'
  <2>1. /\ cfgBoots' \in 0..CfgMaxBoots /\ cfgBoots' > 0 /\ cfgFile' = cfgFile /\ cfgAdding' = {}
        /\ cfgYaml' = yaml /\ cfgPaths' = CfgLoad(yaml, CfgRead(readable)) /\ cfgHls' = CfgDefaults(hls)
    BY <1>1, CfgAssumption DEF CfgBoot, CfgInv, CfgTypeOK
  <2>2. CfgValid(cfgHls)' /\ cfgHls'.dur \in Int /\ cfgHls'.count \in Int /\ cfgHls'.threshold \in Int
    <3>1. hls.dur \in Int /\ hls.count \in Int /\ hls.threshold \in Int
      BY CfgAssumption DEF CfgHlsSettings
    <3>2. CfgValid(cfgHls)'
      BY <1>1, <2>1 DEF CfgBoot, CfgValid
    <3> QED
      BY <2>1, <3>1, <3>2 DEF CfgDefaults
  <2>3. CfgSaved'
    <3>1. CASE readable
      BY <2>1, <3>1 DEF CfgSaved, CfgLoad, CfgRead
    <3>2. CASE ~readable
      <4>1. cfgWarned'
        BY <1>1, <3>2, Zenon DEF CfgBoot
      <4> QED
        BY <4>1 DEF CfgSaved
    <3> QED
      BY <3>1, <3>2
  <2>4. /\ cfgPaths' \in CfgMaps
        /\ \A i \in DOMAIN cfgYaml' : i \in DOMAIN cfgPaths' /\ cfgPaths'[i] = cfgYaml'[i]
    <3>1. CfgRead(readable).paths \in CfgMaps
      BY CfgMapFacts DEF CfgRead, CfgNoFile, CfgInv
    <3> QED
      BY <2>1, <3>1, CfgLoadFacts
  <2>5. cfgUp' \in BOOLEAN /\ cfgWarned' \in BOOLEAN
    BY <1>1, Zenon DEF CfgBoot
  <2>6. cfgFile'.paths \in CfgMaps /\ cfgFile'.is \in {"missing", "torn", "whole"}
        /\ (cfgFile'.is = "torn" => cfgFile' = CfgTorn)
    BY <2>1 DEF CfgInv, CfgTypeOK
  <2>7. CfgTornWarns'
    <3>1. cfgFile.is = "torn" => cfgWarned'
      BY <1>1, Zenon DEF CfgBoot
    <3> QED
      BY <2>1, <3>1 DEF CfgTornWarns
  <2> QED
    BY <2>1, <2>2, <2>3, <2>4, <2>5, <2>6, <2>7 DEF CfgInv, CfgTypeOK
<1>2. ASSUME UNCHANGED <<cfgYaml, cfgPaths, cfgFile, cfgBoots, cfgWarned, cfgHls>>,
             cfgUp' \in {cfgUp, FALSE}, cfgAdding' \subseteq CfgIds
      PROVE  CfgInv'
  <2>1. cfgUp' \in BOOLEAN /\ (cfgUp' => cfgUp)
    <3>1. cfgUp \in BOOLEAN
      BY DEF CfgInv, CfgTypeOK
    <3>2. CASE cfgUp' = cfgUp
      BY <3>1, <3>2
    <3>3. CASE cfgUp' = FALSE
      BY <3>3, Zenon
    <3>4. cfgUp' = cfgUp \/ cfgUp' = FALSE
      BY <1>2
    <3> QED
      BY <3>2, <3>3, <3>4
  <2> QED
    BY <1>2, <2>1 DEF CfgInv, CfgTypeOK, CfgSaved, CfgTornWarns, CfgLoad, CfgValid
<1>3. ASSUME NEW ids \in SUBSET CfgIds, CfgAddPaths(ids) PROVE CfgInv'
  BY <1>2, <1>3 DEF CfgAddPaths
<1>4. cfgUp => /\ cfgPaths \in CfgMaps
               /\ \A j \in DOMAIN cfgYaml : j \in DOMAIN cfgPaths /\ cfgPaths[j] = cfgYaml[j]
  BY DEF CfgInv, CfgTypeOK
\* A new or a changed path of a name that config.yaml does not define.
<1>5. ASSUME NEW i \in CfgIds, NEW body \in CfgBodies, cfgUp, i \notin DOMAIN cfgYaml
      PROVE  LET paths == CfgOver(cfgPaths, [j \in {i} |-> body])
             IN  /\ paths \in CfgMaps
                 /\ \A j \in DOMAIN cfgYaml : j \in DOMAIN paths /\ paths[j] = cfgYaml[j]
  <2>1. [j \in {i} |-> body] \in CfgMaps
    BY <1>5, CfgMapFacts
  <2>2. CfgOver(cfgPaths, [j \in {i} |-> body]) \in CfgMaps
    BY <1>4, <1>5, <2>1, CfgOverIsMap
  <2> QED
    BY <1>4, <1>5, <2>2 DEF CfgOver
<1>6. ASSUME NEW i \in CfgIds, NEW body \in CfgBodies \cup {CfgBad}, CfgAddPath(i, body) PROVE CfgInv'
  <2>1. cfgUp /\ cfgAdding' \subseteq CfgIds /\ cfgYaml' = cfgYaml /\ cfgBoots' = cfgBoots /\ cfgHls' = cfgHls
    BY <1>6 DEF CfgAddPath, CfgInv, CfgTypeOK
  <2>2. CASE i \in DOMAIN cfgPaths \/ body = CfgBad
    BY <1>2, <1>6, <2>1, <2>2 DEF CfgAddPath
  <2>3. CASE ~(i \in DOMAIN cfgPaths \/ body = CfgBad)
    <3> DEFINE paths == CfgOver(cfgPaths, [j \in {i} |-> body])
    <3>1. CfgChange(paths) /\ i \notin DOMAIN cfgYaml
      BY <1>4, <1>6, <2>1, <2>3 DEF CfgAddPath
    <3>2. /\ paths \in CfgMaps
          /\ \A j \in DOMAIN cfgYaml : j \in DOMAIN paths /\ paths[j] = cfgYaml[j]
      BY <1>5, <2>1, <2>3, <3>1
    <3> HIDE DEF paths
    <3> QED
      BY <2>1, <3>1, <3>2, CfgChangeKeepsInv
  <2> QED
    BY <2>2, <2>3
<1>7. ASSUME NEW i \in CfgIds, NEW body \in CfgBodies \cup {CfgBad}, CfgUpdatePath(i, body) PROVE CfgInv'
  <2> DEFINE paths == CfgOver(cfgPaths, [j \in {i} |-> body])
  <2>1. /\ cfgUp /\ cfgAdding' \subseteq CfgIds /\ cfgYaml' = cfgYaml /\ cfgBoots' = cfgBoots
        /\ cfgHls' = cfgHls /\ CfgChange(paths) /\ i \notin DOMAIN cfgYaml /\ body \in CfgBodies
    BY <1>7 DEF CfgUpdatePath, CfgOurs, CfgInv, CfgTypeOK
  <2>2. /\ paths \in CfgMaps
        /\ \A j \in DOMAIN cfgYaml : j \in DOMAIN paths /\ paths[j] = cfgYaml[j]
    BY <1>5, <2>1
  <2> HIDE DEF paths
  <2> QED
    BY <2>1, <2>2, CfgChangeKeepsInv
<1>8. ASSUME NEW i \in CfgIds, CfgDeletePath(i) PROVE CfgInv'
  <2> DEFINE paths == CfgWithout(cfgPaths, {i})
  <2>1. /\ cfgUp /\ cfgAdding' \subseteq CfgIds /\ cfgYaml' = cfgYaml /\ cfgBoots' = cfgBoots
        /\ cfgHls' = cfgHls /\ CfgChange(paths) /\ i \notin DOMAIN cfgYaml
    BY <1>8 DEF CfgDeletePath, CfgOurs, CfgInv, CfgTypeOK
  <2>2. paths \in CfgMaps
    BY <1>4, <2>1, CfgWithoutIsMap
  <2>3. \A j \in DOMAIN cfgYaml : j \in DOMAIN paths /\ paths[j] = cfgYaml[j]
    BY <1>4, <2>1 DEF CfgWithout
  <2> HIDE DEF paths
  <2> QED
    BY <2>1, <2>2, <2>3, CfgChangeKeepsInv
<1>9. CASE CfgDown
  <2>1. cfgUp' \in {cfgUp, FALSE} /\ cfgAdding' \subseteq CfgIds
    BY <1>9 DEF CfgDown, CfgInv, CfgTypeOK
  <2> QED
    BY <1>2, <1>9, <2>1 DEF CfgDown
<1>10. CASE UNCHANGED CfgVars
  <2>1. cfgUp' \in {cfgUp, FALSE} /\ cfgAdding' \subseteq CfgIds
    BY <1>10 DEF CfgVars, CfgInv, CfgTypeOK
  <2> QED
    BY <1>2, <1>10, <2>1 DEF CfgVars
<1> QED
  BY <1>1, <1>3, <1>6, <1>7, <1>8, <1>9, <1>10 DEF CfgNext

\* The paths of the running program are those of config.yaml and of the runtime file, a restart on the
\* same config.yaml brings the same paths back, both unless a save or a load had failed, and a playlist
\* never lists more segments than are kept (config_store.go, config.go).
THEOREM CfgPathsPersistHolds == CfgSpec => CfgPathsPersist
<1>1. CfgInv => CfgFileIsMemory /\ CfgWindowKept
  <2> SUFFICES ASSUME CfgInv PROVE CfgFileIsMemory /\ CfgWindowKept
    OBVIOUS
  <2>1. cfgUp => (cfgWarned \/ cfgPaths = CfgLoad(cfgYaml, cfgFile))
    BY DEF CfgInv, CfgSaved, CfgTornWarns
  <2> QED
    BY <2>1 DEF CfgInv, CfgTypeOK, CfgFileIsMemory, CfgWindowKept, CfgValid
<1>2. CfgInv /\ [CfgNext]_CfgVars =>
        [~cfgUp /\ cfgUp' /\ cfgBoots > 0 /\ cfgYaml' = cfgYaml /\ ~cfgWarned /\ ~cfgWarned'
            => cfgPaths' = cfgPaths]_CfgVars
  <2> SUFFICES ASSUME CfgInv, CfgNext, ~cfgUp, cfgUp', cfgBoots > 0, cfgYaml' = cfgYaml, ~cfgWarned,
                      ~cfgWarned'
               PROVE  cfgPaths' = cfgPaths
    OBVIOUS
  <2>1. PICK yaml \in CfgMaps, hls \in CfgHlsSettings, readable \in BOOLEAN : CfgBoot(yaml, hls, readable)
    BY DEF CfgNext, CfgAddPaths, CfgAddPath, CfgUpdatePath, CfgDeletePath, CfgDown
  <2>2. readable /\ cfgFile.is # "torn"
    BY <2>1, Zenon DEF CfgBoot
  <2>3. cfgPaths' = CfgLoad(cfgYaml, cfgFile)
    BY <2>1, <2>2 DEF CfgBoot, CfgRead
  <2> QED
    BY <2>2, <2>3 DEF CfgInv, CfgSaved
<1> QED
  BY <1>1, <1>2, CfgInvInit, CfgInvNext, PTL DEF CfgSpec, CfgPathsPersist, CfgRestartKeepsPaths

----------------------------------------------------------------------------
(* RtspPaths.                                                              *)

\* An object is registered or held under one name only.
PthOwned ==
    /\ \A n \in PthNames : pthRegistry[n] <= pthMade
    /\ \A n, m \in PthNames : n # m /\ pthRegistry[n] # PthNone => pthRegistry[n] # pthRegistry[m]
    /\ \A n \in PthKnown : pthPaths[n].obj \in 1..pthMade
    /\ \A n \in PthKnown, m \in PthNames : n # m => pthPaths[n].obj # pthRegistry[m]
    /\ \A n, m \in PthKnown : n # m => pthPaths[n].obj # pthPaths[m].obj

\* The path of a session that is past the lookup is known, and the one that makes a path is alone.
PthUses(s) ==
    /\ pthSession[s].in \in {"announce", "describe"} /\ pthMaking # s => pthSession[s].path \in PthKnown
    /\ pthSession[s].in \in {"announced", "recording", "ready", "playing"} =>
         pthSession[s].path \in PthKnown
    /\ pthMaking = s =>
         pthSession[s].in \in {"announce", "describe"} /\ pthSession[s].path \notin PthKnown
    /\ pthSession[s].in \in {"announced", "recording"} => pthPaths[pthSession[s].path].publisher = s
    /\ pthSession[s].in = "playing" => s \in pthPaths[pthSession[s].path].subscribers

\* Only through a path does anybody subscribe to an object.
PthListed ==
    /\ \A n \in PthKnown : pthPaths[n].subscribers = pthReceives[pthPaths[n].obj]
    /\ \A o \in PthObjects : pthReceives[o] # {} => \E n \in PthKnown : pthPaths[n].obj = o

\* What is registered is open; what a path holds and is not registered any more is closed.
PthShut ==
    /\ pthClosed \subseteq 1..pthMade
    /\ \A n \in PthNames : pthRegistry[n] \notin pthClosed
    /\ \A n \in PthKnown : pthPaths[n].obj # pthRegistry[n] => pthPaths[n].obj \in pthClosed

PthInv == PthTypeOK /\ PthOwned /\ (\A s \in PthSessions : PthUses(s)) /\ PthListed /\ PthShut

LEMMA PthInvInit == PthInit => PthInv
<1> SUFFICES ASSUME PthInit PROVE PthInv
  OBVIOUS
<1>1. PthKnown = {}
  BY DEF PthInit, PthKnown
<1>2. PthTypeOK
  BY <1>1, PthAssumption DEF PthInit, PthTypeOK, PthKnown, PthCodecs, PthNoSession, PthNone
<1>3. PthOwned /\ PthListed /\ PthShut
  BY <1>1 DEF PthInit, PthOwned, PthListed, PthShut, PthNone
<1>4. \A s \in PthSessions : PthUses(s)
  BY PthAssumption DEF PthInit, PthUses, PthNoSession
<1> QED
  BY <1>2, <1>3, <1>4 DEF PthInv

\* A step of one session that leaves registry and names of paths alone.
LEMMA PthOthersStay ==
    ASSUME PthInv, PthTypeOK', NEW s \in PthSessions, PthUses(s)', PthListed',
           pthRegistry' = pthRegistry, pthMade' = pthMade, pthClosed' = pthClosed, PthKnown' = PthKnown, pthMaking' = pthMaking,
           \A n \in PthKnown : pthPaths'[n].obj = pthPaths[n].obj,
           \A q \in PthSessions \ {s} :
               /\ pthSession'[q] = pthSession[q]
               /\ \A n \in PthKnown :
                    /\ pthPaths[n].publisher = q => pthPaths'[n].publisher = q
                    /\ q \in pthPaths[n].subscribers => q \in pthPaths'[n].subscribers
    PROVE  PthInv'
<1>1. PthOwned'
  <2>1. /\ PthOwned
        /\ \A n \in PthKnown : pthPaths'[n].obj = pthPaths[n].obj
    BY DEF PthInv
  <2>2. \A n \in PthKnown : pthPaths'[n].obj \in 1..pthMade
    BY <2>1 DEF PthOwned
  <2>3. \A n \in PthKnown, m \in PthNames : n # m => pthPaths'[n].obj # pthRegistry[m]
    BY <2>1 DEF PthOwned
  <2>4. \A n, m \in PthKnown : n # m => pthPaths'[n].obj # pthPaths'[m].obj
    BY <2>1 DEF PthOwned
  <2> QED
    BY <2>1, <2>2, <2>3, <2>4 DEF PthOwned
<1>2. ASSUME NEW q \in PthSessions PROVE PthUses(q)'
  BY <1>1 DEF PthInv, PthUses
<1>3. PthShut'
  BY DEF PthInv, PthShut
<1> QED
  BY <1>1, <1>2, <1>3 DEF PthInv

LEMMA PthInvNext == PthInv /\ [PthNext]_PthVars => PthInv'
<1> SUFFICES ASSUME PthInv, [PthNext]_PthVars PROVE PthInv'
  OBVIOUS
<1>1. /\ PthTypeOK /\ PthOwned /\ PthListed /\ PthShut /\ \A s \in PthSessions : PthUses(s)
      /\ PthObjects \subseteq Nat /\ PthNone \notin PthObjects
  BY PthAssumption DEF PthInv, PthObjects, PthNone
<1>2. ASSUME NEW n \in PthNames, PthRestCreate(n) PROVE PthInv'
  <2>1. pthMade + 1 \in PthObjects /\ pthMade \in Nat
    BY <1>1, <1>2, PthAssumption DEF PthRestCreate, PthTypeOK, PthObjects
  <2>2. PthTypeOK'
    BY <1>1, <1>2, <2>1, PthAssumption DEF PthRestCreate, PthTypeOK, PthKnown, PthObjects
  <2>3. PthOwned'
    <3>1. /\ pthRegistry'[n] = pthMade + 1 /\ pthMade' = pthMade + 1
          /\ \A m \in PthNames \ {n} : pthRegistry'[m] = pthRegistry[m]
          /\ \A m \in PthNames : pthRegistry[m] \in Nat
      <4>1. \A m \in PthNames : pthRegistry[m] \in Nat
        <5>1. \A x \in PthObjects \cup {PthNone} : x \in Nat
          BY <1>1 DEF PthNone
        <5> QED
          BY <1>1, <5>1 DEF PthTypeOK
      <4>2. pthRegistry' = [pthRegistry EXCEPT ![n] = pthMade + 1] /\ pthMade' = pthMade + 1
        BY <1>2 DEF PthRestCreate
      <4> QED
        BY <1>1, <4>1, <4>2 DEF PthTypeOK
    <3>2. pthPaths' = pthPaths /\ PthKnown' = PthKnown /\ pthRegistry[n] = PthNone
      BY <1>2 DEF PthRestCreate, PthKnown
    <3> QED
      BY <1>1, <2>1, <3>1, <3>2 DEF PthOwned
  <2>4. PthShut'
    <3>1. /\ pthRegistry'[n] = pthMade + 1 /\ pthMade' = pthMade + 1 /\ pthClosed' = pthClosed
          /\ \A m \in PthNames \ {n} : pthRegistry'[m] = pthRegistry[m]
          /\ pthPaths' = pthPaths /\ PthKnown' = PthKnown /\ pthRegistry[n] = PthNone
      BY <1>1, <1>2 DEF PthRestCreate, PthTypeOK, PthKnown
    <3>2. \A m \in PthKnown : pthPaths[m].obj \in 1..pthMade /\ m \in PthNames
      BY <1>1 DEF PthOwned, PthTypeOK
    <3> QED
      BY <1>1, <2>1, <3>1, <3>2 DEF PthShut, PthNone
  <2> QED
    BY <1>1, <1>2, <2>2, <2>3, <2>4 DEF PthRestCreate, PthInv, PthUses, PthListed, PthKnown
<1>3. ASSUME NEW n \in PthNames, PthRestRemove(n) PROVE PthInv'
  <2>1. PthTypeOK'
    BY <1>1, <1>3 DEF PthRestRemove, PthTypeOK, PthKnown
  <2>2. PthOwned'
    BY <1>1, <1>3, PthAssumption DEF PthRestRemove, PthTypeOK, PthOwned, PthKnown, PthNone
  <2>3. PthShut'
    <3>1. /\ pthRegistry'[n] = PthNone /\ \A m \in PthNames \ {n} : pthRegistry'[m] = pthRegistry[m]
          /\ pthClosed' = pthClosed \cup {pthRegistry[n]} /\ pthMade' = pthMade
          /\ pthPaths' = pthPaths /\ PthKnown' = PthKnown
      BY <1>1, <1>3 DEF PthRestRemove, PthTypeOK, PthKnown
    <3>2. pthRegistry[n] \in 1..pthMade /\ PthNone \notin 1..pthMade
      BY <1>1, <1>3, PthAssumption DEF PthRestRemove, PthTypeOK, PthOwned, PthObjects, PthNone
    <3>3. \A m \in PthNames : pthRegistry'[m] \notin pthClosed'
      BY <1>1, <3>1, <3>2 DEF PthOwned, PthShut
    <3>4. pthClosed' \subseteq 1..pthMade'
      BY <1>1, <3>1, <3>2 DEF PthShut
    <3>5. ASSUME NEW m \in PthKnown', pthPaths'[m].obj # pthRegistry'[m] PROVE pthPaths'[m].obj \in pthClosed'
      <4>1. m \in PthKnown /\ m \in PthNames /\ pthPaths'[m] = pthPaths[m]
        BY <1>1, <3>1, <3>5 DEF PthTypeOK
      <4>2. CASE pthPaths[m].obj = pthRegistry[m]
        BY <3>1, <3>5, <4>1, <4>2
      <4>3. CASE pthPaths[m].obj # pthRegistry[m]
        BY <1>1, <3>1, <4>1, <4>3 DEF PthShut
      <4> QED
        BY <4>2, <4>3
    <3> QED
      BY <3>3, <3>4, <3>5 DEF PthShut
  <2> QED
    BY <1>1, <1>3, <2>1, <2>2, <2>3 DEF PthRestRemove, PthInv, PthUses, PthListed, PthKnown
<1>4. ASSUME NEW o \in PthObjects, NEW codec \in PthCodecs, PthCameraCodec(o, codec) PROVE PthInv'
  <2>1. PthTypeOK'
    BY <1>1, <1>4 DEF PthCameraCodec, PthTypeOK, PthKnown
  <2> QED
    BY <1>1, <1>4, <2>1 DEF PthCameraCodec, PthInv, PthOwned, PthUses, PthListed, PthShut, PthKnown
\* A path that gets a name of its own, over an object of that name.
<1>5. ASSUME NEW n \in PthNames, n \notin PthKnown, NEW o \in PthObjects,
             pthPaths' = [m \in PthKnown \cup {n} |-> IF m = n THEN PthNewPath(o) ELSE pthPaths[m]],
             pthReceives' = pthReceives, pthClosed' = pthClosed, o \notin pthClosed, pthMade' \in PthObjects, pthMade <= pthMade', o <= pthMade',
             \A m \in PthKnown : pthPaths[m].obj # o,
             \A m \in PthNames \ {n} : pthRegistry'[m] = pthRegistry[m] /\ pthRegistry[m] # o,
             pthRegistry' \in [PthNames -> PthObjects \cup {PthNone}], pthRegistry'[n] = o
      PROVE  /\ pthPaths' \in [PthKnown' -> PthPathRecord] /\ PthKnown' = PthKnown \cup {n}
             /\ PthOwned' /\ PthListed' /\ PthShut' /\ \A m \in PthKnown : pthPaths'[m] = pthPaths[m]
  <2>1. PthKnown' = PthKnown \cup {n} /\ \A m \in PthKnown : pthPaths'[m] = pthPaths[m]
    BY <1>5 DEF PthKnown
  <2>2. pthPaths'[n] = PthNewPath(o) /\ PthNewPath(o) \in PthPathRecord
    BY <1>5 DEF PthKnown, PthNewPath, PthPathRecord
  <2>3. pthPaths' \in [PthKnown' -> PthPathRecord]
    BY <1>1, <1>5, <2>1, <2>2 DEF PthTypeOK
  <2>4. PthNewPath(o).obj = o /\ PthNewPath(o).subscribers = {}
    BY DEF PthNewPath
  <2>5. PthOwned'
    BY <1>1, <1>5, <2>1, <2>2, <2>4 DEF PthOwned, PthTypeOK, PthObjects, PthNone
  <2>6. PthListed'
    <3>1. pthReceives[o] = {}
      BY <1>1, <1>5 DEF PthListed
    <3> QED
      BY <1>1, <1>5, <2>1, <2>2, <2>4, <3>1 DEF PthListed
  <2>7. PthShut'
    <3>1. pthClosed \subseteq 1..pthMade /\ 1..pthMade \subseteq 1..pthMade'
      BY <1>1, <1>5, PthAssumption DEF PthShut, PthTypeOK, PthObjects
    <3>2. \A m \in PthKnown : m \in PthNames \ {n}
      BY <1>1, <1>5 DEF PthTypeOK
    <3> QED
      BY <1>1, <1>5, <2>1, <2>2, <2>4, <3>1, <3>2 DEF PthShut
  <2> QED
    BY <2>1, <2>3, <2>5, <2>6, <2>7
<1>6. ASSUME NEW s \in PthSessions, NEW n \in PthNames, NEW method, PthLookup(s, n, method)
      PROVE  PthInv'
  <2>1. /\ pthSession' = [pthSession EXCEPT ![s] = [in |-> method, path |-> n]]
        /\ method \in {"announce", "describe"} /\ pthSession[s].in = "idle" /\ pthMaking = PthNoSession
        /\ pthRegistry' = pthRegistry /\ pthMade' = pthMade /\ pthReceives' = pthReceives
        /\ pthCodec' = pthCodec /\ pthClosed' = pthClosed
    BY <1>6 DEF PthLookup, PthTo
  <2>2. /\ pthSession'[s] = [in |-> method, path |-> n]
        /\ \A q \in PthSessions \ {s} : pthSession'[q] = pthSession[q]
        /\ pthSession' \in [PthSessions -> [in : {"idle", "gone", "announce", "announced", "recording",
                                                   "describe", "ready", "playing"},
                                             path : PthNames \cup {PthNone}]]
    BY <1>1, <2>1 DEF PthTypeOK
  <2>3. \A q \in PthSessions : pthMaking # q
    BY <2>1, PthAssumption DEF PthNoSession
  <2>4. CASE n \in PthKnown
    <3>1. pthPaths' = pthPaths /\ pthMaking' = pthMaking /\ PthKnown' = PthKnown
      BY <1>6, <2>4 DEF PthLookup, PthPathFor, PthKnown
    <3>2. PthTypeOK' /\ PthOwned' /\ PthListed' /\ PthShut'
      BY <1>1, <2>1, <2>2, <3>1 DEF PthTypeOK, PthOwned, PthListed, PthShut
    <3>3. \A q \in PthSessions : PthUses(q)'
      BY <1>1, <2>1, <2>2, <2>3, <2>4, <3>1 DEF PthUses
    <3> QED
      BY <3>2, <3>3 DEF PthInv
  <2>5. CASE n \notin PthKnown /\ pthRegistry[n] # PthNone
    <3>1. /\ pthPaths' = [m \in PthKnown \cup {n} |->
                             IF m = n THEN PthNewPath(pthRegistry[n]) ELSE pthPaths[m]]
          /\ pthMaking' = pthMaking
      BY <1>6, <2>5 DEF PthLookup, PthPathFor
    <3>2. pthRegistry[n] \in PthObjects /\ pthRegistry[n] <= pthMade /\ pthMade \in PthObjects
      BY <1>1, <2>5, PthAssumption DEF PthTypeOK, PthOwned, PthObjects, PthNone
    <3>3. \A m \in PthKnown : pthPaths[m].obj # pthRegistry[n]
      BY <1>1, <2>5 DEF PthOwned
    <3>4. \A m \in PthNames \ {n} : pthRegistry'[m] = pthRegistry[m] /\ pthRegistry[m] # pthRegistry[n]
      BY <1>1, <2>1, <2>5 DEF PthOwned
    <3>5. /\ pthRegistry' \in [PthNames -> PthObjects \cup {PthNone}] /\ pthMade <= pthMade'
          /\ pthRegistry[n] \notin pthClosed
      BY <1>1, <2>1, PthAssumption DEF PthTypeOK, PthShut
    <3>6. /\ pthPaths' \in [PthKnown' -> PthPathRecord] /\ PthKnown' = PthKnown \cup {n}
          /\ PthOwned' /\ PthListed' /\ PthShut' /\ \A m \in PthKnown : pthPaths'[m] = pthPaths[m]
      BY <1>5, <2>1, <2>5, <3>1, <3>2, <3>3, <3>4, <3>5
    <3>7. PthTypeOK'
      BY <1>1, <2>1, <2>2, <3>1, <3>6 DEF PthTypeOK
    <3>8. \A q \in PthSessions : PthUses(q)'
      BY <1>1, <2>1, <2>2, <2>3, <3>1, <3>6 DEF PthUses
    <3> QED
      BY <3>6, <3>7, <3>8 DEF PthInv
  <2>6. CASE n \notin PthKnown /\ pthRegistry[n] = PthNone
    <3>1. pthPaths' = pthPaths /\ pthMaking' = s /\ PthKnown' = PthKnown
      BY <1>6, <2>6 DEF PthLookup, PthKnown
    <3>2. PthTypeOK' /\ PthOwned' /\ PthListed' /\ PthShut'
      BY <1>1, <2>1, <2>2, <3>1 DEF PthTypeOK, PthOwned, PthListed, PthShut
    <3>3. \A q \in PthSessions : PthUses(q)'
      BY <1>1, <2>1, <2>2, <2>3, <2>6, <3>1 DEF PthUses
    <3> QED
      BY <3>2, <3>3 DEF PthInv
  <2> QED
    BY <2>4, <2>5, <2>6
<1>7. ASSUME NEW s \in PthSessions, NEW n \in PthNames, PthMake(s, n) PROVE PthInv'
  <2>1. /\ pthMaking = s /\ pthSession[s].path = n /\ n \notin PthKnown
        /\ pthSession[s].in \in {"announce", "describe"}
        /\ pthMaking' = PthNoSession /\ pthCodec' = pthCodec /\ pthReceives' = pthReceives
        /\ pthClosed' = pthClosed
        /\ \A q \in PthSessions : pthMaking' # q
    BY <1>1, <1>7, PthAssumption DEF PthMake, PthUses, PthNoSession
  <2>2. CASE pthRegistry[n] = PthNone
    <3>1. /\ pthMade' = pthMade + 1 /\ pthMade' \in PthObjects /\ pthMade <= pthMade'
          /\ pthPaths' = [m \in PthKnown \cup {n} |-> IF m = n THEN PthNewPath(pthMade') ELSE pthPaths[m]]
          /\ pthRegistry' = [pthRegistry EXCEPT ![n] = pthMade'] /\ pthSession' = pthSession
      BY <1>1, <1>7, <2>2, PthAssumption DEF PthMake, PthTypeOK, PthObjects
    <3>2. \A m \in PthKnown : pthPaths[m].obj # pthMade'
      BY <1>1, <3>1, PthAssumption DEF PthOwned, PthTypeOK
    <3>3. /\ \A m \in PthNames \ {n} : pthRegistry'[m] = pthRegistry[m] /\ pthRegistry[m] # pthMade'
          /\ pthRegistry' \in [PthNames -> PthObjects \cup {PthNone}] /\ pthRegistry'[n] = pthMade'
      BY <1>1, <3>1, PthAssumption DEF PthOwned, PthTypeOK, PthNone
    <3>4. pthMade' <= pthMade' /\ pthMade' \notin pthClosed
      BY <1>1, <3>1, PthAssumption DEF PthShut, PthTypeOK
    <3>5. /\ pthPaths' \in [PthKnown' -> PthPathRecord] /\ PthKnown' = PthKnown \cup {n}
          /\ PthOwned' /\ PthListed' /\ PthShut' /\ \A m \in PthKnown : pthPaths'[m] = pthPaths[m]
      BY <1>5, <2>1, <3>1, <3>2, <3>3, <3>4
    <3>6. PthTypeOK'
      BY <1>1, <2>1, <3>1, <3>3, <3>5, PthAssumption DEF PthTypeOK, PthObjects
    <3>7. \A q \in PthSessions : PthUses(q)'
      BY <1>1, <2>1, <3>1, <3>5 DEF PthUses
    <3> QED
      BY <3>5, <3>6, <3>7 DEF PthInv
  <2>3. CASE pthRegistry[n] # PthNone
    <3>1. /\ pthRegistry' = pthRegistry /\ pthMade' = pthMade /\ pthPaths' = pthPaths
          /\ PthKnown' = PthKnown
          /\ pthSession' = [pthSession EXCEPT ![s] = [in |-> "idle", path |-> PthNone]]
      BY <1>7, <2>3 DEF PthMake, PthTo, PthKnown
    <3>2. PthTypeOK' /\ PthOwned' /\ PthListed' /\ PthShut'
      BY <1>1, <2>1, <3>1 DEF PthTypeOK, PthOwned, PthListed, PthShut
    <3>3. \A q \in PthSessions : PthUses(q)'
      BY <1>1, <2>1, <3>1 DEF PthUses, PthTypeOK
    <3> QED
      BY <3>2, <3>3 DEF PthInv
  <2> QED
    BY <2>2, <2>3
<1>8. ASSUME NEW s \in PthSessions, NEW n \in PthNames, NEW codec \in PthCodecs, PthAnnounce(s, n, codec)
      PROVE  PthInv'
  <2>1. n \in PthKnown /\ pthSession[s] = [in |-> "announce", path |-> n] /\ pthMaking # s
    BY <1>1, <1>8 DEF PthAnnounce, PthIn, PthUses
  <2>2. CASE PthSlotFree(n) /\ codec # "none"
    <3>1. /\ pthPaths' = [pthPaths EXCEPT ![n].publisher = s, ![n].active = FALSE]
          /\ pthSession' = [pthSession EXCEPT ![s] = [in |-> "announced", path |-> n]]
          /\ pthCodec' = [pthCodec EXCEPT ![pthPaths[n].obj] = codec]
          /\ pthPaths[n].publisher = PthNoSession
      BY <1>8, <2>2 DEF PthAnnounce, PthTo, PthSlotFree
    <3>2. /\ PthKnown' = PthKnown /\ pthPaths' \in [PthKnown' -> PthPathRecord]
          /\ pthPaths'[n].publisher = s
          /\ \A m \in PthKnown : /\ pthPaths'[m].obj = pthPaths[m].obj
                                 /\ pthPaths'[m].subscribers = pthPaths[m].subscribers
                                 /\ m # n => pthPaths'[m] = pthPaths[m]
      BY <1>1, <2>1, <3>1 DEF PthKnown, PthTypeOK, PthPathRecord
    <3>3. PthTypeOK'
      BY <1>1, <1>8, <3>1, <3>2 DEF PthAnnounce, PthTypeOK
    <3>4. PthUses(s)'
      BY <1>1, <1>8, <2>1, <3>1, <3>2 DEF PthAnnounce, PthUses, PthTypeOK
    <3>5. PthListed'
      BY <1>1, <1>8, <3>2 DEF PthAnnounce, PthListed
    <3>6. \A q \in PthSessions \ {s} :
            /\ pthSession'[q] = pthSession[q]
            /\ \A m \in PthKnown : pthPaths[m].publisher = q => pthPaths'[m].publisher = q
      BY <1>1, <3>1, <3>2, PthAssumption DEF PthTypeOK, PthNoSession
    <3> QED
      BY <1>8, <3>2, <3>3, <3>4, <3>5, <3>6, PthOthersStay DEF PthAnnounce
  <2>3. CASE ~(PthSlotFree(n) /\ codec # "none")
    <3>1. /\ pthPaths' = pthPaths /\ pthCodec' = pthCodec /\ PthKnown' = PthKnown
          /\ pthSession' = [pthSession EXCEPT ![s] = [in |-> "idle", path |-> PthNone]]
      BY <1>8, <2>3 DEF PthAnnounce, PthTo, PthKnown
    <3>2. PthTypeOK' /\ PthOwned' /\ PthListed' /\ PthShut'
      BY <1>1, <1>8, <3>1 DEF PthAnnounce, PthTypeOK, PthOwned, PthListed, PthShut
    <3>3. \A q \in PthSessions : PthUses(q)'
      BY <1>1, <1>8, <2>1, <3>1 DEF PthAnnounce, PthUses, PthTypeOK
    <3> QED
      BY <3>2, <3>3 DEF PthInv
  <2> QED
    BY <2>2, <2>3
<1>9. ASSUME NEW s \in PthSessions, NEW n \in PthNames, PthRecord(s, n) PROVE PthInv'
  <2>1. /\ pthPaths' = [pthPaths EXCEPT ![n].active = TRUE] /\ pthMaking = PthNoSession
        /\ pthSession' = [pthSession EXCEPT ![s] = [in |-> "recording", path |-> n]]
        /\ pthSession[s] = [in |-> "announced", path |-> n] /\ n \in PthKnown
        /\ pthPaths[n].publisher = s
    BY <1>1, <1>9 DEF PthRecord, PthTo, PthIn, PthUses
  <2>2. /\ PthKnown' = PthKnown /\ pthPaths' \in [PthKnown' -> PthPathRecord]
        /\ \A m \in PthKnown : /\ pthPaths'[m].obj = pthPaths[m].obj
                               /\ pthPaths'[m].subscribers = pthPaths[m].subscribers
                               /\ pthPaths'[m].publisher = pthPaths[m].publisher
    <3> DEFINE new == [pthPaths[n] EXCEPT !.active = TRUE]
    <3>1. new \in PthPathRecord
      <4>1. PICK active \in BOOLEAN : new = [pthPaths[n] EXCEPT !.active = active]
        OBVIOUS
      <4>2. pthPaths[n] \in PthPathRecord
        BY <1>1, <2>1 DEF PthTypeOK
      <4> HIDE DEF new
      <4> QED
        BY <4>1, <4>2, SMTT(30) DEF PthPathRecord
    <3>2. pthPaths' = [pthPaths EXCEPT ![n] = new]
      BY <2>1
    <3>3. PthKnown' = PthKnown /\ pthPaths' \in [PthKnown' -> PthPathRecord]
      BY <1>1, <2>1, <3>1, <3>2 DEF PthKnown, PthTypeOK
    <3> QED
      BY <1>1, <2>1, <3>2, <3>3 DEF PthTypeOK, PthPathRecord
  <2>3. PthTypeOK' /\ PthListed'
    BY <1>1, <1>9, <2>1, <2>2 DEF PthRecord, PthTypeOK, PthListed
  <2>4. PthUses(s)'
    BY <1>9, <2>1, <2>2, <1>1, PthAssumption DEF PthRecord, PthUses, PthTypeOK, PthNoSession
  <2>5. \A q \in PthSessions \ {s} : pthSession'[q] = pthSession[q]
    BY <1>1, <2>1 DEF PthTypeOK
  <2> QED
    BY <1>9, <2>2, <2>3, <2>4, <2>5, PthOthersStay DEF PthRecord
<1>10. ASSUME NEW s \in PthSessions, NEW n \in PthNames, PthDescribe(s, n) PROVE PthInv'
  <2>1. /\ pthPaths' = [pthPaths EXCEPT ![n].sdp = @ \/ pthCodec[pthPaths[n].obj] # "none"]
        /\ pthSession' = [pthSession EXCEPT ![s] = [in |-> "idle", path |-> PthNone]]
        /\ pthSession[s] = [in |-> "describe", path |-> n] /\ n \in PthKnown
    BY <1>1, <1>10 DEF PthDescribe, PthTo, PthIn, PthUses
  <2>2. PICK sdp \in BOOLEAN : pthPaths' = [pthPaths EXCEPT ![n].sdp = sdp]
    BY <2>1
  <2>3. /\ PthKnown' = PthKnown /\ pthPaths' \in [PthKnown' -> PthPathRecord]
        /\ \A m \in PthKnown : /\ pthPaths'[m].obj = pthPaths[m].obj
                               /\ pthPaths'[m].subscribers = pthPaths[m].subscribers
                               /\ pthPaths'[m].publisher = pthPaths[m].publisher
    <3>1. [pthPaths[n] EXCEPT !.sdp = sdp] \in PthPathRecord
      <4>1. pthPaths[n] \in PthPathRecord
        BY <1>1, <2>1 DEF PthTypeOK
      <4> QED
        BY <4>1, SMTT(30) DEF PthPathRecord
    <3>2. pthPaths' = [pthPaths EXCEPT ![n] = [pthPaths[n] EXCEPT !.sdp = sdp]]
      BY <2>2
    <3>3. PthKnown' = PthKnown /\ pthPaths' \in [PthKnown' -> PthPathRecord]
      BY <1>1, <2>1, <3>1, <3>2 DEF PthKnown, PthTypeOK
    <3>4. \A m \in PthKnown : m # n => pthPaths'[m] = pthPaths[m]
      BY <1>1, <3>2 DEF PthTypeOK
    <3>5. pthPaths'[n] = [pthPaths[n] EXCEPT !.sdp = sdp]
      BY <1>1, <2>1, <3>2 DEF PthTypeOK
    <3>6. pthPaths[n] \in PthPathRecord
      BY <1>1, <2>1 DEF PthTypeOK
    <3>7. /\ pthPaths'[n].obj = pthPaths[n].obj
          /\ pthPaths'[n].subscribers = pthPaths[n].subscribers
          /\ pthPaths'[n].publisher = pthPaths[n].publisher
      BY <3>5, <3>6 DEF PthPathRecord
    <3> QED
      BY <3>3, <3>4, <3>7
  <2>4. PthTypeOK' /\ PthListed'
    BY <1>1, <1>10, <2>1, <2>3 DEF PthDescribe, PthTypeOK, PthListed
  <2>5. PthUses(s)'
    BY <1>1, <1>10, <2>1 DEF PthDescribe, PthUses, PthTypeOK
  <2>6. \A q \in PthSessions \ {s} : pthSession'[q] = pthSession[q]
    BY <1>1, <2>1 DEF PthTypeOK
  <2> QED
    BY <1>10, <2>3, <2>4, <2>5, <2>6, PthOthersStay DEF PthDescribe
<1>11. ASSUME NEW s \in PthSessions, NEW n \in PthNames, PthSetup(s, n) PROVE PthInv'
  <2>1. /\ pthSession' = [pthSession EXCEPT ![s] = [in |-> "ready", path |-> n]] /\ n \in PthKnown
        /\ PthKnown' = PthKnown /\ pthMaking = PthNoSession
    BY <1>11 DEF PthSetup, PthTo, PthKnown
  <2>2. PthTypeOK' /\ PthListed'
    BY <1>1, <1>11, <2>1 DEF PthSetup, PthTypeOK, PthListed
  <2>3. PthUses(s)'
    BY <1>1, <1>11, <2>1, PthAssumption DEF PthSetup, PthUses, PthTypeOK, PthNoSession
  <2>4. \A q \in PthSessions \ {s} : pthSession'[q] = pthSession[q]
    BY <1>1, <2>1 DEF PthTypeOK
  <2> QED
    BY <1>11, <2>1, <2>2, <2>3, <2>4, PthOthersStay DEF PthSetup
<1>12. ASSUME NEW s \in PthSessions, NEW n \in PthNames, PthPlay(s, n) PROVE PthInv'
  <2>1. /\ pthPaths' = [pthPaths EXCEPT ![n].subscribers = @ \cup {s}] /\ pthMaking = PthNoSession
        /\ pthReceives' = [pthReceives EXCEPT ![pthPaths[n].obj] = @ \cup {s}]
        /\ pthSession' = [pthSession EXCEPT ![s] = [in |-> "playing", path |-> n]]
        /\ n \in PthKnown /\ pthPaths[n].obj \in PthObjects
    BY <1>1, <1>12 DEF PthPlay, PthTo, PthIn, PthUses, PthObjectOf, PthTypeOK, PthPathRecord
  <2>2. /\ PthKnown' = PthKnown /\ pthPaths' \in [PthKnown' -> PthPathRecord]
        /\ pthPaths'[n].subscribers = pthPaths[n].subscribers \cup {s}
        /\ \A m \in PthKnown : /\ pthPaths'[m].obj = pthPaths[m].obj
                               /\ m # n => pthPaths'[m] = pthPaths[m]
                               /\ pthPaths'[m].publisher = pthPaths[m].publisher
    BY <1>1, <2>1 DEF PthKnown, PthTypeOK, PthPathRecord
  <2>3. /\ pthReceives' \in [PthObjects -> SUBSET PthSessions]
        /\ \A o \in PthObjects : pthReceives'[o] = pthReceives[o] \cup (IF o = pthPaths[n].obj THEN {s} ELSE {})
    BY <1>1, <2>1 DEF PthTypeOK
  <2>4. PthTypeOK'
    BY <1>1, <1>12, <2>1, <2>2, <2>3 DEF PthPlay, PthTypeOK
  <2>5. PthListed'
    <3>1. ASSUME NEW m \in PthKnown PROVE pthPaths'[m].subscribers = pthReceives'[pthPaths'[m].obj]
      <4>1. pthPaths[m].obj \in PthObjects /\ pthPaths'[m].obj = pthPaths[m].obj
        BY <1>1, <2>2 DEF PthTypeOK, PthPathRecord
      <4>2. m # n => pthPaths[m].obj # pthPaths[n].obj
        BY <1>1, <2>1 DEF PthOwned
      <4>3. pthPaths'[m].subscribers = pthPaths[m].subscribers \cup (IF m = n THEN {s} ELSE {})
        BY <2>2
      <4>4. pthPaths[m].subscribers = pthReceives[pthPaths[m].obj]
        BY <1>1 DEF PthListed
      <4>5. pthReceives'[pthPaths[m].obj] = pthReceives[pthPaths[m].obj] \cup (IF m = n THEN {s} ELSE {})
        BY <2>3, <4>1, <4>2
      <4> QED
        BY <4>1, <4>3, <4>4, <4>5
    <3>2. ASSUME NEW o \in PthObjects, pthReceives'[o] # {} PROVE \E m \in PthKnown : pthPaths'[m].obj = o
      <4>1. pthReceives[o] # {} \/ o = pthPaths[n].obj
        BY <2>3, <3>2
      <4> QED
        BY <1>1, <2>1, <2>2, <4>1 DEF PthListed
    <3> QED
      BY <2>2, <3>1, <3>2 DEF PthListed
  <2>6. PthUses(s)'
    BY <1>1, <1>12, <2>1, <2>2, PthAssumption DEF PthPlay, PthUses, PthTypeOK, PthNoSession
  <2>7. \A q \in PthSessions \ {s} : pthSession'[q] = pthSession[q]
    BY <1>1, <2>1 DEF PthTypeOK
  <2>8. ASSUME NEW q, NEW m \in PthKnown, q \in pthPaths[m].subscribers
        PROVE  q \in pthPaths'[m].subscribers
    BY <2>2, <2>8
  <2> QED
    BY <1>12, <2>2, <2>4, <2>5, <2>6, <2>7, <2>8, PthOthersStay DEF PthPlay
<1>13. ASSUME NEW s \in PthSessions, PthLeave(s) PROVE PthInv'
  <2>1. /\ pthSession' = [pthSession EXCEPT ![s].in = "gone"] /\ PthKnown' = PthKnown
        /\ pthSession[s].in \notin {"announce", "describe"}
    BY <1>13 DEF PthLeave, PthKnown
  <2>2. PthTypeOK' /\ PthListed'
    BY <1>1, <1>13, <2>1 DEF PthLeave, PthTypeOK, PthListed
  <2>3. PthUses(s)'
    BY <1>1, <1>13, <2>1 DEF PthLeave, PthUses, PthTypeOK
  <2>4. \A q \in PthSessions \ {s} : pthSession'[q] = pthSession[q]
    BY <1>1, <2>1 DEF PthTypeOK
  <2> QED
    BY <1>13, <2>1, <2>2, <2>3, <2>4, PthOthersStay DEF PthLeave
<1>14. CASE UNCHANGED PthVars
  BY <1>1, <1>14 DEF PthVars, PthInv, PthTypeOK, PthOwned, PthUses, PthListed, PthShut, PthKnown
<1> QED
  BY <1>2, <1>3, <1>4, <1>6, <1>7, <1>8, <1>9, <1>10, <1>11, <1>12, <1>13, <1>14
  DEF PthNext, PthRequest

\* Whoever announces or records a path is its one publisher, no two paths share a stream object, and
\* what the publisher writes reaches exactly those who play the path, until REST removes the stream the
\* path holds, and nobody from then on (path_manager.go, publisher.go, subscriber.go, RemoveStream).
THEOREM PthPacketsArriveHolds == PthSpec => []PthPacketsArrive
<1>1. PthInv => PthPacketsArrive
  <2> SUFFICES ASSUME PthInv PROVE PthOnePublisher /\ PthPlayersReceive
    BY DEF PthPacketsArrive
  <2>1. PthOnePublisher
    BY DEF PthInv, PthOnePublisher, PthUses, PthOwned
  <2>2. ASSUME NEW n \in PthKnown
        PROVE  PthReaches(pthPaths[n].obj) =
                 IF pthPaths[n].obj = pthRegistry[n] THEN pthPaths[n].subscribers ELSE {}
    <3>1. n \in PthNames /\ pthPaths[n].subscribers = pthReceives[pthPaths[n].obj]
      BY <2>2 DEF PthInv, PthTypeOK, PthListed
    <3>2. pthPaths[n].obj = pthRegistry[n] <=> pthPaths[n].obj \notin pthClosed
      BY <2>2, <3>1 DEF PthInv, PthShut
    <3> QED
      BY <3>1, <3>2 DEF PthReaches
  <2>3. PthPlayersReceive
    BY <2>2 DEF PthInv, PthPlayersReceive, PthUses
  <2> QED
    BY <2>1, <2>3
<1> QED
  BY <1>1, PthInvInit, PthInvNext, PTL DEF PthSpec

----------------------------------------------------------------------------
(* ProcessManager.                                                         *)

PrcUsed == 1..prcMade

PrcKnown(p) == prcEntry[prcOf[p].id] = p \/ p \in prcKilled \/ PrcTaken(p)

PrcInv ==
    /\ PrcTypeOK
    /\ \A p \in PrcUsed : prcOf[p].id \in PrcIds
    /\ \A p \in Prc \ PrcUsed : prcWatch[p] = "none" /\ prcTakenBy[p] = PrcNone
    /\ prcAlive \subseteq PrcUsed /\ prcKilled \subseteq PrcUsed
    /\ \A p \in prcAlive : prcWatch[p] = "waiting"
    /\ \A i \in PrcIds : prcEntry[i] # PrcNone =>
         /\ prcEntry[i] \in PrcUsed /\ prcOf[prcEntry[i]].id = i
         /\ \A q \in PrcUsed : prcOf[q].id = i => q <= prcEntry[i]
    /\ prcStopping # PrcNoId => prcEntry[prcStopping] \in prcKilled
    /\ \A p \in PrcUsed : prcWatch[p] # "done" => PrcKnown(p)
    /\ \A p \in PrcUsed : prcTakenBy[p] # PrcNone => prcEntry[prcOf[p].id] # p
    /\ \A p \in Prc : PrcTaken(p) => prcTakenBy[p] \in prcKilled \/ PrcTaken(prcTakenBy[p])

LEMMA PrcInvInit == PrcInit => PrcInv
<1> SUFFICES ASSUME PrcInit PROVE PrcInv
  OBVIOUS
<1>1. PrcUsed = {}
  BY DEF PrcInit, PrcUsed
<1>2. PrcTypeOK
  BY PrcAssumption DEF PrcInit, PrcTypeOK, PrcNone
<1>3. \A p \in Prc : ~PrcTaken(p)
  BY DEF PrcInit, PrcTaken, PrcNone, Prc
<1> QED
  BY <1>1, <1>2, <1>3 DEF PrcInit, PrcInv

LEMMA PrcInvNext == PrcInv /\ [PrcNext]_PrcVars => PrcInv'
<1> SUFFICES ASSUME PrcInv, [PrcNext]_PrcVars PROVE PrcInv'
  OBVIOUS
<1>1. /\ PrcTypeOK /\ PrcUsed \subseteq Prc /\ Prc \subseteq Nat /\ prcMade \in Nat /\ PrcNone \notin Prc
      /\ PrcNoId \notin PrcIds
      /\ \A p \in PrcUsed : prcOf[p].id \in PrcIds
      /\ \A p \in Prc \ PrcUsed : prcWatch[p] = "none" /\ prcTakenBy[p] = PrcNone
      /\ prcAlive \subseteq PrcUsed /\ prcKilled \subseteq PrcUsed
      /\ \A p \in prcAlive : prcWatch[p] = "waiting"
      /\ \A i \in PrcIds : prcEntry[i] # PrcNone =>
           /\ prcEntry[i] \in PrcUsed /\ prcOf[prcEntry[i]].id = i
           /\ \A q \in PrcUsed : prcOf[q].id = i => q <= prcEntry[i]
      /\ prcStopping # PrcNoId => prcEntry[prcStopping] \in prcKilled
      /\ \A p \in PrcUsed : prcWatch[p] # "done" => PrcKnown(p)
      /\ \A p \in PrcUsed : prcTakenBy[p] # PrcNone => prcEntry[prcOf[p].id] # p
      /\ \A p \in Prc : PrcTaken(p) => prcTakenBy[p] \in prcKilled \/ PrcTaken(prcTakenBy[p])
  BY PrcAssumption DEF PrcInv, PrcTypeOK, Prc, PrcUsed, PrcNone, PrcNoId
\* The watcher of p may be done with its work; everybody else stays where it is.
<1>2. ASSUME NEW i \in PrcIds, NEW restart \in BOOLEAN, NEW watch,
             watch \in [Prc -> {"none", "waiting", "sleeping", "removing", "done"}],
             \A q \in Prc : watch[q] \in {prcWatch[q], "done"} /\ (q \notin PrcUsed => watch[q] = "none"),
             \A q \in prcAlive : watch[q] = "waiting",
             prcEntry[i] = PrcNone, prcStopping = PrcNoId, PrcLaunch(i, restart, watch),
             UNCHANGED <<prcKilled, prcFailed, prcStopping, prcToStop, prcTakenBy>>
      PROVE  PrcInv'
  <2> DEFINE new == prcMade + 1
  <2>1. /\ new \in Prc /\ new \notin PrcUsed /\ prcMade' = new /\ PrcUsed' = PrcUsed \cup {new}
        /\ \A q \in PrcUsed : q < new
    BY <1>1, <1>2, PrcAssumption DEF PrcLaunch, PrcUsed, Prc
  <2> HIDE DEF new
  <2>2. /\ prcEntry' = [prcEntry EXCEPT ![i] = new]
        /\ prcOf' = [prcOf EXCEPT ![new] = [id |-> i, restart |-> restart]]
        /\ prcTakenBy' = prcTakenBy /\ prcAlive' = prcAlive \cup {new}
        /\ prcWatch' = [watch EXCEPT ![new] = "waiting"]
        /\ prcKilled' = prcKilled /\ prcFailed' = prcFailed /\ prcStopping' = prcStopping
        /\ prcToStop' = prcToStop
    BY <1>2 DEF PrcLaunch, new
  <2>3. PrcTypeOK'
    <3>1. prcEntry' \in [PrcIds -> Prc \cup {PrcNone}] /\ prcMade' \in 0..PrcMax
      BY <1>1, <2>1, <2>2, PrcAssumption DEF PrcTypeOK, Prc
    <3>2. [id |-> i, restart |-> restart] \in [id : PrcIds \cup {PrcNoId}, restart : BOOLEAN]
      OBVIOUS
    <3>3. prcOf' \in [Prc -> [id : PrcIds \cup {PrcNoId}, restart : BOOLEAN]]
      BY <1>1, <2>1, <2>2, <3>2 DEF PrcTypeOK
    <3> QED
      BY <1>1, <1>2, <2>1, <2>2, <3>1, <3>3 DEF PrcTypeOK
  <2>4. /\ prcOf'[new].id = i /\ prcWatch'[new] = "waiting"
        /\ \A q \in Prc : q # new => prcOf'[q] = prcOf[q] /\ prcWatch'[q] = watch[q]
        /\ prcEntry'[i] = new /\ \A j \in PrcIds \ {i} : prcEntry'[j] = prcEntry[j]
    BY <1>1, <1>2, <2>1, <2>2 DEF PrcTypeOK
  <2>5. \A p \in Prc : PrcTaken(p)' <=> PrcTaken(p)
    <3> SUFFICES ASSUME NEW p \in Prc PROVE PrcTaken(p)' <=> PrcTaken(p)
      OBVIOUS
    <3>1. CASE p \in PrcUsed
      <4>1. \A q \in 1..(p - 1) : q \in PrcUsed /\ q \in Prc /\ q # new
        BY <1>1, <2>1, <3>1 DEF PrcUsed, Prc
      <4>2. prcOf'[p] = prcOf[p] /\ \A q \in 1..(p - 1) : prcOf'[q] = prcOf[q]
        BY <2>1, <2>4, <3>1, <4>1
      <4> QED
        BY <2>2, <4>2 DEF PrcTaken
    <3>2. CASE p \notin PrcUsed
      <4>1. prcTakenBy[p] = 0 /\ prcTakenBy'[p] = 0 /\ 0 \notin 1..(p - 1)
        BY <1>1, <2>2, <3>2 DEF PrcNone
      <4> QED
        BY <4>1 DEF PrcTaken
    <3> QED
      BY <3>1, <3>2
  <2>6. ASSUME NEW p \in PrcUsed', prcWatch'[p] # "done" PROVE PrcKnown(p)'
    <3>1. CASE p = new
      BY <2>4, <3>1 DEF PrcKnown
    <3>2. CASE p # new
      <4>1. p \in PrcUsed /\ prcWatch[p] # "done" /\ prcOf'[p].id = prcOf[p].id
        <5>1. p \in PrcUsed /\ p \in Prc
          BY <1>1, <2>1, <2>6, <3>2
        <5>2. prcOf'[p] = prcOf[p] /\ prcWatch'[p] = watch[p]
          BY <2>4, <3>2, <5>1
        <5>3. watch[p] \in {prcWatch[p], "done"}
          BY <1>2, <5>1
        <5> QED
          BY <2>6, <5>1, <5>2, <5>3
      <4>2. prcEntry[prcOf[p].id] = p => prcOf[p].id # i
        BY <1>1, <1>2, <4>1
      <4> QED
        BY <1>1, <2>2, <2>4, <2>5, <4>1, <4>2 DEF PrcKnown
    <3> QED
      BY <3>1, <3>2
  <2>7. ASSUME NEW p \in Prc, PrcTaken(p)' PROVE prcTakenBy'[p] \in prcKilled' \/ PrcTaken(prcTakenBy[p])'
    <3>1. PrcTaken(p) /\ prcTakenBy'[p] = prcTakenBy[p]
      BY <2>2, <2>5, <2>7
    <3>2. prcTakenBy[p] \in Prc
      <4>1. prcTakenBy[p] \in 1..(p - 1) /\ p \in 1..PrcMax
        BY <3>1 DEF PrcTaken, Prc
      <4> QED
        BY <4>1, PrcAssumption DEF Prc
    <3>3. prcTakenBy[p] \in prcKilled \/ PrcTaken(prcTakenBy[p])
      BY <1>1, <3>1
    <3> QED
      BY <2>2, <2>5, <3>1, <3>2, <3>3
  <2>8. ASSUME NEW j \in PrcIds, prcEntry'[j] # PrcNone
        PROVE  /\ prcEntry'[j] \in PrcUsed' /\ prcOf'[prcEntry'[j]].id = j
               /\ \A q \in PrcUsed' : prcOf'[q].id = j => q <= prcEntry'[j]
    <3>1. CASE j = i
      <4>1. prcEntry'[j] = new /\ prcOf'[new].id = j /\ new \in PrcUsed'
        BY <2>1, <2>4, <3>1
      <4>2. \A q \in PrcUsed' : q <= new
        BY <1>1, <2>1
      <4> QED
        BY <4>1, <4>2
    <3>2. CASE j # i
      <4>1. /\ prcEntry'[j] = prcEntry[j] /\ prcEntry[j] \in PrcUsed /\ prcOf[prcEntry[j]].id = j
            /\ \A q \in PrcUsed : prcOf[q].id = j => q <= prcEntry[j]
        BY <1>1, <2>4, <2>8, <3>2
      <4>2. \A q \in PrcUsed : prcOf'[q] = prcOf[q]
        BY <1>1, <2>1, <2>4
      <4> QED
        BY <2>1, <2>4, <3>2, <4>1, <4>2
    <3> QED
      BY <3>1, <3>2
  <2>9. prcStopping' = PrcNoId
    BY <1>2, <2>2
  <2>10. /\ \A p \in PrcUsed' : prcOf'[p].id \in PrcIds
         /\ \A p \in Prc \ PrcUsed' : prcWatch'[p] = "none" /\ prcTakenBy'[p] = PrcNone
         /\ prcAlive' \subseteq PrcUsed' /\ prcKilled' \subseteq PrcUsed'
         /\ \A p \in prcAlive' : prcWatch'[p] = "waiting"
    BY <1>1, <1>2, <2>1, <2>2, <2>4
  <2>11. \A p \in PrcUsed' : prcTakenBy'[p] # PrcNone => prcEntry'[prcOf'[p].id] # p
    <3> SUFFICES ASSUME NEW p \in PrcUsed', prcTakenBy'[p] # PrcNone PROVE prcEntry'[prcOf'[p].id] # p
      OBVIOUS
    <3>1. p # new /\ p \in PrcUsed /\ p \in Prc
      BY <1>1, <2>1, <2>2
    <3>2. prcOf'[p] = prcOf[p] /\ prcEntry[prcOf[p].id] # p /\ prcOf[p].id \in PrcIds
      BY <1>1, <2>2, <2>4, <3>1
    <3> QED
      BY <2>4, <3>1, <3>2
  <2> QED
    BY <2>2, <2>3, <2>6, <2>7, <2>8, <2>9, <2>10, <2>11 DEF PrcInv
\* A step that only takes ids from the map, each for a reason that Known tells of.
<1>3. ASSUME PrcTypeOK', UNCHANGED <<prcMade, prcOf>>, prcAlive' \subseteq prcAlive,
             prcKilled \subseteq prcKilled', prcKilled' \subseteq PrcUsed,
             \A q \in Prc \ PrcUsed : prcWatch'[q] = "none",
             \A q \in prcAlive' : prcWatch'[q] = prcWatch[q],
             \A q \in Prc : prcWatch[q] = "done" => prcWatch'[q] = "done",
             \A j \in PrcIds : prcEntry'[j] \in {prcEntry[j], PrcNone},
             prcStopping' # PrcNoId => prcEntry'[prcStopping'] \in prcKilled',
             \A q \in PrcUsed : prcEntry[prcOf[q].id] = q /\ prcEntry'[prcOf[q].id] # q
                                  /\ prcWatch'[q] # "done" => q \in prcKilled' \/ PrcTaken(q)',
             \A q \in Prc : prcTakenBy'[q] # prcTakenBy[q] =>
               /\ q \in PrcUsed /\ prcEntry[prcOf[q].id] = q /\ prcEntry'[prcOf[q].id] # q
               /\ PrcTaken(q)' => prcTakenBy'[q] \in prcKilled \/ PrcTaken(prcTakenBy'[q])
      PROVE  PrcInv'
  <2>1. PrcUsed' = PrcUsed
    BY <1>3 DEF PrcUsed
  <2>2. ASSUME NEW p \in Prc, PrcTaken(p) PROVE PrcTaken(p)' /\ prcTakenBy'[p] = prcTakenBy[p]
    <3>1. prcTakenBy[p] # PrcNone /\ prcTakenBy[p] # 0
      BY <2>2 DEF PrcTaken, PrcNone
    <3>2. prcTakenBy'[p] = prcTakenBy[p]
      BY <1>1, <1>3, <3>1
    <3> QED
      BY <1>3, <2>2, <3>2 DEF PrcTaken
  <2>3. ASSUME NEW p \in PrcUsed, prcWatch'[p] # "done" PROVE PrcKnown(p)'
    <3>1. p \in Prc /\ prcWatch[p] # "done"
      BY <1>1, <1>3, <2>3
    <3>2. PrcKnown(p)
      BY <1>1, <3>1
    <3> QED
      BY <1>1, <1>3, <2>2, <2>3, <3>1, <3>2 DEF PrcKnown
  <2>4. ASSUME NEW p \in Prc, PrcTaken(p)' PROVE prcTakenBy'[p] \in prcKilled' \/ PrcTaken(prcTakenBy[p])'
    <3>1. prcTakenBy'[p] \in Prc
      <4>1. prcTakenBy'[p] \in 1..(p - 1) /\ p \in 1..PrcMax
        BY <2>4 DEF PrcTaken, Prc
      <4> QED
        BY <4>1, PrcAssumption DEF Prc
    <3>2. CASE prcTakenBy'[p] # prcTakenBy[p]
      BY <1>3, <2>2, <2>4, <3>1, <3>2
    <3>3. CASE prcTakenBy'[p] = prcTakenBy[p]
      <4>1. PrcTaken(p)
        BY <1>3, <2>4, <3>3 DEF PrcTaken
      <4> QED
        BY <1>1, <1>3, <2>2, <3>1, <3>3, <4>1
    <3> QED
      BY <3>2, <3>3
  <2> QED
    BY <1>1, <1>3, <2>1, <2>3, <2>4 DEF PrcInv
<1>4. ASSUME NEW i \in PrcIds, NEW restart \in BOOLEAN, PrcStart(i, restart) PROVE PrcInv'
  <2>1. prcEntry[i] = PrcNone /\ prcStopping = PrcNoId /\ PrcLaunch(i, restart, prcWatch)
    BY <1>4 DEF PrcStart, PrcMayStart
  <2>2. /\ prcWatch \in [Prc -> {"none", "waiting", "sleeping", "removing", "done"}]
        /\ \A q \in Prc : prcWatch[q] \in {prcWatch[q], "done"} /\ (q \notin PrcUsed => prcWatch[q] = "none")
        /\ \A q \in prcAlive : prcWatch[q] = "waiting"
    BY <1>1 DEF PrcTypeOK
  <2>3. UNCHANGED <<prcKilled, prcFailed, prcStopping, prcToStop, prcTakenBy>>
    BY <1>4 DEF PrcStart
  <2> QED
    BY <1>2, <2>1, <2>2, <2>3
<1>5. ASSUME NEW p \in Prc, NEW failed \in BOOLEAN, PrcExit(p, failed) PROVE PrcInv'
  <2>1. PrcTypeOK'
    BY <1>1, <1>5 DEF PrcExit, PrcTypeOK
  <2> QED
    BY <1>1, <1>3, <1>5, <2>1 DEF PrcExit
<1>6. ASSUME NEW p \in Prc, PrcReaped(p) PROVE PrcInv'
  <2>1. PICK place \in {"sleeping", "removing"} : prcWatch' = [prcWatch EXCEPT ![p] = place]
    BY <1>6 DEF PrcReaped
  <2>2. PrcTypeOK' /\ prcWatch[p] = "waiting" /\ p \in PrcUsed /\ p \notin prcAlive
    BY <1>1, <1>6, <2>1 DEF PrcReaped, PrcTypeOK
  <2>3. \A q \in Prc : q # p => prcWatch'[q] = prcWatch[q]
    BY <1>1, <2>1 DEF PrcTypeOK
  <2> QED
    BY <1>1, <1>3, <1>6, <2>2, <2>3 DEF PrcReaped
<1>7. ASSUME NEW p \in Prc, PrcRestart(p) PROVE PrcInv'
  <2>1. /\ prcWatch[p] = "sleeping" /\ prcStopping = PrcNoId /\ p \in PrcUsed /\ p \notin prcAlive
        /\ prcOf[p].id \in PrcIds
    BY <1>1, <1>7 DEF PrcRestart
  <2>2. CASE PrcMayStart(prcOf[p].id) /\ PrcLaunch(prcOf[p].id, TRUE, [prcWatch EXCEPT ![p] = "done"])
    <3> DEFINE watch == [prcWatch EXCEPT ![p] = "done"]
    <3> DEFINE i == prcOf[p].id
    <3>1. i \in PrcIds /\ prcEntry[i] = PrcNone
      BY <2>1, <2>2 DEF PrcMayStart
    <3>2. /\ watch \in [Prc -> {"none", "waiting", "sleeping", "removing", "done"}]
          /\ \A q \in Prc : watch[q] \in {prcWatch[q], "done"} /\ (q \notin PrcUsed => watch[q] = "none")
          /\ \A q \in prcAlive : watch[q] = "waiting"
      BY <1>1, <2>1 DEF PrcTypeOK
    <3>3. UNCHANGED <<prcKilled, prcFailed, prcStopping, prcToStop, prcTakenBy>>
      BY <1>7 DEF PrcRestart
    <3>4. PICK restart \in BOOLEAN : PrcLaunch(i, restart, watch)
      BY <2>2
    <3> HIDE DEF watch, i
    <3> QED
      BY <1>2, <2>1, <3>1, <3>2, <3>3, <3>4
  <2>3. CASE prcWatch' = [prcWatch EXCEPT ![p] = "done"] /\ UNCHANGED <<prcMade, prcEntry, prcOf, prcAlive>>
    <3>1. UNCHANGED <<prcKilled, prcFailed, prcStopping, prcToStop, prcTakenBy>>
      BY <1>7 DEF PrcRestart
    <3>2. PrcTypeOK'
      BY <1>1, <2>3, <3>1 DEF PrcTypeOK
    <3>3. \A q \in Prc : prcWatch'[q] = IF q = p THEN "done" ELSE prcWatch[q]
      BY <1>1, <2>3 DEF PrcTypeOK
    <3> QED
      BY <1>1, <1>3, <2>1, <2>3, <3>1, <3>2, <3>3
  <2> QED
    BY <1>7, <2>2, <2>3 DEF PrcRestart
<1>8. ASSUME NEW p \in Prc, PrcRemove(p) PROVE PrcInv'
  <2> DEFINE i == prcOf[p].id
  <2>1. /\ prcWatch[p] = "removing" /\ prcStopping = PrcNoId /\ p \in PrcUsed /\ p \notin prcAlive
        /\ i \in PrcIds
    BY <1>1, <1>8 DEF PrcRemove
  <2>2. /\ prcEntry' = [prcEntry EXCEPT ![i] = PrcNone] /\ prcWatch' = [prcWatch EXCEPT ![p] = "done"]
        /\ prcTakenBy' = [q \in Prc |-> IF prcEntry[i] = q THEN p ELSE prcTakenBy[q]]
        /\ UNCHANGED <<prcMade, prcOf, prcAlive, prcKilled, prcFailed, prcStopping, prcToStop>>
    BY <1>8 DEF PrcRemove
  <2>3. PrcTypeOK'
    BY <1>1, <2>2 DEF PrcTypeOK
  <2>4. /\ \A q \in Prc : prcWatch'[q] = IF q = p THEN "done" ELSE prcWatch[q]
        /\ \A j \in PrcIds : prcEntry'[j] = IF j = i THEN PrcNone ELSE prcEntry[j]
        /\ \A q \in Prc : prcTakenBy'[q] = IF prcEntry[i] = q THEN p ELSE prcTakenBy[q]
    BY <1>1, <2>1, <2>2 DEF PrcTypeOK
  \* The entry that goes, unless it is that of p, is that of a later command of the same id.
  <2>5. ASSUME NEW q \in Prc, prcEntry[i] = q, q # p
        PROVE  /\ q \in PrcUsed /\ prcOf[q].id = i /\ PrcTaken(q)' /\ prcTakenBy'[q] = p
               /\ p \in prcKilled \/ PrcTaken(p)
    <3>1. q \in PrcUsed /\ prcOf[q].id = i /\ p <= q
      BY <1>1, <2>1, <2>5
    <3>2. p \in 1..(q - 1) /\ prcTakenBy'[q] = p
      BY <1>1, <2>4, <2>5, <3>1 DEF Prc
    <3>3. PrcKnown(p) /\ prcEntry[i] # p
      BY <1>1, <2>1, <2>5
    <3> QED
      BY <2>2, <3>1, <3>2, <3>3 DEF PrcTaken, PrcKnown
  <2>6. ASSUME NEW q \in PrcUsed, prcEntry[prcOf[q].id] = q, prcEntry'[prcOf[q].id] # q, prcWatch'[q] # "done"
        PROVE  PrcTaken(q)'
    <3>1. prcOf[q].id = i /\ q # p /\ q \in Prc
      BY <1>1, <2>4, <2>6
    <3> QED
      BY <2>5, <2>6, <3>1
  <2>7. ASSUME NEW q \in Prc, prcTakenBy'[q] # prcTakenBy[q]
        PROVE  /\ q \in PrcUsed /\ prcEntry[prcOf[q].id] = q /\ prcEntry'[prcOf[q].id] # q
               /\ PrcTaken(q)' => prcTakenBy'[q] \in prcKilled \/ PrcTaken(prcTakenBy'[q])
    <3>1. prcEntry[i] = q /\ prcTakenBy'[q] = p
      BY <2>4, <2>7
    <3>2. q \in PrcUsed /\ prcOf[q].id = i /\ prcEntry'[i] # q
      BY <1>1, <2>1, <2>4, <3>1
    <3>3. q = p => ~PrcTaken(q)'
      <4>1. p \notin 1..(p - 1)
        BY <1>1 DEF Prc
      <4> QED
        BY <3>1, <4>1 DEF PrcTaken
    <3> QED
      BY <2>5, <3>1, <3>2, <3>3
  <2> HIDE DEF i
  <2> QED
    BY <1>1, <1>3, <2>1, <2>2, <2>3, <2>4, <2>6, <2>7
\* Stop, by whomever.
<1>9. ASSUME NEW i \in PrcIds, PrcCancel(i), prcToStop' \subseteq PrcIds PROVE PrcInv'
  <2>1. prcEntry[i] \in PrcUsed /\ prcStopping' = i /\ prcKilled' = prcKilled \cup {prcEntry[i]}
    BY <1>1, <1>9 DEF PrcCancel
  <2>2. PrcTypeOK'
    BY <1>1, <1>9, <2>1 DEF PrcCancel, PrcTypeOK
  <2> QED
    BY <1>1, <1>3, <1>9, <2>1, <2>2 DEF PrcCancel
<1>10. ASSUME NEW i \in PrcIds, PrcStop(i) \/ PrcStopInactive(i) PROVE PrcInv'
  <2>1. prcToStop' \subseteq PrcIds
    BY <1>1, <1>10 DEF PrcStop, PrcStopInactive, PrcTypeOK
  <2>2. CASE PrcCancel(i)
    BY <1>9, <2>1, <2>2
  <2>3. CASE ~PrcCancel(i)
    <3>1. UNCHANGED <<prcEntry, prcMade, prcOf, prcAlive, prcKilled, prcFailed, prcWatch, prcStopping, prcTakenBy>>
      BY <1>10, <2>3 DEF PrcStop, PrcStopInactive
    <3>2. PrcTypeOK'
      BY <1>1, <2>1, <3>1 DEF PrcTypeOK
    <3> QED
      BY <1>1, <1>3, <3>1, <3>2
  <2> QED
    BY <2>2, <2>3
<1>11. ASSUME NEW ids \in SUBSET PrcIds, PrcListInactive(ids) PROVE PrcInv'
  <2>1. PrcTypeOK'
    BY <1>1, <1>11 DEF PrcListInactive, PrcTypeOK
  <2> QED
    BY <1>1, <1>3, <1>11, <2>1 DEF PrcListInactive
<1>12. ASSUME NEW i \in PrcIds, PrcForget(i) PROVE PrcInv'
  <2>1. /\ prcStopping = i /\ prcStopping # PrcNoId /\ prcEntry[i] \in prcKilled /\ prcStopping' = PrcNoId
        /\ prcEntry' = [prcEntry EXCEPT ![i] = PrcNone]
    BY <1>1, <1>12 DEF PrcForget, PrcStopped
  <2>2. PrcTypeOK'
    BY <1>1, <1>12, <2>1 DEF PrcForget, PrcTypeOK
  <2>3. \A j \in PrcIds : prcEntry'[j] = IF j = i THEN PrcNone ELSE prcEntry[j]
    BY <1>1, <2>1 DEF PrcTypeOK
  <2>4. \A q \in PrcUsed : prcEntry[prcOf[q].id] = q /\ prcEntry'[prcOf[q].id] # q => q \in prcKilled
    BY <1>1, <2>1, <2>3
  <2> QED
    BY <1>1, <1>3, <1>12, <2>1, <2>2, <2>3, <2>4 DEF PrcForget
<1>13. CASE UNCHANGED PrcVars
  <2>1. PrcTypeOK'
    BY <1>1, <1>13 DEF PrcVars, PrcTypeOK
  <2> QED
    BY <1>1, <1>3, <1>13, <2>1 DEF PrcVars
<1> QED
  BY <1>4, <1>5, <1>6, <1>7, <1>8, <1>10, <1>11, <1>12, <1>13 DEF PrcNext, PrcProcess, PrcManager

\* A running command that nobody tried to stop is under its id in Manager.processes, unless the watcher
\* of an earlier one took the entry away; the first watcher that does so is that of a command Stop was
\* called for (manager.go: Start, Stop, monitorProcess).
THEOREM PrcCommandsAreKnownHolds == PrcSpec => []PrcCommandsAreKnown
<1>1. ASSUME PrcInv PROVE PrcCommandsAreKnown
  <2>1. ASSUME NEW p \in prcAlive \ prcKilled PROVE prcEntry[prcOf[p].id] = p \/ PrcTaken(p)
    <3>1. p \in PrcUsed /\ prcWatch[p] = "waiting"
      BY <1>1, <2>1 DEF PrcInv
    <3> QED
      BY <1>1, <2>1, <3>1 DEF PrcInv, PrcKnown
  <2> QED
    BY <1>1, <2>1 DEF PrcInv, PrcCommandsAreKnown
<1> QED
  BY <1>1, PrcInvInit, PrcInvNext, PTL DEF PrcSpec

----------------------------------------------------------------------------
(* KotlinCameras.                                                          *)

KcRequestRecord ==
    [is : {"none", "start", "offer", "stop", "list", "put", "run", "thread", "assign", "halt", "cleanup",
           "interrupt", "clear", "done"},
     all : BOOLEAN, client : KcReqs \cup {0}]

KcClientRecord ==
    [running : BOOLEAN, assigned : BOOLEAN, interrupted : BOOLEAN, session : BOOLEAN, grabber : BOOLEAN,
     told : BOOLEAN, attempts : 0..KcMaxAttempts,
     thread : {"none", "loop", "connect", "opened", "frames", "grab", "closing", "failing", "failed",
               "sleep", "ends", "done"}]

\* A session is open only between connecting and closing, and the attempts end the thread in time.
KcClientFits(d) ==
    /\ d.thread \notin {"opened", "frames", "grab", "closing", "failing"} => ~d.session
    /\ d.thread = "done" => ~d.running
    /\ d.thread \notin {"failed", "ends", "done"} => d.attempts < KcMaxAttempts

\* Without an overlap one request is under way, and what it is about to do fits the map.
KcAlone ==
    /\ \A r, q \in KcReqs :
         kcReq[r].is \notin {"none", "done"} /\ kcReq[q].is \notin {"none", "done"} => r = q
    /\ \A r \in KcReqs :
         /\ kcReq[r].is = "put" => kcMap = 0
         /\ kcReq[r].is \in {"run", "thread", "assign"} => kcMap = r
         /\ kcReq[r].is \in {"cleanup", "interrupt", "clear"} => \A c \in KcReqs : ~kcClient[c].running
    /\ \A c \in KcReqs : kcClient[c].running =>
         /\ kcMap = c \/ \E r \in KcReqs : kcReq[r].is = "halt"
         /\ \A r \in KcReqs : kcReq[r].is = "halt" => kcReq[r].client = c

KcInv ==
    /\ kcMap \in KcReqs \cup {0} /\ kcOverlap \in BOOLEAN
    /\ kcReq \in [KcReqs -> KcRequestRecord] /\ kcClient \in [KcReqs -> KcClientRecord]
    /\ \A r \in KcReqs : kcReq[r].is \in {"halt", "cleanup", "interrupt"} => kcReq[r].client # 0
    /\ \A r \in KcReqs : kcClient[r].thread # "none" => kcReq[r].is \in {"assign", "done"}
    /\ \A r \in KcReqs : KcClientFits(kcClient[r])
    /\ ~kcOverlap => KcAlone

LEMMA KcInvInit == KcInit => KcInv
<1> SUFFICES ASSUME KcInit PROVE KcInv
  OBVIOUS
<1>1. kcOverlap \in BOOLEAN
  BY Zenon DEF KcInit
<1>2. KcNewClient \in KcClientRecord /\ KcNoRequest \in KcRequestRecord
  BY KcAssumption DEF KcNewClient, KcClientRecord, KcNoRequest, KcRequestRecord
<1> QED
  BY <1>1, <1>2, KcAssumption DEF KcInit, KcInv, KcAlone, KcClientFits, KcNewClient, KcNoRequest

\* A step of the thread of a client, or of whoever stops it: nothing but its record changes.
LEMMA KcClientStep ==
    ASSUME KcInv, NEW c \in KcReqs, NEW d \in KcClientRecord, KcClientFits(d),
           d.thread # "none" => kcClient[c].thread # "none",
           d.running => kcClient[c].running,
           kcClient' = [kcClient EXCEPT ![c] = d], UNCHANGED <<kcMap, kcReq, kcOverlap>>
    PROVE  KcInv'
  BY DEF KcInv, KcAlone

LEMMA KcThreadKeepsInv ==
    ASSUME KcInv, NEW c \in KcReqs, KcRuns(c)
    PROVE  KcInv'
<1> DEFINE d == kcClient[c]
<1>1. d \in KcClientRecord /\ KcClientFits(d)
  BY DEF KcInv
<1>2. ASSUME NEW from, NEW to, KcGoes(c, from, to), from # "none",
             KcClientFits([d EXCEPT !.thread = to]), [d EXCEPT !.thread = to] \in KcClientRecord
      PROVE  KcInv'
  <2>1. [d EXCEPT !.thread = to].running = d.running
    BY <1>1 DEF KcClientRecord
  <2> QED
    BY <1>1, <1>2, <2>1, KcClientStep DEF KcGoes, KcThread, KcSets
<1>3. ASSUME NEW from, NEW to, KcGoes(c, from, to), from # "none",
             <<from, to>> \in {<<"loop", "connect">>, <<"loop", "ends">>, <<"connect", "failing">>,
                               <<"frames", "grab">>, <<"frames", "closing">>, <<"grab", "closing">>,
                               <<"grab", "failing">>, <<"failed", "ends">>, <<"sleep", "loop">>}
      PROVE  KcInv'
  <2>1. d.thread = from
    BY <1>3 DEF KcGoes, KcThread
  <2>2. [d EXCEPT !.thread = to] \in KcClientRecord
    BY <1>1, <1>3 DEF KcClientRecord
  <2>3. KcClientFits([d EXCEPT !.thread = to])
    BY <1>1, <1>3, <2>1 DEF KcClientFits, KcClientRecord
  <2> QED
    BY <1>2, <1>3, <2>2, <2>3
<1>4. ASSUME NEW new, NEW from, KcThread(c, from, new), from # "none", new \in KcClientRecord, KcClientFits(new),
             new.running => d.running
      PROVE  KcInv'
  BY <1>4, KcClientStep DEF KcThread, KcSets
<1>5. CASE KcLoop(c)
  BY <1>3, <1>5 DEF KcLoop
<1>6. CASE KcConnect(c)
  <2> DEFINE new == [d EXCEPT !.thread = "opened", !.session = TRUE]
  <2>1. ASSUME KcThread(c, "connect", new) PROVE KcInv'
    <3>1. PICK b \in BOOLEAN : b = TRUE
      OBVIOUS
    <3>2. new = [d EXCEPT !.thread = "opened", !.session = b]
      BY <3>1, Zenon
    <3>3. new \in KcClientRecord /\ new.running = d.running /\ new.thread = "opened" /\ new.attempts = d.attempts
      BY <1>1, <3>2 DEF KcClientRecord
    <3>4. KcClientFits(new)
      BY <1>1, <2>1, <3>3 DEF KcClientFits, KcThread
    <3> QED
      BY <1>4, <2>1, <3>3, <3>4
  <2> QED
    BY <1>3, <1>6, <2>1 DEF KcConnect
<1>7. CASE KcKeepGrabber(c)
  <2> DEFINE new == [d EXCEPT !.thread = "frames", !.grabber = TRUE]
  <2>1. PICK b \in BOOLEAN : b = TRUE
    OBVIOUS
  <2>2. new = [d EXCEPT !.thread = "frames", !.grabber = b]
    BY <2>1, Zenon
  <2>3. new \in KcClientRecord /\ new.running = d.running /\ new.thread = "frames" /\ new.attempts = d.attempts
    BY <1>1, <2>2 DEF KcClientRecord
  <2>4. KcClientFits(new)
    BY <1>1, <1>7, <2>3 DEF KcClientFits, KcThread, KcKeepGrabber
  <2> QED
    BY <1>4, <1>7, <2>3, <2>4 DEF KcKeepGrabber
<1>8. CASE KcFrames(c)
  BY <1>3, <1>8 DEF KcFrames
<1>9. CASE KcGrab(c)
  <2>1. ASSUME NEW kept \in {FALSE, d.interrupted},
               KcThread(c, "grab", [d EXCEPT !.thread = "frames", !.interrupted = kept])
        PROVE  KcInv'
    <3> DEFINE new == [d EXCEPT !.thread = "frames", !.interrupted = kept]
    <3>1. kept \in BOOLEAN
      <4>1. d.interrupted \in BOOLEAN
        BY <1>1 DEF KcClientRecord
      <4>2. CASE kept = FALSE
        BY <4>2, Zenon
      <4>3. CASE kept = d.interrupted
        BY <4>1, <4>3
      <4> QED
        BY <2>1, <4>2, <4>3
    <3>2. new \in KcClientRecord /\ new.running = d.running /\ new.thread = "frames" /\ new.attempts = d.attempts
      BY <1>1, <3>1 DEF KcClientRecord
    <3>3. KcClientFits(new)
      BY <1>1, <2>1, <3>2 DEF KcClientFits, KcThread
    <3> QED
      BY <1>4, <2>1, <3>2, <3>3
  <2> QED
    BY <1>3, <1>9, <2>1 DEF KcGrab
<1>10. CASE KcClose(c)
  <2> DEFINE shut == [d EXCEPT !.session = FALSE, !.grabber = FALSE]
             good == [shut EXCEPT !.attempts = 0, !.thread = "loop"]
             bad == [shut EXCEPT !.attempts = @ + 1, !.thread = "failed"]
  <2>1. PICK b \in BOOLEAN : b = FALSE
    OBVIOUS
  <2>2. shut = [d EXCEPT !.session = b, !.grabber = b]
    BY <2>1, Zenon
  <2>3. shut \in KcClientRecord /\ shut.running = d.running /\ shut.session = b /\ shut.attempts = d.attempts
    BY <1>1, <2>2 DEF KcClientRecord
  <2>4. ASSUME NEW e \in KcClientRecord, NEW n \in 0..KcMaxAttempts, NEW to \in {"loop", "failed"}
        PROVE  LET f == [e EXCEPT !.attempts = n, !.thread = to]
               IN  /\ f \in KcClientRecord /\ f.running = e.running /\ f.session = e.session
                   /\ f.thread = to /\ f.attempts = n
    BY DEF KcClientRecord
  <2>5. ASSUME KcThread(c, "closing", good) PROVE KcInv'
    <3>1. good \in KcClientRecord /\ good.running = d.running /\ good.session = b
          /\ good.thread = "loop" /\ good.attempts = 0
      <4>1. 0 \in 0..KcMaxAttempts
        BY KcAssumption
      <4>2. /\ good \in KcClientRecord /\ good.running = shut.running /\ good.session = shut.session
            /\ good.thread = "loop" /\ good.attempts = 0
        BY <2>3, <2>4, <4>1, Zenon
      <4> QED
        BY <2>3, <4>2
    <3>2. KcClientFits(good)
      BY <2>1, <3>1, KcAssumption DEF KcClientFits
    <3> QED
      BY <1>4, <2>5, <3>1, <3>2
  <2>6. ASSUME KcThread(c, "failing", bad) PROVE KcInv'
    <3>1. d.attempts \in Nat /\ d.attempts < KcMaxAttempts
      BY <1>1, <2>6 DEF KcClientFits, KcThread, KcClientRecord
    <3>2. bad \in KcClientRecord /\ bad.running = d.running /\ bad.session = b /\ bad.thread = "failed"
      <4>1. shut.attempts + 1 \in 0..KcMaxAttempts
        BY <2>3, <3>1, KcAssumption
      <4> QED
        BY <2>3, <2>4, <4>1, ZenonT(30)
    <3>3. KcClientFits(bad)
      BY <2>1, <3>2 DEF KcClientFits
    <3> QED
      BY <1>4, <2>6, <3>2, <3>3
  <2> QED
    BY <1>10, <2>5, <2>6 DEF KcClose
<1>11. CASE KcRetry(c)
  <2>1. CASE d.attempts >= KcMaxAttempts
    BY <1>3, <1>11, <2>1 DEF KcRetry
  <2>2. CASE ~(d.attempts >= KcMaxAttempts)
    <3> DEFINE new == [d EXCEPT !.thread = "sleep"]
    <3>1. new \in KcClientRecord /\ new.session = d.session /\ new.thread = "sleep" /\ new.attempts = d.attempts
      BY <1>1 DEF KcClientRecord
    <3>2. d.thread = "failed" /\ d.attempts \in Nat
      BY <1>1, <1>11 DEF KcRetry, KcGoes, KcThread, KcClientRecord
    <3>3. KcClientFits(new)
      BY <1>1, <2>2, <3>1, <3>2, KcAssumption DEF KcClientFits
    <3> QED
      BY <1>2, <1>11, <2>2, <3>1, <3>3 DEF KcRetry
  <2> QED
    BY <2>1, <2>2
<1>12. CASE KcSleep(c)
  <2> DEFINE new == [d EXCEPT !.thread = "ends", !.interrupted = FALSE]
  <2>1. PICK b \in BOOLEAN : b = FALSE
    OBVIOUS
  <2>2. new = [d EXCEPT !.thread = "ends", !.interrupted = b]
    BY <2>1, Zenon
  <2>3. new \in KcClientRecord /\ new.running = d.running /\ new.thread = "ends" /\ new.session = d.session
    BY <1>1, <2>2 DEF KcClientRecord
  <2>4. d.thread = "sleep"
    BY <1>12 DEF KcSleep, KcGoes, KcThread
  <2>5. KcClientFits(new)
    BY <1>1, <2>3, <2>4 DEF KcClientFits
  <2> QED
    BY <1>3, <1>4, <1>12, <2>3, <2>5 DEF KcSleep
<1>13. CASE KcEnds(c)
  <2> DEFINE new == [d EXCEPT !.thread = "done", !.running = FALSE,
                              !.session = @ /\ ~d.grabber, !.grabber = FALSE]
  <2>1. PICK b \in BOOLEAN : b = FALSE
    OBVIOUS
  <2>2. PICK o \in BOOLEAN : o = (d.session /\ ~d.grabber)
    OBVIOUS
  <2>3. new = [d EXCEPT !.thread = "done", !.running = b, !.session = o, !.grabber = b]
    BY <2>1, <2>2, Zenon
  <2>4. new \in KcClientRecord /\ new.running = b /\ new.thread = "done" /\ new.session = o
    BY <1>1, <2>3 DEF KcClientRecord
  <2>5. d.thread = "ends" /\ ~d.session
    BY <1>1, <1>13 DEF KcEnds, KcThread, KcClientFits
  <2>6. KcClientFits(new)
    BY <2>1, <2>2, <2>4, <2>5 DEF KcClientFits
  <2> QED
    BY <1>4, <1>13, <2>1, <2>4, <2>6 DEF KcEnds
<1> QED
  BY <1>5, <1>6, <1>7, <1>8, <1>9, <1>10, <1>11, <1>12, <1>13 DEF KcRuns

\* The steps of the requests.
LEMMA KcRequestKeepsInv ==
    ASSUME KcInv, NEW r \in KcReqs, KcRequest(r)
    PROVE  KcInv'
<1>1. /\ kcMap \in KcReqs \cup {0} /\ kcOverlap \in BOOLEAN
      /\ kcReq \in [KcReqs -> KcRequestRecord] /\ kcClient \in [KcReqs -> KcClientRecord]
      /\ \A c \in KcReqs : kcReq[c].is \in {"halt", "cleanup", "interrupt"} => kcReq[c].client # 0
      /\ \A c \in KcReqs : kcClient[c].thread # "none" => kcReq[c].is \in {"assign", "done"}
      /\ \A c \in KcReqs : KcClientFits(kcClient[c])
      /\ ~kcOverlap => KcAlone
  BY DEF KcInv
<1>2. \A c \in KcReqs : c # 0
  BY KcAssumption DEF KcReqs
\* The request goes on to its next step.
<1>3. ASSUME NEW from, NEW to, KcTo(r, from, to), from \notin {"none", "done"},
             to \in {"start", "put", "run", "thread", "assign", "halt", "cleanup", "interrupt", "clear", "done"}
      PROVE  /\ kcReq[r].is = from /\ kcReq'[r].is = to /\ kcOverlap' = kcOverlap
             /\ kcReq' \in [KcReqs -> KcRequestRecord]
             /\ \A q \in KcReqs \ {r} : kcReq'[q] = kcReq[q]
             /\ to # "done" => kcReq'[r].client = kcReq[r].client
  <2>1. KcAnswered \in KcRequestRecord /\ KcAnswered.is = "done"
    <3>1. PICK b \in BOOLEAN : b = FALSE
      OBVIOUS
    <3>2. KcNoRequest = [is |-> "none", all |-> b, client |-> 0]
      BY <3>1, Zenon DEF KcNoRequest
    <3> QED
      BY <3>2 DEF KcAnswered, KcRequestRecord
  <2>2. [kcReq[r] EXCEPT !.is = to] \in KcRequestRecord /\ [kcReq[r] EXCEPT !.is = to].is = to
        /\ [kcReq[r] EXCEPT !.is = to].client = kcReq[r].client
    BY <1>1, <1>3 DEF KcRequestRecord
  <2> QED
    BY <1>1, <1>3, <2>1, <2>2 DEF KcTo
\* No client changes, and the map does not, or to r.
<1>4. CASE KcAskRunning(r) \/ KcContains(r)
  <2>1. \E from, to : /\ KcTo(r, from, to)
                      /\ \/ from = "offer" /\ to \in {"done", "start"}
                         \/ from = "start" /\ (to = "done" \/ (to = "put" /\ kcMap = 0))
    BY <1>4 DEF KcAskRunning, KcContains
  <2>2. PICK from, to : /\ KcTo(r, from, to)
                        /\ \/ from = "offer" /\ to \in {"done", "start"}
                           \/ from = "start" /\ (to = "done" \/ (to = "put" /\ kcMap = 0))
    BY <2>1
  <2>3. kcMap' = kcMap /\ kcClient' = kcClient
    BY <1>4 DEF KcAskRunning, KcContains
  <2>4. /\ kcReq[r].is = from /\ kcReq'[r].is = to /\ kcOverlap' = kcOverlap
        /\ kcReq' \in [KcReqs -> KcRequestRecord]
        /\ \A q \in KcReqs \ {r} : kcReq'[q] = kcReq[q]
    BY <1>3, <2>2
  <2>5. KcAlone => KcAlone'
    BY <2>2, <2>3, <2>4 DEF KcAlone
  <2> QED
    BY <1>1, <2>2, <2>3, <2>4, <2>5 DEF KcInv
<1>5. CASE KcPut(r)
  <2>1. /\ kcReq[r].is = "put" /\ kcReq'[r].is = "run" /\ kcOverlap' = kcOverlap
        /\ kcReq' \in [KcReqs -> KcRequestRecord]
        /\ \A q \in KcReqs \ {r} : kcReq'[q] = kcReq[q]
        /\ kcMap' = r /\ kcClient' = kcClient
    BY <1>3, <1>5 DEF KcPut
  <2>2. KcAlone => KcAlone'
    BY <1>2, <2>1 DEF KcAlone
  <2> QED
    BY <1>1, <2>1, <2>2 DEF KcInv
<1>6. CASE KcSetRunning(r)
  <2>1. /\ kcReq[r].is = "run" /\ kcReq'[r].is = "thread" /\ kcOverlap' = kcOverlap
        /\ kcReq' \in [KcReqs -> KcRequestRecord]
        /\ \A q \in KcReqs \ {r} : kcReq'[q] = kcReq[q]
        /\ kcMap' = kcMap
    BY <1>3, <1>6 DEF KcSetRunning
  <2>2. PICK b \in BOOLEAN : b = TRUE
    OBVIOUS
  <2>3. kcClient' = [kcClient EXCEPT ![r] = [kcClient[r] EXCEPT !.running = b]]
    BY <1>6, <2>2, Zenon DEF KcSetRunning, KcSets
  <2>4. /\ kcClient' \in [KcReqs -> KcClientRecord]
        /\ \A q \in KcReqs \ {r} : kcClient'[q] = kcClient[q]
        /\ kcClient'[r].thread = "none" /\ kcClient'[r].session = kcClient[r].session
        /\ kcClient'[r].attempts = kcClient[r].attempts
    BY <1>1, <2>1, <2>3 DEF KcClientRecord
  <2>5. KcAlone => KcAlone'
    BY <2>1, <2>4 DEF KcAlone
  <2>6. \A c \in KcReqs : KcClientFits(kcClient'[c])
    BY <1>1, <2>1, <2>4 DEF KcClientFits
  <2> QED
    BY <1>1, <2>1, <2>4, <2>5, <2>6 DEF KcInv
<1>7. CASE KcStartThread(r)
  <2>1. /\ kcReq[r].is = "thread" /\ kcReq'[r].is = "assign" /\ kcOverlap' = kcOverlap
        /\ kcReq' \in [KcReqs -> KcRequestRecord]
        /\ \A q \in KcReqs \ {r} : kcReq'[q] = kcReq[q]
        /\ kcMap' = kcMap
    BY <1>3, <1>7 DEF KcStartThread
  <2>2. /\ kcClient' \in [KcReqs -> KcClientRecord]
        /\ \A q \in KcReqs \ {r} : kcClient'[q] = kcClient[q]
        /\ kcClient[r].thread = "none" /\ kcClient'[r].thread = "loop"
        /\ kcClient'[r].session = kcClient[r].session /\ kcClient'[r].running = kcClient[r].running
        /\ kcClient'[r].attempts = kcClient[r].attempts
    BY <1>1, <1>7, <2>1 DEF KcStartThread, KcSets, KcClientRecord
  <2>3. KcAlone => KcAlone'
    BY <2>1, <2>2 DEF KcAlone
  <2>4. \A c \in KcReqs : KcClientFits(kcClient'[c])
    BY <1>1, <2>2 DEF KcClientFits
  <2> QED
    BY <1>1, <2>1, <2>2, <2>3, <2>4 DEF KcInv
<1>8. CASE KcAssignThread(r)
  <2>1. /\ kcReq[r].is = "assign" /\ kcReq'[r].is = "done" /\ kcOverlap' = kcOverlap
        /\ kcReq' \in [KcReqs -> KcRequestRecord]
        /\ \A q \in KcReqs \ {r} : kcReq'[q] = kcReq[q]
        /\ kcMap' = kcMap
    BY <1>3, <1>8 DEF KcAssignThread
  <2>2. PICK b \in BOOLEAN : b = TRUE
    OBVIOUS
  <2>3. kcClient' = [kcClient EXCEPT ![r] = [kcClient[r] EXCEPT !.assigned = b]]
    BY <1>8, <2>2, Zenon DEF KcAssignThread, KcSets
  <2>4. /\ kcClient' \in [KcReqs -> KcClientRecord]
        /\ \A q \in KcReqs \ {r} : kcClient'[q] = kcClient[q]
        /\ kcClient'[r].thread = kcClient[r].thread /\ kcClient'[r].running = kcClient[r].running
        /\ kcClient'[r].session = kcClient[r].session /\ kcClient'[r].attempts = kcClient[r].attempts
    BY <1>1, <2>3 DEF KcClientRecord
  <2>5. KcAlone => KcAlone'
    BY <2>1, <2>4 DEF KcAlone
  <2>6. \A c \in KcReqs : KcClientFits(kcClient'[c])
    BY <1>1, <2>4 DEF KcClientFits
  <2> QED
    BY <1>1, <2>1, <2>4, <2>5, <2>6 DEF KcInv
<1>9. CASE KcTake(r) \/ KcList(r)
  <2>1. PICK next \in {"done", "clear"} :
          /\ \/ kcReq[r].is = "stop" /\ next = "done" /\ kcMap' = 0
             \/ kcReq[r].is = "list" /\ next = "clear" /\ kcMap' = kcMap
          /\ KcFinds(r, next) /\ UNCHANGED <<kcClient, kcOverlap>>
    BY <1>9 DEF KcTake, KcList
  <2>2. /\ kcReq' \in [KcReqs -> KcRequestRecord]
        /\ \A q \in KcReqs \ {r} : kcReq'[q] = kcReq[q]
        /\ kcReq'[r].client = kcMap /\ kcReq'[r].is = IF kcMap = 0 THEN next ELSE "halt"
    BY <1>1, <2>1 DEF KcFinds, KcRequestRecord
  <2>3. ASSUME KcAlone PROVE KcAlone'
    <3>1. \A q \in KcReqs : q = r \/ kcReq[q].is \in {"none", "done"}
      BY <2>1, <2>3 DEF KcAlone
    <3>2. \A c \in KcReqs : kcClient[c].running => kcMap = c
      BY <2>1, <2>3, <3>1 DEF KcAlone
    <3> QED
      BY <1>2, <2>1, <2>2, <3>1, <3>2 DEF KcAlone
  <2> QED
    BY <1>1, <2>1, <2>2, <2>3 DEF KcInv
<1>10. CASE KcHalt(r)
  <2> DEFINE c == kcReq[r].client
             d == kcClient[c]
  <2>1. PICK to \in {"cleanup", "clear", "done"} :
          /\ KcTo(r, "halt", to) /\ kcMap' = kcMap
          /\ KcSets(c, [d EXCEPT !.running = FALSE, !.told = @ \/ d.running])
    BY <1>10 DEF KcHalt, KcAfterStop
  <2>2. /\ kcReq[r].is = "halt" /\ kcReq'[r].is = to /\ kcOverlap' = kcOverlap
        /\ kcReq' \in [KcReqs -> KcRequestRecord]
        /\ \A q \in KcReqs \ {r} : kcReq'[q] = kcReq[q]
        /\ to # "done" => kcReq'[r].client = c
    BY <1>3, <2>1
  <2>3. c \in KcReqs
    BY <1>1, <2>2 DEF KcRequestRecord
  <2>4. PICK b \in BOOLEAN : b = FALSE
    OBVIOUS
  <2>5. PICK t \in BOOLEAN : t = (d.told \/ d.running)
    OBVIOUS
  <2>6. kcClient' = [kcClient EXCEPT ![c] = [d EXCEPT !.running = b, !.told = t]]
    BY <2>1, <2>4, <2>5, Zenon DEF KcSets
  <2> HIDE DEF c
  <2>7. /\ kcClient' \in [KcReqs -> KcClientRecord]
        /\ \A q \in KcReqs \ {c} : kcClient'[q] = kcClient[q]
        /\ kcClient'[c].thread = d.thread /\ kcClient'[c].running = b
        /\ kcClient'[c].session = d.session /\ kcClient'[c].attempts = d.attempts
    BY <1>1, <2>3, <2>6, ZenonT(40) DEF KcClientRecord
  <2>8. ASSUME KcAlone PROVE KcAlone'
    <3>1. \A q \in KcReqs : q = r \/ kcReq[q].is \in {"none", "done"}
      BY <2>2, <2>8 DEF KcAlone
    <3>2. \A q \in KcReqs : ~kcClient'[q].running
      BY <2>2, <2>4, <2>7, <2>8 DEF KcAlone, c
    <3> QED
      BY <2>2, <3>1, <3>2 DEF KcAlone
  <2>9. \A q \in KcReqs : KcClientFits(kcClient'[q])
    BY <1>1, <2>3, <2>4, <2>7 DEF KcClientFits
  <2>10. to # "done" => c # 0
    BY <1>2, <2>3
  <2>11. \A q \in KcReqs : kcClient'[q].thread # "none" => kcReq'[q].is \in {"assign", "done"}
    BY <1>1, <2>2, <2>3, <2>7
  <2>12. \A q \in KcReqs : kcReq'[q].is \in {"halt", "cleanup", "interrupt"} => kcReq'[q].client # 0
    BY <1>1, <2>2, <2>10
  <2> QED
    BY <1>1, <2>1, <2>2, <2>7, <2>8, <2>9, <2>11, <2>12 DEF KcInv
<1>11. CASE KcCleanup(r) \/ KcInterrupt(r)
  <2> DEFINE c == kcReq[r].client
             d == kcClient[c]
  <2>1. PICK from, to : /\ KcTo(r, from, to) /\ kcMap' = kcMap
                        /\ \/ from = "cleanup" /\ to = "interrupt"
                           \/ from = "interrupt" /\ to \in {"clear", "done"}
    BY <1>11 DEF KcCleanup, KcInterrupt, KcAfterStop
  <2>2. /\ kcReq[r].is = from /\ kcReq'[r].is = to /\ kcOverlap' = kcOverlap
        /\ kcReq' \in [KcReqs -> KcRequestRecord]
        /\ \A q \in KcReqs \ {r} : kcReq'[q] = kcReq[q]
        /\ to # "done" => kcReq'[r].client = c
    BY <1>3, <2>1
  <2>3. c \in KcReqs
    BY <1>1, <2>1, <2>2 DEF KcRequestRecord
  <2>4. /\ kcClient' \in [KcReqs -> KcClientRecord]
        /\ \A q \in KcReqs \ {c} : kcClient'[q] = kcClient[q]
        /\ kcClient'[c].thread = d.thread /\ kcClient'[c].running = d.running
        /\ (kcClient'[c].session => d.session) /\ kcClient'[c].attempts = d.attempts
    <3>1. CASE KcCleanup(r)
      <4>1. PICK seen : KcSets(c, [d EXCEPT !.session = @ /\ ~seen, !.grabber = FALSE])
        BY <3>1 DEF KcCleanup
      <4>2. PICK b \in BOOLEAN : b = FALSE
        OBVIOUS
      <4>3. PICK o \in BOOLEAN : o = (d.session /\ ~seen)
        OBVIOUS
      <4>4. kcClient' = [kcClient EXCEPT ![c] = [d EXCEPT !.session = o, !.grabber = b]]
        BY <4>1, <4>2, <4>3, Zenon DEF KcSets
      <4> HIDE DEF c
      <4>5. /\ kcClient' \in [KcReqs -> KcClientRecord]
            /\ \A q \in KcReqs \ {c} : kcClient'[q] = kcClient[q]
            /\ kcClient'[c].thread = d.thread /\ kcClient'[c].running = d.running
            /\ kcClient'[c].session = o /\ kcClient'[c].attempts = d.attempts
        BY <1>1, <2>3, <4>4, ZenonT(40) DEF KcClientRecord
      <4> QED
        BY <4>3, <4>5
    <3>2. CASE KcInterrupt(r)
      <4>1. PICK seen : KcSets(c, [d EXCEPT !.interrupted = @ \/ seen])
        BY <3>2 DEF KcInterrupt
      <4>2. PICK o \in BOOLEAN : o = (d.interrupted \/ seen)
        OBVIOUS
      <4>3. kcClient' = [kcClient EXCEPT ![c] = [d EXCEPT !.interrupted = o]]
        BY <4>1, <4>2, Zenon DEF KcSets
      <4> HIDE DEF c
      <4> QED
        BY <1>1, <2>3, <4>3 DEF KcClientRecord
    <3> QED
      BY <1>11, <3>1, <3>2
  <2> HIDE DEF c
  <2>5. KcAlone => KcAlone'
    BY <2>1, <2>2, <2>3, <2>4 DEF KcAlone
  <2>6. \A q \in KcReqs : KcClientFits(kcClient'[q])
    BY <1>1, <2>3, <2>4 DEF KcClientFits
  <2>7. \A q \in KcReqs : kcReq'[q].is \in {"halt", "cleanup", "interrupt"} => kcReq'[q].client # 0
    BY <1>1, <1>2, <2>1, <2>2, <2>3
  <2>8. \A q \in KcReqs : kcClient'[q].thread # "none" => kcReq'[q].is \in {"assign", "done"}
    BY <1>1, <2>1, <2>2, <2>3, <2>4
  <2> QED
    BY <1>1, <2>1, <2>2, <2>4, <2>5, <2>6, <2>7, <2>8 DEF KcInv
<1>12. CASE KcClear(r)
  <2>1. /\ kcReq[r].is = "clear" /\ kcReq'[r].is = "done" /\ kcOverlap' = kcOverlap
        /\ kcReq' \in [KcReqs -> KcRequestRecord]
        /\ \A q \in KcReqs \ {r} : kcReq'[q] = kcReq[q]
        /\ kcMap' = 0 /\ kcClient' = kcClient
    BY <1>3, <1>12 DEF KcClear
  <2>2. KcAlone => KcAlone'
    BY <2>1 DEF KcAlone
  <2> QED
    BY <1>1, <2>1, <2>2 DEF KcInv
<1> QED
  BY <1>4, <1>5, <1>6, <1>7, <1>8, <1>9, <1>10, <1>11, <1>12 DEF KcRequest

LEMMA KcInvNext == KcInv /\ [KcNext]_KcVars => KcInv'
<1> SUFFICES ASSUME KcInv, [KcNext]_KcVars PROVE KcInv'
  OBVIOUS
<1>1. ASSUME NEW r \in KcReqs, NEW kind \in {"start", "offer", "stop", "stopAll"}, KcArrive(r, kind) PROVE KcInv'
  <2>1. PICK b \in BOOLEAN : b = FALSE
    OBVIOUS
  <2>2. PICK a \in BOOLEAN : a = (kind = "stopAll")
    OBVIOUS
  <2> DEFINE is == IF kind = "stopAll" THEN "list" ELSE kind
  <2>3. KcNoRequest = [is |-> "none", all |-> b, client |-> 0]
    BY <2>1, Zenon DEF KcNoRequest
  <2>4. kcReq' = [kcReq EXCEPT ![r] = [KcNoRequest EXCEPT !.is = is, !.all = a]]
    BY <1>1, <2>2, Zenon DEF KcArrive
  <2>5. /\ kcReq' \in [KcReqs -> KcRequestRecord] /\ kcReq'[r].is \in {"start", "offer", "stop", "list"}
        /\ \A q \in KcReqs \ {r} : kcReq'[q] = kcReq[q]
    BY <1>1, <2>3, <2>4 DEF KcInv, KcRequestRecord
  <2>6. kcReq[r].is = "none" /\ kcMap' = kcMap /\ kcClient' = kcClient
    BY <1>1 DEF KcArrive
  <2>7. kcOverlap' \in BOOLEAN
    BY <1>1, Zenon DEF KcArrive
  <2>8. ASSUME ~kcOverlap' PROVE KcAlone'
    <3>1. ~kcOverlap /\ KcUnderWay = {}
      BY <1>1, <2>8 DEF KcArrive
    <3>2. KcAlone /\ \A q \in KcReqs : kcReq[q].is \in {"none", "done"}
      BY <3>1 DEF KcInv, KcUnderWay
    <3> QED
      BY <2>5, <2>6, <3>2 DEF KcAlone
  <2> QED
    BY <2>5, <2>6, <2>7, <2>8 DEF KcInv
<1>2. ASSUME NEW r \in KcReqs, KcRequest(r) \/ KcRuns(r) PROVE KcInv'
  BY <1>2, KcRequestKeepsInv, KcThreadKeepsInv
<1>3. CASE UNCHANGED KcVars
  <2>1. KcAlone => KcAlone'
    BY <1>3 DEF KcVars, KcAlone
  <2> QED
    BY <1>3, <2>1 DEF KcVars, KcInv
<1> QED
  BY <1>1, <1>2, <1>3 DEF KcNext

\* As long as no two requests overlap, a camera client that runs is in the map, where the next stop
\* finds it, and in any case a client whose thread has ended is closed (RTSPManager.kt, RTSPClient.kt).
\* These are the parts of KcClientsServed that are no liveness.
THEOREM KcClientsAreStoppable == KcSpec => [](KcRunningIsFound /\ KcEndedIsClosed)
<1>1. KcInv => KcRunningIsFound /\ KcEndedIsClosed
  BY DEF KcInv, KcAlone, KcClientFits, KcRunningIsFound, KcUnderWay, KcEndedIsClosed
<1> QED
  BY <1>1, KcInvInit, KcInvNext, PTL DEF KcSpec

----------------------------------------------------------------------------
(* MCParts: the parts side by side.                                        *)

PartsInv == SigInv /\ PthInv /\ PrcInv /\ CfgInv /\ KcInv

LEMMA PartsInvNext == PartsInv /\ [PartsNext]_PartsVars => PartsInv'
<1> SUFFICES ASSUME PartsInv, [PartsNext]_PartsVars PROVE PartsInv'
  OBVIOUS
<1>1. /\ [SigNext]_SigVars /\ [PthNext]_PthVars /\ [PrcNext]_PrcVars /\ [CfgNext]_CfgVars
      /\ [KcNext]_KcVars
  BY DEF PartsNext, PartsVars
<1> QED
  BY <1>1, SigInvNext, PthInvNext, PrcInvNext, CfgInvNext, KcInvNext DEF PartsInv

\* The types of the parts, whichever of them moves: a registered path has an object, a process an id,
\* the paths in memory have settings that were accepted, a request that stops a camera has its client.
THEOREM PartsTypeCorrect == PartsSpec => []PartsTypeOK
<1>1. PartsInit => PartsInv
  BY SigInvInit, PthInvInit, PrcInvInit, CfgInvInit, KcInvInit DEF PartsInit, PartsInv
<1>2. KcInv => KcTypeOK
  BY KcAssumption DEF KcInv, KcTypeOK, KcReqs, KcRequestRecord, KcClientRecord
<1>3. PartsInv => PartsTypeOK
  BY <1>2 DEF PartsInv, PartsTypeOK, SigInv, PthInv, PrcInv, CfgInv
<1> QED
  BY <1>1, <1>3, PartsInvNext, PTL DEF PartsSpec
=============================================================================
