----------------------- MODULE StreamLifecycleProofs -----------------------
(***************************************************************************)
(* Proofs about StreamLifecycle, for any number of requests and crashes:   *)
(* type correctness with the bound on the objects that are made, that a    *)
(* stopped client leaves rtspClients however requests interleave, and that *)
(* row, object and client agree while requests come one at a time.         *)
(***************************************************************************)
EXTENDS StreamLifecycle, FiniteSetTheorems, TLAPS

BootPlaces == {"config", "list", "bootObject", "bootStream", "client", "store", "done"}
RequestPlaces ==
    {"idle", "row", "object", "check", "stream", "source", "client", "store", "muxer", "lookup",
     "stop", "unmap", "remove", "path", "pathObject", "done"}

RequestRecords ==
    [kind : Kinds \cup {"boot"}, pc : BootPlaces \cup RequestPlaces,
     row : [source : Sources \cup {NoSource}, onDemand : BOOLEAN], stream : Nat, client : Nat]
ClientRecords ==
    [state : {"none", "live", "stray", "stopped", "gaveUp"}, source : Sources \cup {NoSource}, stream : Nat]

ClientTypes ==
    /\ clients \in [Objects -> ClientRecords]
    /\ \A c \in Objects : clients[c].stream <= streams /\ (clients[c].state = "none" <=> c > made)

DataTypes ==
    /\ db \in {NoRow} \cup Rows
    /\ streams \in Nat /\ stream \in 0..streams
    /\ rtspPath \in 0..streams
    /\ made \in Nat /\ running \in 0..made
    /\ crashes \in 0..MaxCrashes

FlagTypes ==
    muxer \in BOOLEAN /\ overlapped \in BOOLEAN /\ startFailed \in BOOLEAN /\ unloaded \in BOOLEAN

\* What goroutine r may hold.
Holds(r) ==
    /\ req[r] \in RequestRecords
    /\ req[r].pc \in IF r = Boot THEN BootPlaces ELSE RequestPlaces
    /\ req[r].pc = "row" /\ req[r].kind \notin {"delete", "pathDelete"} => req[r].row \in Rows
    /\ req[r].stream <= streams /\ req[r].client <= made

RequestTypes ==
    /\ req \in [Goroutines -> RequestRecords]
    /\ \A r \in Goroutines : Holds(r)

Types == DataTypes /\ FlagTypes /\ ClientTypes /\ RequestTypes

LEMMA BootIsNoRequest == Boot \in Goroutines /\ Boot \notin Requests /\ Requests \subseteq Goroutines
  BY BoundsAssumption DEF Boot, Requests, Goroutines

LEMMA AnyRow ==
    /\ NoRow \in [source : Sources \cup {NoSource}, onDemand : BOOLEAN]
    /\ Rows \subseteq [source : Sources \cup {NoSource}, onDemand : BOOLEAN]
    /\ \A row \in Rows : row # NoRow /\ row.source # NoSource
  BY SourcesAssumption DEF NoRow, Rows

----------------------------------------------------------------------------
(* Types.                                                                  *)

LEMMA TypesInit == Init => Types
<1> SUFFICES ASSUME Init PROVE Types
  OBVIOUS
<1>1. req \in [Goroutines -> RequestRecords]
  BY AnyRow DEF Init, RequestRecords, BootPlaces, RequestPlaces, None
<1>2. ClientTypes
  BY BoundsAssumption DEF Init, ClientTypes, ClientRecords, None, Objects, MaxObjects
<1>3. \A r \in Goroutines : Holds(r)
  BY <1>1 DEF Init, Holds, BootPlaces, RequestPlaces, None
<1>4. DataTypes
  BY BoundsAssumption DEF Init, DataTypes, None
<1>5. FlagTypes
  BY Zenon DEF Init, FlagTypes
<1> QED
  BY <1>1, <1>2, <1>3, <1>4, <1>5 DEF Types, RequestTypes

\* A step of one goroutine need only be looked at for that goroutine.
LEMMA OthersStay ==
    ASSUME Types, NEW r \in Goroutines, req' = [req EXCEPT ![r] = req'[r]], Holds(r)',
           streams' \in Nat, made' \in Nat, streams <= streams', made <= made'
    PROVE  RequestTypes'
<1>1. req' \in [Goroutines -> RequestRecords]
  BY DEF Types, RequestTypes, Holds
<1>2. ASSUME NEW q \in Goroutines PROVE Holds(q)'
  <2>1. CASE q = r
    BY <2>1
  <2>2. CASE q # r
    <3>1. req'[q] = req[q] /\ Holds(q) /\ streams \in Nat /\ made \in Nat
      BY <2>2 DEF Types, RequestTypes, DataTypes
    <3> QED
      BY <3>1 DEF Holds, RequestRecords
  <2> QED
    BY <2>1, <2>2
<1> QED
  BY <1>1, <1>2 DEF RequestTypes

LEMMA FlagTypesNext == FlagTypes /\ [Next]_vars => FlagTypes'
<1> SUFFICES ASSUME FlagTypes, [Next]_vars PROVE FlagTypes'
  OBVIOUS
<1> USE DEF FlagTypes
<1>1. ASSUME NEW r \in Requests, NEW kind \in Kinds, NEW row \in Bodies(kind), Arrive(r, kind, row)
      PROVE  FlagTypes'
  BY <1>1, Zenon DEF Arrive, shared
<1>2. ASSUME NEW r \in Goroutines,
             \/ InsertRow(r) \/ UpdateRow(r) \/ DeleteRow(r) \/ CreateObject(r)
             \/ RemoveObject(r) \/ FindPath(r) \/ MakePath(r)
      PROVE  FlagTypes'
  BY <1>2, ZenonT(40)
  DEF InsertRow, UpdateRow, DeleteRow, CreateObject, RemoveObject, FindPath, MakePath, ghosts
<1>3. ASSUME NEW r \in Goroutines, Start(r) PROVE FlagTypes'
  BY <1>3, ZenonT(40)
  DEF Start, CheckRunning, FindStream, FindSource, CreateClient, NoClient, StoreClient, StartFails,
      shared, ghosts
<1>4. ASSUME NEW r \in Requests, Stop(r) PROVE FlagTypes'
  BY <1>4, ZenonT(40) DEF Stop, RemoveMuxer, LookupClient, StopClient, Unmap, shared, ghosts
<1>5. CASE SyncConfig \/ ListRows \/ BootObject \/ BootStream
  BY <1>5, ZenonT(40) DEF SyncConfig, ListRows, BootObject, BootStream, StartFails, shared, ghosts
<1>6. ASSUME NEW c \in Objects, Connect(c) \/ GiveUp(c) \/ StrayEnds(c) PROVE FlagTypes'
  BY <1>6, Zenon DEF Connect, GiveUp, StrayEnds, ghosts
<1>7. CASE Crash
  BY <1>7, Zenon DEF Crash
<1>8. CASE UNCHANGED vars
  BY <1>8, Zenon DEF vars, shared, ghosts
<1> QED
  BY <1>1, <1>2, <1>3, <1>4, <1>5, <1>6, <1>7, <1>8, BootIsNoRequest
  DEF Next, Handle, Load, Start

LEMMA TypesNext == Types /\ [Next]_vars => Types'
<1> SUFFICES ASSUME Types, [Next]_vars PROVE Types'
  OBVIOUS
<1>0. FlagTypes'
  BY FlagTypesNext DEF Types
<1> USE BootIsNoRequest
<1>1. ASSUME NEW r \in Goroutines PROVE Holds(r) /\ req[r] \in RequestRecords
  BY DEF Types, RequestTypes
<1>2. ASSUME NEW r \in Requests, NEW kind \in Kinds, NEW row \in Bodies(kind), Arrive(r, kind, row)
      PROVE  Types'
  <2>1. /\ row \in [source : Sources \cup {NoSource}, onDemand : BOOLEAN]
        /\ kind \notin {"delete", "pathDelete", "start", "rtsp"} => row \in Rows
    BY <1>2, KindsAssumption, AnyRow DEF Bodies
  <2>2. FirstStep(kind) \in RequestPlaces /\ (FirstStep(kind) = "row" => kind \notin {"start", "rtsp"})
    BY DEF FirstStep, RequestPlaces
  <2>3. req' = [req EXCEPT ![r] = req'[r]]
    BY <1>2 DEF Arrive, Types, RequestTypes
  <2>4. req'[r] = [kind |-> kind, pc |-> FirstStep(kind), row |-> row, stream |-> 0, client |-> 0]
    BY <1>2 DEF Arrive, Types, RequestTypes, None
  <2>5. Holds(r)'
    BY <1>2, <2>1, <2>2, <2>4 DEF Arrive, Holds, Types, DataTypes, RequestRecords, shared
  <2>6. DataTypes' /\ ClientTypes' /\ streams' = streams /\ made' = made
    BY <1>2 DEF Arrive, Types, DataTypes, ClientTypes, shared
  <2> QED
    BY <2>3, <2>5, <2>6, <1>0, OthersStay DEF Types, DataTypes
<1>3. ASSUME NEW r \in Requests, InsertRow(r) \/ UpdateRow(r) \/ DeleteRow(r) PROVE Types'
  <2>1. db' \in {NoRow} \cup Rows
    BY <1>1, <1>3 DEF InsertRow, UpdateRow, DeleteRow, Holds, Types, DataTypes
  <2>2. req' = [req EXCEPT ![r] = req'[r]] /\ Holds(r)'
    BY <1>1, <1>3 DEF InsertRow, UpdateRow, DeleteRow, Goto, Holds, RequestRecords, RequestPlaces,
                      Types, RequestTypes
  <2>3. DataTypes' /\ ClientTypes'
    BY <1>3, <2>1 DEF InsertRow, UpdateRow, DeleteRow, Types, DataTypes, ClientTypes
  <2> QED
    BY <1>3, <2>2, <2>3, <1>0, OthersStay DEF InsertRow, UpdateRow, DeleteRow, Types, DataTypes
<1>4. ASSUME NEW r \in Requests, CreateObject(r) \/ FindPath(r) \/ MakePath(r) PROVE Types'
  <2>1. req' = [req EXCEPT ![r] = req'[r]]
    BY <1>4 DEF CreateObject, FindPath, MakePath, Goto, Types, RequestTypes
  <2>2. streams' \in Nat /\ streams <= streams' /\ stream' \in 0..streams' /\ rtspPath' \in 0..streams'
    BY <1>4 DEF CreateObject, FindPath, MakePath, Types, DataTypes, None
  <2>3. Holds(r)'
    <3>1. req[r].pc \in {"object", "path", "pathObject"} /\ r # Boot
      BY <1>4, BootIsNoRequest DEF CreateObject, FindPath, MakePath
    <3>2. \E pc \in {"done", "check", "pathObject"} : req'[r] = [req[r] EXCEPT !.pc = pc]
      BY <1>4 DEF CreateObject, FindPath, MakePath, Goto, Types, RequestTypes
    <3> QED
      BY <1>1, <1>4, <2>2, <3>1, <3>2
      DEF CreateObject, FindPath, MakePath, Holds, RequestRecords, RequestPlaces, Types, DataTypes
  <2>4. DataTypes' /\ ClientTypes'
    BY <1>4, <2>2 DEF CreateObject, FindPath, MakePath, ClientRecords, Types, DataTypes, ClientTypes
  <2> QED
    BY <1>4, <2>1, <2>2, <2>3, <2>4, <1>0, OthersStay DEF CreateObject, FindPath, MakePath, Types, DataTypes
<1>5. ASSUME NEW r \in Goroutines,
             (r \in Requests /\ (CheckRunning(r) \/ FindStream(r) \/ FindSource(r))) \/ NoClient(r)
      PROVE  Types'
  <2>1. FoundSources \subseteq Sources \cup {NoSource}
    BY SourcesAssumption, AnyRow DEF FoundSources, Types, DataTypes
  <2>2. req' = [req EXCEPT ![r] = req'[r]] /\ Holds(r)'
    BY <1>1, <1>5, <2>1
    DEF CheckRunning, FindStream, FindSource, NoClient, StartFails, Goto, Holds, RequestRecords,
        RequestPlaces, BootPlaces, Types, DataTypes, RequestTypes, shared
  <2>3. DataTypes' /\ ClientTypes'
    BY <1>5 DEF CheckRunning, FindStream, FindSource, NoClient, Types, DataTypes, ClientTypes, shared
  <2> QED
    BY <1>5, <2>2, <2>3, <1>0, OthersStay
    DEF CheckRunning, FindStream, FindSource, NoClient, Types, DataTypes, shared
<1>6. ASSUME NEW r \in Goroutines, CreateClient(r) PROVE Types'
  <2>1. req' = [req EXCEPT ![r] = req'[r]] /\ Holds(r)'
    BY <1>1, <1>6 DEF CreateClient, Holds, RequestRecords, RequestPlaces, BootPlaces,
                      Types, DataTypes, RequestTypes
  <2>2. DataTypes'
    BY <1>6 DEF CreateClient, Types, DataTypes
  <2>3. DEFINE client == [state |-> "live", source |-> req[r].row.source, stream |-> req[r].stream]
  <2>4. client \in ClientRecords /\ client.stream <= streams /\ client.state # "none"
    BY <1>1 DEF Holds, RequestRecords, ClientRecords
  <2>5. clients' = [clients EXCEPT ![made + 1] = client] /\ streams' = streams /\ made' = made + 1
    BY <1>6 DEF CreateClient
  <2> HIDE DEF client
  <2>6. ClientTypes'
    <3>1. clients' \in [Objects -> ClientRecords]
      BY <2>4, <2>5 DEF Types, ClientTypes
    <3>2. \A c \in Objects : clients'[c] = IF c = made + 1 THEN client ELSE clients[c]
      BY <2>5 DEF Types, ClientTypes
    <3>3. \A c \in Objects : c \in Nat
      BY BoundsAssumption DEF Objects, MaxObjects
    <3>4. ASSUME NEW c \in Objects
          PROVE  clients'[c].stream <= streams' /\ (clients'[c].state = "none" <=> c > made')
      BY <2>4, <2>5, <3>2, <3>3 DEF Types, DataTypes, ClientTypes
    <3> QED
      BY <3>1, <3>4 DEF ClientTypes
  <2> QED
    BY <1>6, <2>1, <2>2, <2>5, <2>6, <1>0, OthersStay DEF Types, DataTypes
<1>7. ASSUME NEW r \in Goroutines, StoreClient(r) PROVE Types'
  <2>1. req' = [req EXCEPT ![r] = req'[r]] /\ Holds(r)'
    BY <1>1, <1>7 DEF StoreClient, Goto, Holds, RequestRecords, RequestPlaces, BootPlaces, Types,
                      RequestTypes
  <2>2. DataTypes' /\ ClientTypes'
    BY <1>1, <1>7 DEF StoreClient, Holds, RequestRecords, Types, DataTypes, ClientTypes
  <2> QED
    BY <1>7, <2>1, <2>2, <1>0, OthersStay DEF StoreClient, Types, DataTypes
<1>8. ASSUME NEW r \in Requests, RemoveMuxer(r) \/ LookupClient(r) PROVE Types'
  <2>1. req' = [req EXCEPT ![r] = req'[r]] /\ Holds(r)'
    BY <1>1, <1>8 DEF RemoveMuxer, LookupClient, AfterStop, Goto, Holds, RequestRecords, RequestPlaces,
                      Types, DataTypes, RequestTypes, shared
  <2>2. DataTypes' /\ ClientTypes'
    BY <1>8 DEF RemoveMuxer, LookupClient, Types, DataTypes, ClientTypes, shared
  <2> QED
    BY <1>8, <2>1, <2>2, <1>0, OthersStay DEF RemoveMuxer, LookupClient, Types, DataTypes, shared
<1>9. ASSUME NEW r \in Requests, StopClient(r) PROVE Types'
  <2>1. req' = [req EXCEPT ![r] = req'[r]] /\ Holds(r)'
    BY <1>1, <1>9, ZenonT(40) DEF StopClient, Goto, Holds, RequestRecords, RequestPlaces, Types, RequestTypes
  <2>2. clients' \in [Objects -> ClientRecords]
    <3>1. PICK state \in {"stopped", "stray"} :
            clients' = [clients EXCEPT ![req[r].client].state = state]
      BY <1>9 DEF StopClient, Stopped
    <3> QED
      BY <3>1 DEF ClientRecords, Types, ClientTypes
  <2>3. \A c \in Objects : /\ clients'[c].stream = clients[c].stream
                           /\ c # req[r].client => clients'[c] = clients[c]
                           /\ c = req[r].client => clients'[c].state \in {"stopped", "stray"} /\ c <= made
    BY <1>1, <1>9 DEF StopClient, Stopped, Holds, ClientRecords, Types, ClientTypes
  <2>4. DataTypes' /\ ClientTypes'
    BY <1>9, <2>2, <2>3 DEF StopClient, Objects, Types, DataTypes, ClientTypes
  <2> QED
    BY <1>9, <2>1, <2>4, <1>0, OthersStay DEF StopClient, Types, DataTypes
<1>10. ASSUME NEW r \in Requests, Unmap(r) \/ RemoveObject(r) PROVE Types'
  <2>1. req' = [req EXCEPT ![r] = req'[r]] /\ Holds(r)'
    BY <1>1, <1>10 DEF Unmap, RemoveObject, AfterStop, Goto, Holds, RequestRecords, RequestPlaces,
                      Types, RequestTypes
  <2>2. DataTypes' /\ ClientTypes'
    BY <1>10 DEF Unmap, RemoveObject, Types, DataTypes, ClientTypes, None
  <2> QED
    BY <1>10, <2>1, <2>2, <1>0, OthersStay DEF Unmap, RemoveObject, Types, DataTypes
<1>11. CASE SyncConfig \/ ListRows \/ BootObject \/ BootStream
  <2>1. db' \in {NoRow} \cup Rows
    BY <1>11, SourcesAssumption, FlagsAssumption
    DEF SyncConfig, ListRows, BootObject, BootStream, Types, DataTypes, Rows, shared
  <2>2. req' = [req EXCEPT ![Boot] = req'[Boot]] /\ Holds(Boot)'
    BY <1>1, <1>11, AnyRow
    DEF SyncConfig, ListRows, BootObject, BootStream, StartFails, Goto, Holds, RequestRecords, BootPlaces,
        Types, DataTypes, RequestTypes, shared
  <2>3. DataTypes' /\ ClientTypes' /\ streams <= streams' /\ made' = made
    BY <1>11, <2>1
    DEF SyncConfig, ListRows, BootObject, BootStream, Types, DataTypes, ClientTypes, ClientRecords,
        shared, None
  <2> QED
    BY <2>2, <2>3, <1>0, OthersStay DEF Types, DataTypes
<1>12. ASSUME NEW c \in Objects, Connect(c) \/ GiveUp(c) \/ StrayEnds(c) PROVE Types'
  <2>1. RequestTypes'
    BY <1>12 DEF Connect, GiveUp, StrayEnds, Types, RequestTypes, Holds
  <2>2. DataTypes' /\ ClientTypes'
    BY <1>12, ZenonT(40) DEF Connect, GiveUp, StrayEnds, Types, DataTypes, ClientTypes, ClientRecords
  <2> QED
    BY <1>0, <2>1, <2>2 DEF Types
<1>13. CASE Crash
  <2>1. req' \in [Goroutines -> RequestRecords]
    BY <1>1, <1>13 DEF Crash, RequestRecords, RequestPlaces, BootPlaces
  <2>2. ASSUME NEW r \in Goroutines PROVE Holds(r)'
    BY <1>1, <1>13, <2>1 DEF Crash, Holds, RequestRecords, RequestPlaces, BootPlaces
  <2>3. ClientTypes'
    BY <1>13 DEF Crash, ClientRecords, Types, ClientTypes
  <2>4. DataTypes'
    BY <1>13, BoundsAssumption DEF Crash, Types, DataTypes, None
  <2> QED
    BY <1>0, <2>1, <2>2, <2>3, <2>4 DEF Types, RequestTypes
<1>14. CASE UNCHANGED vars
  BY <1>0, <1>14 DEF vars, shared, Types, DataTypes, ClientTypes, RequestTypes, Holds
<1> QED
  BY <1>2, <1>3, <1>4, <1>5, <1>6, <1>7, <1>8, <1>9, <1>10, <1>11, <1>12, <1>13, <1>14
  DEF Next, Handle, Start, Stop, Load

----------------------------------------------------------------------------
(* The bound: a request makes at most one object and one client, and so    *)
(* does every start of the process.                                        *)

PastObject == {r \in Requests : req[r].pc \notin {"idle", "row", "object", "path", "pathObject"}}
PastClient == {r \in Requests : req[r].pc \in {"store", "done"}}

BootMadeObject == IF req[Boot].pc \in {"config", "list", "bootObject"} THEN 0 ELSE 1
BootMadeClient == IF req[Boot].pc \in {"store", "done"} THEN 1 ELSE 0

Bounded ==
    /\ streams <= crashes + BootMadeObject + Cardinality(PastObject)
    /\ made <= crashes + BootMadeClient + Cardinality(PastClient)

LEMMA RequestsAreFinite == IsFiniteSet(Requests) /\ Cardinality(Requests) = MaxRequests
  BY FS_Interval, BoundsAssumption DEF Requests

LEMMA Counting ==
    ASSUME NEW S \in SUBSET Requests, NEW T \in SUBSET Requests, S \subseteq T
    PROVE  /\ Cardinality(S) \in Nat /\ Cardinality(T) \in Nat
           /\ Cardinality(S) <= Cardinality(T) /\ Cardinality(T) <= MaxRequests
           /\ S # T => Cardinality(S) < Cardinality(T)
<1>1. IsFiniteSet(S) /\ IsFiniteSet(T)
  BY RequestsAreFinite, FS_Subset
<1>2. Cardinality(S) \in Nat /\ Cardinality(T) \in Nat
  BY <1>1, FS_CardinalityType
<1>3. Cardinality(S) <= Cardinality(T) /\ Cardinality(T) <= MaxRequests
  BY <1>1, RequestsAreFinite, FS_Subset
<1>4. S # T => Cardinality(S) < Cardinality(T)
  BY <1>1, <1>2, <1>3, FS_Subset
<1> QED
  BY <1>2, <1>3, <1>4

LEMMA BoundedInit == Init => Bounded
<1> SUFFICES ASSUME Init PROVE Bounded
  OBVIOUS
<1>1. Cardinality(PastObject) \in Nat /\ Cardinality(PastClient) \in Nat
  BY Counting DEF PastObject, PastClient
<1> QED
  BY <1>1 DEF Init, Bounded, BootMadeObject, BootMadeClient

LEMMA BoundedNext == Types /\ Bounded /\ [Next]_vars => Bounded'
<1> SUFFICES ASSUME Types, Bounded, [Next]_vars PROVE Bounded'
  OBVIOUS
<1> USE BootIsNoRequest
<1>1. /\ PastObject \in SUBSET Requests /\ PastObject' \in SUBSET Requests
      /\ PastClient \in SUBSET Requests /\ PastClient' \in SUBSET Requests
  BY DEF PastObject, PastClient
<1>2. /\ streams \in Nat /\ made \in Nat /\ crashes \in Nat
      /\ BootMadeObject \in {0, 1} /\ BootMadeClient \in {0, 1}
      /\ req[Boot].pc \in BootPlaces
  BY BoundsAssumption DEF Types, DataTypes, RequestTypes, Holds, BootMadeObject, BootMadeClient
\* Most steps make nothing, and let nobody forget what it has made.
<1>3. ASSUME streams' = streams, made' = made, crashes' = crashes,
             BootMadeObject' >= BootMadeObject, BootMadeObject' \in {0, 1},
             BootMadeClient' >= BootMadeClient, BootMadeClient' \in {0, 1},
             PastObject \subseteq PastObject', PastClient \subseteq PastClient'
      PROVE  Bounded'
  <2>1. /\ Cardinality(PastObject) <= Cardinality(PastObject)'
        /\ Cardinality(PastClient) <= Cardinality(PastClient)'
        /\ Cardinality(PastObject) \in Nat /\ Cardinality(PastObject)' \in Nat
        /\ Cardinality(PastClient) \in Nat /\ Cardinality(PastClient)' \in Nat
    BY <1>1, <1>3, Counting
  <2> QED
    BY <1>2, <1>3, <2>1 DEF Bounded
<1>4. ASSUME NEW r \in Requests, req' = [req EXCEPT ![r] = req'[r]]
      PROVE  req'[Boot] = req[Boot] /\ \A q \in Requests : q # r => req'[q] = req[q]
  BY <1>4 DEF Types, RequestTypes
<1>5. ASSUME NEW r \in Requests, NEW kind \in Kinds, NEW row \in Bodies(kind), Arrive(r, kind, row)
      PROVE  Bounded'
  <2>1. req' = [req EXCEPT ![r] = req'[r]] /\ req[r].pc = "idle"
    BY <1>5 DEF Arrive, Types, RequestTypes
  <2>2. PastObject \subseteq PastObject' /\ PastClient \subseteq PastClient'
    BY <1>4, <2>1 DEF PastObject, PastClient
  <2> QED
    BY <1>2, <1>3, <1>4, <1>5, <2>1, <2>2 DEF Arrive, shared, BootMadeObject, BootMadeClient
<1>6. ASSUME NEW r \in Requests, InsertRow(r) \/ UpdateRow(r) \/ DeleteRow(r) \/ FindPath(r)
      PROVE  Bounded'
  <2>1. req' = [req EXCEPT ![r] = req'[r]] /\ req[r].pc \in {"row", "path"}
    BY <1>6 DEF InsertRow, UpdateRow, DeleteRow, FindPath, Goto, Types, RequestTypes
  <2>2. PastObject \subseteq PastObject' /\ PastClient \subseteq PastClient'
    BY <1>4, <2>1 DEF PastObject, PastClient
  <2> QED
    BY <1>2, <1>3, <1>4, <1>6, <2>1, <2>2
    DEF InsertRow, UpdateRow, DeleteRow, FindPath, ghosts, BootMadeObject, BootMadeClient
<1>7. ASSUME NEW r \in Requests,
             \/ CheckRunning(r) \/ FindStream(r) \/ FindSource(r) \/ NoClient(r) \/ StoreClient(r)
             \/ Stop(r) \/ RemoveObject(r)
      PROVE  Bounded'
  <2>1. /\ req' = [req EXCEPT ![r] = req'[r]]
        /\ req'[r].pc \notin {"idle", "row", "object", "path", "pathObject"}
        /\ req[r].pc = "store" => req'[r].pc = "done"
        /\ req[r].pc # "done"
    BY <1>7 DEF CheckRunning, FindStream, FindSource, NoClient, StartFails, StoreClient, Stop, RemoveMuxer, LookupClient,
                StopClient, Unmap, RemoveObject, AfterStop, Goto, Types, RequestTypes, RequestRecords
  <2>2. PastObject \subseteq PastObject' /\ PastClient \subseteq PastClient'
    BY <1>4, <2>1 DEF PastObject, PastClient
  <2>3. streams' = streams /\ made' = made /\ crashes' = crashes
    BY <1>7 DEF CheckRunning, FindStream, FindSource, NoClient, StartFails, StoreClient, Stop, RemoveMuxer, LookupClient,
                StopClient, Unmap, RemoveObject, shared
  <2> QED
    BY <1>2, <1>3, <1>4, <2>1, <2>2, <2>3 DEF BootMadeObject, BootMadeClient
<1>8. ASSUME NEW r \in Requests, CreateObject(r) \/ MakePath(r) PROVE Bounded'
  <2>1. /\ req' = [req EXCEPT ![r] = req'[r]]
        /\ req[r].pc \in {"object", "pathObject"}
        /\ req'[r].pc \notin {"idle", "row", "object", "path", "pathObject"}
    BY <1>8 DEF CreateObject, MakePath, Goto, Types, RequestTypes, RequestRecords
  <2>2. /\ PastObject \subseteq PastObject' /\ PastClient \subseteq PastClient'
        /\ r \in PastObject' /\ r \notin PastObject
    BY <1>4, <2>1 DEF PastObject, PastClient
  <2>3. /\ Cardinality(PastObject) + 1 <= Cardinality(PastObject)'
        /\ Cardinality(PastClient) <= Cardinality(PastClient)'
        /\ Cardinality(PastObject) \in Nat /\ Cardinality(PastObject)' \in Nat
        /\ Cardinality(PastClient) \in Nat /\ Cardinality(PastClient)' \in Nat
    BY <1>1, <2>2, Counting
  <2>4. /\ streams' \in {streams, streams + 1} /\ made' = made /\ crashes' = crashes
        /\ BootMadeObject' = BootMadeObject /\ BootMadeClient' = BootMadeClient
    BY <1>4, <1>8, <2>1 DEF CreateObject, MakePath, BootMadeObject, BootMadeClient
  <2> QED
    BY <1>2, <2>3, <2>4 DEF Bounded
<1>9. ASSUME NEW r \in Requests, CreateClient(r) PROVE Bounded'
  <2>1. req' = [req EXCEPT ![r] = req'[r]] /\ req[r].pc = "client" /\ req'[r].pc = "store"
    BY <1>9 DEF CreateClient, Types, RequestTypes, RequestRecords
  <2>2. /\ PastObject \subseteq PastObject' /\ PastClient \subseteq PastClient'
        /\ r \in PastClient' /\ r \notin PastClient
    BY <1>4, <2>1 DEF PastObject, PastClient
  <2>3. /\ Cardinality(PastObject) <= Cardinality(PastObject)'
        /\ Cardinality(PastClient) + 1 <= Cardinality(PastClient)'
        /\ Cardinality(PastObject) \in Nat /\ Cardinality(PastObject)' \in Nat
        /\ Cardinality(PastClient) \in Nat /\ Cardinality(PastClient)' \in Nat
    BY <1>1, <2>2, Counting
  <2>4. /\ streams' = streams /\ made' = made + 1 /\ crashes' = crashes
        /\ BootMadeObject' = BootMadeObject /\ BootMadeClient' = BootMadeClient
    BY <1>4, <1>9, <2>1 DEF CreateClient, BootMadeObject, BootMadeClient
  <2> QED
    BY <1>2, <2>3, <2>4 DEF Bounded
<1>10. CASE Load
  <2>1. PastObject' = PastObject /\ PastClient' = PastClient /\ crashes' = crashes
    BY <1>10 DEF Load, SyncConfig, ListRows, BootObject, BootStream, CreateClient, NoClient, StoreClient,
                 StartFails, Goto,
                 PastObject, PastClient, Types, RequestTypes, shared
  <2>2. Cardinality(PastObject) \in Nat /\ Cardinality(PastClient) \in Nat
    BY <1>1, Counting
  <2>3. /\ BootMadeObject' \in {0, 1} /\ BootMadeClient' \in {0, 1}
        /\ streams' \in {streams, streams + 1} /\ made' \in {made, made + 1}
        /\ streams' # streams => BootMadeObject = 0 /\ BootMadeObject' = 1
        /\ made' # made => BootMadeClient = 0 /\ BootMadeClient' = 1
        /\ BootMadeObject <= BootMadeObject' /\ BootMadeClient <= BootMadeClient'
    BY <1>2, <1>10
    DEF Load, SyncConfig, ListRows, BootObject, BootStream, CreateClient, NoClient, StoreClient,
                 StartFails, Goto,
        BootMadeObject, BootMadeClient, Types, RequestTypes, RequestRecords, BootPlaces, shared
  <2>4. streams' \in Nat /\ made' \in Nat
    BY TypesNext DEF Types, DataTypes
  <2> QED
    BY <1>2, <2>1, <2>2, <2>3, <2>4 DEF Bounded
<1>11. ASSUME NEW c \in Objects, Connect(c) \/ GiveUp(c) \/ StrayEnds(c) PROVE Bounded'
  BY <1>11 DEF Connect, GiveUp, StrayEnds, Bounded, BootMadeObject, BootMadeClient, PastObject, PastClient
<1>12. CASE Crash
  <2>1. PastObject \subseteq PastObject' /\ PastClient \subseteq PastClient'
    BY <1>12 DEF Crash, PastObject, PastClient, Types, RequestTypes, RequestRecords
  <2>2. /\ Cardinality(PastObject) <= Cardinality(PastObject)'
        /\ Cardinality(PastClient) <= Cardinality(PastClient)'
        /\ Cardinality(PastObject) \in Nat /\ Cardinality(PastObject)' \in Nat
        /\ Cardinality(PastClient) \in Nat /\ Cardinality(PastClient)' \in Nat
    BY <1>1, <2>1, Counting
  <2>3. /\ streams' = streams /\ made' = made /\ crashes' = crashes + 1
        /\ BootMadeObject' = 0 /\ BootMadeClient' = 0
    BY <1>12 DEF Crash, BootMadeObject, BootMadeClient, Types, RequestTypes, RequestRecords
  <2> QED
    BY <1>2, <2>2, <2>3 DEF Bounded
<1>13. CASE UNCHANGED vars
  BY <1>13 DEF vars, shared, Bounded, BootMadeObject, BootMadeClient, PastObject, PastClient
<1> QED
  BY <1>5, <1>6, <1>7, <1>8, <1>9, <1>10, <1>11, <1>12, <1>13 DEF Next, Handle, Start

\* So every object that is made has a number.
LEMMA BoundHolds == Types /\ Bounded => streams <= MaxObjects /\ made <= MaxObjects
<1> SUFFICES ASSUME Types, Bounded PROVE streams <= MaxObjects /\ made <= MaxObjects
  OBVIOUS
<1>1. /\ Cardinality(PastObject) \in 0..MaxRequests /\ Cardinality(PastClient) \in 0..MaxRequests
      /\ PastObject \subseteq Requests /\ PastClient \subseteq Requests
  BY Counting, BoundsAssumption DEF PastObject, PastClient
<1> QED
  BY <1>1, BoundsAssumption
  DEF Bounded, BootMadeObject, BootMadeClient, MaxObjects, Types, DataTypes

LEMMA InvariantTypes == Types /\ Bounded => TypeOK
<1> SUFFICES ASSUME Types, Bounded PROVE TypeOK
  OBVIOUS
<1>1. streams \in 0..MaxObjects /\ made \in 0..MaxObjects /\ MaxObjects \in Nat
  BY BoundHolds, BoundsAssumption DEF Types, DataTypes, MaxObjects
<1>2. clients \in [Objects -> [state : {"none", "live", "stray", "stopped", "gaveUp"},
                               source : Sources \cup {NoSource}, stream : 0..MaxObjects]]
  BY <1>1 DEF Types, ClientTypes, DataTypes, ClientRecords
<1> QED
  BY <1>1, <1>2 DEF Types, DataTypes, FlagTypes, ClientTypes, TypeOK

\* What the variables hold; every stream object and client gets a number of its own and the
\* numbers suffice.
THEOREM TypeCorrect == Spec => []TypeOK
<1>1. Init => Types /\ Bounded
  BY TypesInit, BoundedInit
<1>2. Types /\ Bounded /\ [Next]_vars => Types' /\ Bounded'
  BY TypesNext, BoundedNext
<1> QED
  BY <1>1, <1>2, InvariantTypes, PTL DEF Spec

----------------------------------------------------------------------------
(* A stopped client leaves rtspClients.  What makes it inductive is that a *)
(* client on its way into the map is known to nobody but the goroutine     *)
(* that made it, so no stopped client can come into the map again.         *)

Unknown(r) ==
    req[r].pc = "store" =>
        /\ req[r].client \in 1..made /\ req[r].client # running
        /\ clients[req[r].client].state \notin {"stopped", "stray"}
        /\ \A q \in Goroutines \ {r} : req[q].client # req[r].client

StoppedInv == (\A r \in Goroutines : Unknown(r)) /\ StoppedClientLeaves

Inv == Types /\ Bounded /\ StoppedInv

LEMMA InvTyped ==
    Inv => /\ req \in [Goroutines -> RequestRecords] /\ clients \in [Objects -> ClientRecords]
           /\ made \in Nat /\ running \in 0..made /\ 1..made \subseteq Objects
           /\ \A r \in Goroutines : req[r] \in RequestRecords /\ req[r].client \in 0..made
  BY BoundHolds, BoundsAssumption
  DEF Inv, Types, DataTypes, ClientTypes, RequestTypes, Holds, RequestRecords, Objects, MaxObjects

LEMMA StoppedInit == Init => StoppedInv
  BY DEF Init, StoppedInv, Unknown, StoppedClientLeaves, Goroutines, Boot

LEMMA StoppedNext == Inv /\ [Next]_vars => StoppedInv'
<1> SUFFICES ASSUME Inv, [Next]_vars PROVE StoppedInv'
  OBVIOUS
<1> USE BootIsNoRequest
<1>1. /\ req \in [Goroutines -> RequestRecords] /\ clients \in [Objects -> ClientRecords]
      /\ made \in Nat /\ running \in 0..made /\ 1..made \subseteq Objects
      /\ \A r \in Goroutines : req[r] \in RequestRecords /\ req[r].client \in 0..made
  BY InvTyped
<1>2. StoppedClientLeaves /\ \A r \in Goroutines : Unknown(r)
  BY DEF Inv, StoppedInv
\* Most steps leave the clients alone, and put no client into the map or on its way.
<1>3. ASSUME NEW r \in Goroutines, clients' = clients, made' = made, running' \in {running, None},
             req' = [req EXCEPT ![r] = req'[r]], req'[r].pc # "store",
             req'[r].client \in {req[r].client, running, None},
             req[r].pc = "unmap" => running' = None
      PROVE  StoppedInv'
  <2>1. ASSUME NEW q \in Goroutines PROVE Unknown(q)'
    <3>1. CASE q = r
      BY <1>1, <1>3, <3>1 DEF Unknown
    <3>2. CASE q # r
      <4>1. req'[q] = req[q]
        BY <1>1, <1>3, <3>2
      <4> QED
        BY <1>1, <1>2, <1>3, <4>1 DEF Unknown, None
    <3> QED
      BY <3>1, <3>2
  <2>2. StoppedClientLeaves'
    <3>1. CASE running' = None
      BY <3>1 DEF StoppedClientLeaves
    <3>2. CASE running' # None
      <4>1. running' = running /\ req[r].pc # "unmap"
        BY <1>3, <3>2
      <4>2. \A q \in Requests : req[q].pc = "unmap" => req'[q].pc = "unmap"
        BY <1>1, <1>3, <4>1
      <4> QED
        BY <1>2, <1>3, <4>1, <4>2 DEF StoppedClientLeaves
    <3> QED
      BY <3>1, <3>2
  <2> QED
    BY <2>1, <2>2 DEF StoppedInv
<1>4. ASSUME NEW r \in Requests, NEW kind \in Kinds, NEW row \in Bodies(kind), Arrive(r, kind, row)
      PROVE  StoppedInv'
  <2>1. /\ clients' = clients /\ made' = made /\ running' = running
        /\ req' = [req EXCEPT ![r] = req'[r]]
        /\ req'[r].pc # "store" /\ req'[r].client = None /\ req[r].pc # "unmap"
    BY <1>1, <1>4 DEF Arrive, FirstStep, shared
  <2> QED
    BY <1>3, <2>1
<1>5. ASSUME NEW r \in Requests,
             \/ InsertRow(r) \/ UpdateRow(r) \/ DeleteRow(r) \/ CreateObject(r)
             \/ FindPath(r) \/ MakePath(r)
             \/ CheckRunning(r) \/ FindStream(r) \/ FindSource(r) \/ NoClient(r)
             \/ RemoveMuxer(r) \/ LookupClient(r) \/ Unmap(r) \/ RemoveObject(r)
      PROVE  StoppedInv'
  <2>1. /\ clients' = clients /\ made' = made /\ running' \in {running, None}
        /\ req' = [req EXCEPT ![r] = req'[r]]
        /\ req'[r].pc # "store" /\ req'[r].client \in {req[r].client, running}
        /\ req[r].pc = "unmap" => running' = None
    BY <1>1, <1>5
    DEF InsertRow, UpdateRow, DeleteRow, CreateObject, FindPath, MakePath, CheckRunning, FindStream,
        FindSource, NoClient, StartFails,
        RemoveMuxer, LookupClient, Unmap, RemoveObject, AfterStop, Goto, RequestRecords, shared
  <2> QED
    BY <1>3, <2>1
<1>6. CASE SyncConfig \/ ListRows \/ BootObject \/ BootStream \/ NoClient(Boot)
  <2>1. /\ clients' = clients /\ made' = made /\ running' = running
        /\ req' = [req EXCEPT ![Boot] = req'[Boot]]
        /\ req'[Boot].pc # "store" /\ req'[Boot].client = req[Boot].client
        /\ req[Boot].pc # "unmap"
    BY <1>1, <1>6 DEF SyncConfig, ListRows, BootObject, BootStream, NoClient, StartFails, Goto,
                     RequestRecords, shared
  <2> QED
    BY <1>3, <2>1
<1>7. ASSUME NEW r \in Goroutines, CreateClient(r) PROVE StoppedInv'
  <2>1. /\ made' = made + 1 /\ running' = running /\ made' \in Objects
        /\ clients'[made'].state = "live"
        /\ \A c \in 1..made : clients'[c] = clients[c]
    <3>1. made' = made + 1 /\ running' = running
      BY <1>7 DEF CreateClient
    <3>2. made' \in Objects
      <4>1. Types' /\ Bounded'
        BY TypesNext, BoundedNext DEF Inv
      <4>2. (Types /\ Bounded => made <= MaxObjects)'
        BY BoundHolds, PTL
      <4> QED
        BY <1>1, <3>1, <4>1, <4>2, BoundsAssumption DEF Objects, MaxObjects
    <3> QED
      BY <1>1, <1>7, <3>1, <3>2 DEF CreateClient
  <2>2. /\ req'[r].client = made + 1
        /\ req[r].pc = "client" /\ req'[r].pc = "store"
        /\ \A q \in Goroutines : q # r => req'[q] = req[q]
    BY <1>1, <1>7 DEF CreateClient, RequestRecords
  <2>3. ASSUME NEW q \in Goroutines PROVE Unknown(q)'
    BY <1>1, <1>2, <2>1, <2>2 DEF Unknown
  <2>4. StoppedClientLeaves'
    BY <1>1, <1>2, <2>1, <2>2 DEF StoppedClientLeaves, None
  <2> QED
    BY <2>3, <2>4 DEF StoppedInv
<1>8. ASSUME NEW r \in Goroutines, StoreClient(r) PROVE StoppedInv'
  <2>1. /\ clients' = clients /\ made' = made /\ running' = req[r].client
        /\ req[r].pc = "store" /\ req'[r].pc = "done" /\ req'[r].client = req[r].client
        /\ \A q \in Goroutines : q # r => req'[q] = req[q]
    BY <1>1, <1>8 DEF StoreClient, Goto, RequestRecords
  <2>2. ASSUME NEW q \in Goroutines PROVE Unknown(q)'
    BY <1>1, <1>2, <2>1 DEF Unknown
  <2>3. StoppedClientLeaves'
    BY <1>2, <2>1 DEF StoppedClientLeaves, Unknown
  <2> QED
    BY <2>2, <2>3 DEF StoppedInv
<1>9. ASSUME NEW r \in Requests, StopClient(r) PROVE StoppedInv'
  <2>1. /\ made' = made /\ running' = running
        /\ \A c \in Objects : c # req[r].client => clients'[c] = clients[c]
        /\ req[r].pc = "stop" /\ req'[r].pc = "unmap" /\ req'[r].client = req[r].client
        /\ \A q \in Goroutines : q # r => req'[q] = req[q]
    BY <1>1, <1>9 DEF StopClient, Goto, RequestRecords, ClientRecords
  <2>2. ASSUME NEW q \in Goroutines PROVE Unknown(q)'
    BY <1>1, <1>2, <2>1 DEF Unknown
  <2>3. StoppedClientLeaves'
    BY <2>1 DEF StoppedClientLeaves
  <2> QED
    BY <2>2, <2>3 DEF StoppedInv
<1>10. ASSUME NEW c \in Objects, Connect(c) \/ GiveUp(c) \/ StrayEnds(c) PROVE StoppedInv'
  <2>1. /\ made' = made /\ running' = running /\ req' = req
        /\ \A d \in Objects : clients'[d].state \in {"stopped", "stray"} =>
                              clients[d].state \in {"stopped", "stray"}
    BY <1>1, <1>10 DEF Connect, GiveUp, StrayEnds, ClientRecords
  <2> QED
    BY <1>1, <1>2, <2>1 DEF StoppedInv, Unknown, StoppedClientLeaves, None
<1>11. CASE Crash
  BY <1>1, <1>11 DEF Crash, StoppedInv, Unknown, StoppedClientLeaves, RequestRecords
<1>12. CASE UNCHANGED vars
  BY <1>2, <1>12 DEF vars, shared, StoppedInv, Unknown, StoppedClientLeaves
<1> QED
  BY <1>4, <1>5, <1>6, <1>7, <1>8, <1>9, <1>10, <1>11, <1>12
  DEF Next, Handle, Start, Stop, Load

LEMMA InvHolds == Spec => []Inv
<1>1. Init => Inv
  BY TypesInit, BoundedInit, StoppedInit DEF Inv
<1>2. Inv /\ [Next]_vars => Inv'
  BY TypesNext, BoundedNext, StoppedNext DEF Inv
<1> QED
  BY <1>1, <1>2, PTL DEF Spec

\* However requests interleave, the next start does not take a stopped client for a running one:
\* startOnDemandStream (main.go:903) finds one only while its stopStream is about to delete it.
THEOREM StoppedClientLeavesHolds == Spec => []StoppedClientLeaves
<1>1. Inv => StoppedClientLeaves
  BY DEF Inv, StoppedInv
<1> QED
  BY <1>1, InvHolds, PTL

----------------------------------------------------------------------------
(* Requests of the streams API one at a time.  Phase says for each place   *)
(* of the only goroutine under way how row, object and client stand.       *)

StreamsApi == {"create", "update", "delete", "start", "rtsp"}

Active(r) == req[r].pc \notin {"idle", "done"}
Alone == \A r, q \in Goroutines : Active(r) /\ Active(q) => r = q

\* Unless config.yaml has a source for the id, it is the row's that is read.
ReadsRow(source) == ConfigSource = NoSource => db # NoRow /\ source = db.source

ObjectPerRow ==
    /\ db # NoRow => stream # None \/ unloaded
    /\ stream # None => db # NoRow \/ stream = rtspPath
NoneLive == running = None /\ \A c \in Objects : clients[c].state # "live"
OnlyRunningLive == \A c \in Objects : clients[c].state = "live" => c = running
RunningServes ==
    running # None => /\ clients[running].state \notin {"stopped", "stray"}
                      /\ clients[running].stream = stream /\ stream # None
                      /\ ReadsRow(clients[running].source)
Agree == ObjectPerRow /\ OnlyRunningLive /\ RunningServes

Settled ==
    Agree /\ (db # NoRow /\ ~db.onDemand => running # None \/ startFailed \/ unloaded)

\* An update or a delete has written the row and not yet dealt with the client.
Written(r) ==
    /\ req[r].kind \in {"update", "delete"}
    /\ req[r].kind = "update" =>
         db # NoRow /\ ObjectPerRow /\ db.onDemand = req[r].row.onDemand
    /\ req[r].kind = "delete" => db = NoRow

\* A client is being made for the id, and there is none yet.
Starting(r) == ObjectPerRow /\ stream # None /\ NoneLive /\ req[r].stream = stream

Phase(r) ==
    LET at(place) == req[r].pc = place IN
    /\ at("row") => Settled /\ req[r].kind \in {"create", "update", "delete"}
    /\ at("path") => Settled
    /\ at("pathObject") => Settled /\ stream = None
    /\ at("object") =>
         /\ db # NoRow /\ OnlyRunningLive /\ RunningServes
         /\ db.onDemand = req[r].row.onDemand
    /\ at("check") => Agree
    /\ at("stream") => ObjectPerRow /\ NoneLive
    /\ at("source") => Starting(r)
    /\ at("client") => Starting(r) /\ ReadsRow(req[r].row.source)
    /\ at("store") =>
         /\ ObjectPerRow /\ stream # None /\ running = None
         /\ clients[req[r].client].stream = stream /\ ReadsRow(clients[req[r].client].source)
         /\ \A c \in Objects : clients[c].state = "live" => c = req[r].client
    /\ at("muxer") \/ at("lookup") => Written(r) /\ OnlyRunningLive
    /\ at("stop") => Written(r) /\ OnlyRunningLive /\ req[r].client = running
    /\ at("unmap") => Written(r) /\ \A c \in Objects : clients[c].state # "live"
    /\ at("remove") => db = NoRow /\ NoneLive
    /\ at("config") \/ at("list") => stream = None /\ NoneLive
    /\ at("bootObject") => db # NoRow /\ stream = None /\ NoneLive /\ req[r].row = db
    /\ at("bootStream") => db # NoRow /\ stream # None /\ NoneLive /\ req[r].row = db

SequentialInv ==
    ~overlapped =>
        Alone /\ (Idle => Settled) /\ \A r \in Goroutines : Active(r) => Phase(r)

LEMMA SequentialInit == Init => SequentialInv
<1> SUFFICES ASSUME Init PROVE SequentialInv
  OBVIOUS
<1>1. \A r \in Goroutines : Active(r) => r = Boot /\ req[r].pc = "config"
  BY DEF Init, Active
<1>2. Alone
  BY <1>1 DEF Alone
<1>3. ~Idle
  BY BootIsNoRequest DEF Init, Idle
<1>4. stream = None /\ NoneLive
  BY DEF Init, NoneLive
<1>5. \A r \in Goroutines : Active(r) => Phase(r)
  BY <1>1, <1>4 DEF Phase
<1> QED
  BY <1>2, <1>3, <1>5 DEF SequentialInv

LEMMA SequentialNext ==
    ASSUME Kinds \subseteq StreamsApi
    PROVE  Inv /\ SequentialInv /\ [Next]_vars => SequentialInv'
<1> SUFFICES ASSUME Inv, SequentialInv, [Next]_vars, ~overlapped' PROVE SequentialInv'
  BY DEF SequentialInv
<1> USE BootIsNoRequest
<1>1. /\ req \in [Goroutines -> RequestRecords] /\ clients \in [Objects -> ClientRecords]
      /\ made \in Nat /\ running \in 0..made /\ 1..made \subseteq Objects
      /\ \A r \in Goroutines : req[r] \in RequestRecords /\ req[r].client \in 0..made
  BY InvTyped
<1>2. /\ streams \in Nat /\ stream \in 0..streams /\ None \notin Objects
      /\ db = NoRow \/ (db \in Rows /\ db # NoRow /\ db.source # NoSource)
      /\ \A r \in Goroutines : Holds(r)
  BY AnyRow, BoundsAssumption DEF Inv, Types, DataTypes, RequestTypes, Objects, MaxObjects, None
\* A step of the only goroutine under way.
<1>3. ASSUME NEW r \in Goroutines, Active(r), ~overlapped,
             \A q \in Goroutines : q # r => req'[q] = req[q],
             IF Active(r)' THEN Phase(r)' ELSE Settled'
      PROVE  SequentialInv'
  <2>1. \A q \in Goroutines : Active(q)' => q = r
    BY <1>3 DEF SequentialInv, Alone, Active
  <2>2. Idle' => ~Active(r)'
    BY DEF Idle, Active
  <2> QED
    BY <1>3, <2>1, <2>2 DEF SequentialInv, Alone
<1>4. ASSUME NEW r \in Goroutines, Active(r), ~overlapped PROVE Phase(r)
  BY <1>4 DEF SequentialInv
<1>5. ASSUME NEW r \in Goroutines, NEW q \in Goroutines, q # r, req' = [req EXCEPT ![r] = req'[r]]
      PROVE  req'[q] = req[q]
  BY <1>1, <1>5
<1>6. ASSUME NEW r \in Requests, NEW kind \in Kinds, NEW row \in Bodies(kind), Arrive(r, kind, row)
      PROVE  SequentialInv'
  <2>1. /\ Idle /\ ~overlapped
        /\ db' = db /\ stream' = stream /\ running' = running /\ clients' = clients
        /\ rtspPath' = rtspPath /\ startFailed' = startFailed /\ unloaded' = unloaded
    BY <1>6 DEF Arrive, shared
  <2>2. /\ \A q \in Goroutines : q # r => req'[q] = req[q]
        /\ req'[r].pc = FirstStep(kind) /\ req'[r].kind = kind
    BY <1>1, <1>6 DEF Arrive
  <2>3. \A q \in Goroutines : Active(q)' => q = r
    BY <2>1, <2>2 DEF Idle, Active
  <2>4. Settled' /\ Agree'
    BY <2>1 DEF SequentialInv, Settled, Agree, ObjectPerRow, OnlyRunningLive, RunningServes, ReadsRow
  <2>5. Phase(r)' /\ Active(r)'
    BY <2>2, <2>4 DEF Phase, FirstStep, Active, StreamsApi
  <2>6. ~Idle'
    BY <2>5 DEF Idle, Active
  <2> QED
    BY <2>3, <2>5, <2>6 DEF SequentialInv, Alone
<1>7. ASSUME NEW r \in Requests, InsertRow(r) PROVE SequentialInv'
  <2>1. ~overlapped /\ Active(r) /\ req' = [req EXCEPT ![r] = req'[r]]
    BY <1>1, <1>7 DEF InsertRow, Goto, Active, RequestRecords, ghosts
  <2>2. Settled /\ req[r].kind = "create" /\ req[r].row \in Rows /\ req[r].row # NoRow
    BY <1>2, <1>4, <1>7, <2>1, AnyRow DEF InsertRow, Phase, Holds
  <2>3. /\ stream' = stream /\ running' = running /\ clients' = clients
        /\ rtspPath' = rtspPath /\ startFailed' = startFailed /\ unloaded' = unloaded
        /\ req'[r].row = req[r].row
        /\ \/ db = NoRow /\ db' = req[r].row /\ req'[r].pc = "object"
           \/ db' = db /\ req'[r].pc = "done"
    BY <1>1, <1>7, <2>2 DEF InsertRow, Goto, RequestRecords, ghosts
  <2>4. CASE db = NoRow /\ db' = req[r].row /\ req'[r].pc = "object"
    <3>1. Phase(r)'
      BY <2>2, <2>3, <2>4
      DEF Phase, Settled, Agree, OnlyRunningLive, RunningServes, ReadsRow
    <3> QED
      BY <1>3, <1>5, <2>1, <2>4, <3>1 DEF Active
  <2>5. CASE db' = db /\ req'[r].pc = "done"
    <3>1. Settled' /\ ~Active(r)'
      BY <2>2, <2>3, <2>5
      DEF Active, Settled, Agree, ObjectPerRow, OnlyRunningLive, RunningServes, ReadsRow
    <3> QED
      BY <1>3, <1>5, <2>1, <3>1
  <2> QED
    BY <2>3, <2>4, <2>5
<1>8. ASSUME NEW r \in Requests, UpdateRow(r) PROVE SequentialInv'
  <2>1. ~overlapped /\ Active(r) /\ req' = [req EXCEPT ![r] = req'[r]]
    BY <1>1, <1>8 DEF UpdateRow, Goto, Active, RequestRecords, ghosts
  <2>2. Settled /\ req[r].kind = "update" /\ req[r].row \in Rows /\ req[r].row # NoRow
    BY <1>2, <1>4, <1>8, <2>1, AnyRow DEF UpdateRow, Phase, Holds
  <2>3. /\ stream' = stream /\ running' = running /\ clients' = clients
        /\ rtspPath' = rtspPath /\ startFailed' = startFailed /\ unloaded' = unloaded
        /\ req'[r].row = req[r].row /\ req'[r].kind = "update"
        /\ \/ db # NoRow /\ db' = req[r].row /\ req'[r].pc = "muxer"
           \/ db' = db /\ req'[r].pc = "done"
    BY <1>1, <1>8, <2>2 DEF UpdateRow, Goto, RequestRecords, ghosts
  <2>4. CASE db # NoRow /\ db' = req[r].row /\ req'[r].pc = "muxer"
    <3>1. (Written(r) /\ OnlyRunningLive)'
      BY <2>2, <2>3, <2>4 DEF Settled, Agree, ObjectPerRow, OnlyRunningLive, Written
    <3>2. Phase(r)'
      BY <2>4, <3>1 DEF Phase
    <3> QED
      BY <1>3, <1>5, <2>1, <2>4, <3>2 DEF Active
  <2>5. CASE db' = db /\ req'[r].pc = "done"
    <3>1. Settled' /\ ~Active(r)'
      BY <2>2, <2>3, <2>5
      DEF Active, Settled, Agree, ObjectPerRow, OnlyRunningLive, RunningServes, ReadsRow
    <3> QED
      BY <1>3, <1>5, <2>1, <3>1
  <2> QED
    BY <2>3, <2>4, <2>5
<1>9. ASSUME NEW r \in Requests, DeleteRow(r) PROVE SequentialInv'
  <2>1. ~overlapped /\ Active(r) /\ req' = [req EXCEPT ![r] = req'[r]]
    BY <1>1, <1>9 DEF DeleteRow, ghosts, StartFails, Goto, Active, RequestRecords
  <2>2. Phase(r)
    BY <1>4, <2>1
  <2>3. IF Active(r)' THEN Phase(r)' ELSE Settled'
    BY <1>1, <1>2, <1>9, <2>2
    DEF DeleteRow, ghosts, StartFails, Goto, Active, Phase, RequestRecords,
        Settled, Agree, ObjectPerRow, OnlyRunningLive, RunningServes, ReadsRow, NoneLive, Starting, Written
  <2> QED
    BY <1>3, <1>5, <2>1, <2>3
<1>10. ASSUME NEW r \in Requests, CreateObject(r) PROVE SequentialInv'
  <2>1. ~overlapped /\ Active(r) /\ req' = [req EXCEPT ![r] = req'[r]]
    BY <1>1, <1>10 DEF CreateObject, ghosts, StartFails, Goto, Active, RequestRecords
  <2>2. Phase(r)
    BY <1>4, <2>1
  <2>3. IF Active(r)' THEN Phase(r)' ELSE Settled'
    BY <1>1, <1>2, <1>10, <2>2
    DEF CreateObject, ghosts, StartFails, Goto, Active, Phase, RequestRecords, None,
        Settled, Agree, ObjectPerRow, OnlyRunningLive, RunningServes, ReadsRow, NoneLive, Starting, Written
  <2> QED
    BY <1>3, <1>5, <2>1, <2>3
<1>11. ASSUME NEW r \in Requests, CheckRunning(r) PROVE SequentialInv'
  <2>1. ~overlapped /\ Active(r) /\ req' = [req EXCEPT ![r] = req'[r]]
    BY <1>1, <1>11 DEF CheckRunning, ghosts, StartFails, Goto, Active, RequestRecords, shared
  <2>2. Phase(r)
    BY <1>4, <2>1
  <2>3. IF Active(r)' THEN Phase(r)' ELSE Settled'
    BY <1>1, <1>2, <1>11, <2>2
    DEF CheckRunning, ghosts, StartFails, Goto, Active, Phase, RequestRecords, shared,
        Settled, Agree, ObjectPerRow, OnlyRunningLive, RunningServes, ReadsRow, NoneLive, Starting, Written
  <2> QED
    BY <1>3, <1>5, <2>1, <2>3
<1>12. ASSUME NEW r \in Requests, FindStream(r) PROVE SequentialInv'
  <2>1. ~overlapped /\ Active(r) /\ req' = [req EXCEPT ![r] = req'[r]]
    BY <1>1, <1>12 DEF FindStream, ghosts, StartFails, Goto, Active, RequestRecords, shared
  <2>2. Phase(r)
    BY <1>4, <2>1
  <2>3. IF Active(r)' THEN Phase(r)' ELSE Settled'
    BY <1>1, <1>2, <1>12, <2>2
    DEF FindStream, ghosts, StartFails, Goto, Active, Phase, RequestRecords, None, shared,
        Settled, Agree, ObjectPerRow, OnlyRunningLive, RunningServes, ReadsRow, NoneLive, Starting, Written
  <2> QED
    BY <1>3, <1>5, <2>1, <2>3
<1>13. ASSUME NEW r \in Requests, FindSource(r) PROVE SequentialInv'
  <2>1. ~overlapped /\ Active(r) /\ req' = [req EXCEPT ![r] = req'[r]]
    BY <1>1, <1>13, ZenonT(40) DEF FindSource, ghosts, StartFails, Goto, Active, RequestRecords, shared
  <2>2. Phase(r)
    BY <1>4, <2>1
  <2>3. /\ req[r].pc = "source" /\ Starting(r)
        /\ db' = db /\ stream' = stream /\ running' = running /\ clients' = clients
        /\ rtspPath' = rtspPath /\ unloaded' = unloaded
    BY <1>13, <2>2 DEF FindSource, Phase, shared
  <2>4. PICK source \in FoundSources :
          IF source = NoSource
          THEN req'[r].pc = "done" /\ startFailed'
          ELSE req'[r].pc = "client" /\ req'[r].row.source = source /\ req'[r].stream = req[r].stream
    BY <1>1, <1>13 DEF FindSource, StartFails, Goto, RequestRecords
  <2>5. CASE source = NoSource
    <3>1. Settled'
      BY <2>3, <2>4, <2>5
      DEF Starting, Settled, Agree, ObjectPerRow, NoneLive, OnlyRunningLive, RunningServes
    <3> QED
      BY <1>3, <1>5, <2>1, <2>4, <2>5, <3>1 DEF Active
  <2>6. CASE source # NoSource
    <3>1. ConfigSource = NoSource => db # NoRow /\ source = db.source
      BY <2>6 DEF FoundSources, NoRow
    <3>2. Phase(r)'
      BY <2>3, <2>4, <2>6, <3>1 DEF Phase, Starting, ObjectPerRow, NoneLive, ReadsRow
    <3> QED
      BY <1>3, <1>5, <2>1, <2>4, <2>6, <3>2 DEF Active
  <2> QED
    BY <2>5, <2>6
<1>14. ASSUME NEW r \in Goroutines, CreateClient(r) PROVE SequentialInv'
  <2>1. ~overlapped /\ Active(r) /\ req' = [req EXCEPT ![r] = req'[r]]
    BY <1>1, <1>14 DEF CreateClient, ghosts, StartFails, Goto, Active, RequestRecords
  <2>2. Phase(r)
    BY <1>4, <2>1
  <2>3. IF Active(r)' THEN Phase(r)' ELSE Settled'
    BY <1>1, <1>2, <1>14, <2>2
    DEF CreateClient, ghosts, StartFails, Goto, Active, Phase, RequestRecords, None, ClientRecords,
        Settled, Agree, ObjectPerRow, OnlyRunningLive, RunningServes, ReadsRow, NoneLive, Starting, Written
  <2> QED
    BY <1>3, <1>5, <2>1, <2>3
<1>15. ASSUME NEW r \in Goroutines, StoreClient(r) PROVE SequentialInv'
  <2>1. ~overlapped /\ Active(r) /\ req' = [req EXCEPT ![r] = req'[r]]
    BY <1>1, <1>15 DEF StoreClient, ghosts, StartFails, Goto, Active, RequestRecords
  <2>2. Phase(r) /\ req[r].pc = "store"
    BY <1>4, <1>15, <2>1 DEF StoreClient
  <2>3. clients[req[r].client].state \notin {"stopped", "stray"}
    BY <2>2 DEF Inv, StoppedInv, Unknown
  <2>4. /\ db' = db /\ stream' = stream /\ clients' = clients /\ running' = req[r].client
        /\ rtspPath' = rtspPath /\ unloaded' = unloaded
        /\ req'[r].pc = "done"
    BY <1>1, <1>15 DEF StoreClient, ghosts, StartFails, Goto, RequestRecords
  <2>5. ObjectPerRow' /\ OnlyRunningLive' /\ RunningServes'
    BY <2>2, <2>3, <2>4 DEF Phase, ObjectPerRow, OnlyRunningLive, RunningServes, ReadsRow
  <2>6. running' # None
    BY <2>2 , <2>4 DEF Inv, StoppedInv, Unknown, None
  <2>7. Settled' /\ ~Active(r)'
    BY <2>4, <2>5, <2>6 DEF Settled, Agree, Active
  <2> QED
    BY <1>3, <1>5, <2>1, <2>7
<1>16. ASSUME NEW r \in Requests, RemoveMuxer(r) PROVE SequentialInv'
  <2>1. ~overlapped /\ Active(r) /\ req' = [req EXCEPT ![r] = req'[r]]
    BY <1>1, <1>16 DEF RemoveMuxer, ghosts, StartFails, Goto, Active, RequestRecords
  <2>2. Phase(r)
    BY <1>4, <2>1
  <2>3. IF Active(r)' THEN Phase(r)' ELSE Settled'
    BY <1>1, <1>2, <1>16, <2>2
    DEF RemoveMuxer, ghosts, StartFails, Goto, Active, Phase, RequestRecords,
        Settled, Agree, ObjectPerRow, OnlyRunningLive, RunningServes, ReadsRow, NoneLive, Starting, Written
  <2> QED
    BY <1>3, <1>5, <2>1, <2>3
<1>17. ASSUME NEW r \in Requests, LookupClient(r) PROVE SequentialInv'
  <2>1. ~overlapped /\ Active(r) /\ req' = [req EXCEPT ![r] = req'[r]]
    BY <1>1, <1>17 DEF LookupClient, ghosts, StartFails, Goto, Active, RequestRecords, shared
  <2>2. Phase(r)
    BY <1>4, <2>1
  <2>3. IF Active(r)' THEN Phase(r)' ELSE Settled'
    BY <1>1, <1>2, <1>17, <2>2, SMTT(30)
    DEF LookupClient, ghosts, StartFails, Goto, Active, Phase, RequestRecords, AfterStop, None, shared,
        Settled, Agree, ObjectPerRow, OnlyRunningLive, RunningServes, ReadsRow, NoneLive, Starting, Written
  <2> QED
    BY <1>3, <1>5, <2>1, <2>3
<1>18. ASSUME NEW r \in Requests, StopClient(r) PROVE SequentialInv'
  <2>1. ~overlapped /\ Active(r) /\ req' = [req EXCEPT ![r] = req'[r]]
    BY <1>1, <1>18 DEF StopClient, ghosts, Goto, Active, RequestRecords
  <2>2. Written(r) /\ OnlyRunningLive /\ req[r].client = running
    BY <1>4, <1>18, <2>1 DEF StopClient, Phase
  <2>3. /\ db' = db /\ stream' = stream /\ rtspPath' = rtspPath /\ unloaded' = unloaded
        /\ req'[r].pc = "unmap" /\ req'[r].kind = req[r].kind /\ req'[r].row = req[r].row
    BY <1>1, <1>18 DEF StopClient, ghosts, Goto, RequestRecords
  <2>4. PICK state \in {"stopped", "stray"} :
          clients' = [clients EXCEPT ![running].state = state]
    BY <1>18, <2>2 DEF StopClient, Stopped
  <2>5. \A c \in Objects : clients'[c].state # "live"
    BY <1>1, <2>2, <2>4 DEF OnlyRunningLive, ClientRecords
  <2>6. Phase(r)'
    BY <2>2, <2>3, <2>5 DEF Phase, Written, ObjectPerRow
  <2> QED
    BY <1>3, <1>5, <2>1, <2>3, <2>6 DEF Active
<1>19. ASSUME NEW r \in Requests, Unmap(r) PROVE SequentialInv'
  <2>1. ~overlapped /\ Active(r) /\ req' = [req EXCEPT ![r] = req'[r]]
    BY <1>1, <1>19 DEF Unmap, ghosts, StartFails, Goto, Active, RequestRecords
  <2>2. Phase(r)
    BY <1>4, <2>1
  <2>3. IF Active(r)' THEN Phase(r)' ELSE Settled'
    BY <1>1, <1>2, <1>19, <2>2
    DEF Unmap, ghosts, StartFails, Goto, Active, Phase, RequestRecords, AfterStop, None,
        Settled, Agree, ObjectPerRow, OnlyRunningLive, RunningServes, ReadsRow, NoneLive, Starting, Written
  <2> QED
    BY <1>3, <1>5, <2>1, <2>3
<1>20. ASSUME NEW r \in Requests, RemoveObject(r) PROVE SequentialInv'
  <2>1. ~overlapped /\ Active(r) /\ req' = [req EXCEPT ![r] = req'[r]]
    BY <1>1, <1>20 DEF RemoveObject, ghosts, StartFails, Goto, Active, RequestRecords
  <2>2. Phase(r)
    BY <1>4, <2>1
  <2>3. IF Active(r)' THEN Phase(r)' ELSE Settled'
    BY <1>1, <1>2, <1>20, <2>2
    DEF RemoveObject, ghosts, StartFails, Goto, Active, Phase, RequestRecords, None,
        Settled, Agree, ObjectPerRow, OnlyRunningLive, RunningServes, ReadsRow, NoneLive, Starting, Written
  <2> QED
    BY <1>3, <1>5, <2>1, <2>3
<1>21. CASE SyncConfig
  <2>1. ~overlapped /\ Active(Boot) /\ req' = [req EXCEPT ![Boot] = req'[Boot]]
    BY <1>1, <1>21 DEF SyncConfig, ghosts, StartFails, Goto, Active, RequestRecords
  <2>2. Phase(Boot)
    BY <1>4, <2>1
  <2>3. IF Active(Boot)' THEN Phase(Boot)' ELSE Settled'
    BY <1>1, <1>2, <1>21, <2>2
    DEF SyncConfig, ghosts, StartFails, Goto, Active, Phase, RequestRecords,
        Settled, Agree, ObjectPerRow, OnlyRunningLive, RunningServes, ReadsRow, NoneLive, Starting, Written
  <2> QED
    BY <1>3, <1>5, <2>1, <2>3
<1>22. CASE ListRows
  <2>1. ~overlapped /\ Active(Boot) /\ req' = [req EXCEPT ![Boot] = req'[Boot]]
    BY <1>1, <1>22 DEF ListRows, Goto, Active, RequestRecords, shared
  <2>2. stream = None /\ NoneLive
    BY <1>4, <1>22, <2>1 DEF ListRows, Phase
  <2>3. /\ db' = db /\ stream' = stream /\ running' = running /\ clients' = clients
        /\ rtspPath' = rtspPath
        /\ \/ req'[Boot].pc = "done" /\ (db # NoRow => unloaded')
           \/ req'[Boot].pc = "bootObject" /\ db # NoRow /\ req'[Boot].row = db
    <3>1. /\ db' = db /\ stream' = stream /\ running' = running /\ clients' = clients
          /\ rtspPath' = rtspPath
      BY <1>22 DEF ListRows, shared
    <3>2. CASE Goto(Boot, "done") /\ unloaded' = (db # NoRow)
      <4>1. db # NoRow => unloaded'
        BY <3>2, Zenon
      <4>2. req'[Boot].pc = "done"
        BY <1>1, <3>2 DEF Goto, RequestRecords
      <4> QED
        BY <3>1, <4>1, <4>2
    <3>3. CASE req' = [req EXCEPT ![Boot].pc = IF db = NoRow THEN "done" ELSE "bootObject",
                                  ![Boot].row = db]
      <4>1. /\ req'[Boot].row = db
            /\ req'[Boot].pc = IF db = NoRow THEN "done" ELSE "bootObject"
        BY <1>1, <3>3 DEF RequestRecords
      <4> QED
        BY <3>1, <4>1
    <3> QED
      BY <1>22, <3>2, <3>3 DEF ListRows
  <2>4. CASE req'[Boot].pc = "done"
    <3>1. db # NoRow => unloaded'
      BY <2>3, <2>4
    <3>2. Settled'
      BY <2>2, <2>3, <3>1
      DEF Settled, Agree, ObjectPerRow, NoneLive, OnlyRunningLive, RunningServes
    <3> QED
      BY <1>3, <1>5, <2>1, <2>4, <3>2 DEF Active
  <2>5. CASE req'[Boot].pc = "bootObject"
    <3>1. Phase(Boot)'
      BY <2>2, <2>3, <2>5 DEF Phase, NoneLive
    <3> QED
      BY <1>3, <1>5, <2>1, <2>5, <3>1 DEF Active
  <2> QED
    BY <2>3, <2>4, <2>5
<1>23. CASE BootObject
  <2>1. ~overlapped /\ Active(Boot) /\ req' = [req EXCEPT ![Boot] = req'[Boot]]
    BY <1>1, <1>23 DEF BootObject, ghosts, StartFails, Goto, Active, RequestRecords
  <2>2. Phase(Boot)
    BY <1>4, <2>1
  <2>3. IF Active(Boot)' THEN Phase(Boot)' ELSE Settled'
    BY <1>1, <1>2, <1>23, <2>2
    DEF BootObject, ghosts, StartFails, Goto, Active, Phase, RequestRecords, None,
        Settled, Agree, ObjectPerRow, OnlyRunningLive, RunningServes, ReadsRow, NoneLive, Starting, Written
  <2> QED
    BY <1>3, <1>5, <2>1, <2>3
<1>24. CASE BootStream
  <2>1. ~overlapped /\ Active(Boot) /\ req' = [req EXCEPT ![Boot] = req'[Boot]]
    BY <1>1, <1>24 DEF BootStream, ghosts, StartFails, Goto, Active, RequestRecords, shared
  <2>2. Phase(Boot)
    BY <1>4, <2>1
  <2>3. IF Active(Boot)' THEN Phase(Boot)' ELSE Settled'
    BY <1>1, <1>2, <1>24, <2>2
    DEF BootStream, ghosts, StartFails, Goto, Active, Phase, RequestRecords, None, shared,
        Settled, Agree, ObjectPerRow, OnlyRunningLive, RunningServes, ReadsRow, NoneLive, Starting, Written
  <2> QED
    BY <1>3, <1>5, <2>1, <2>3
<1>25. ASSUME NEW c \in Objects, Connect(c) \/ GiveUp(c) \/ StrayEnds(c) PROVE SequentialInv'
  <2>1. /\ db' = db /\ stream' = stream /\ running' = running /\ req' = req /\ ~overlapped
        /\ rtspPath' = rtspPath /\ startFailed' = startFailed /\ unloaded' = unloaded
        /\ \A d \in Objects : /\ clients'[d].stream = clients[d].stream
                              /\ clients'[d].source = clients[d].source
                              /\ clients'[d].state = "live" => clients[d].state = "live"
                              /\ clients'[d].state \in {"stopped", "stray"} =>
                                   clients[d].state \in {"stopped", "stray"}
    BY <1>1, <1>25 DEF Connect, GiveUp, StrayEnds, ClientRecords, ghosts
  <2>2. Settled => Settled'
    BY <1>1, <2>1 DEF Settled, Agree, ObjectPerRow, OnlyRunningLive, RunningServes, ReadsRow, None
  <2>3. /\ Agree => Agree'
        /\ NoneLive => NoneLive'
        /\ ObjectPerRow => ObjectPerRow'
        /\ OnlyRunningLive => OnlyRunningLive'
    BY <1>1, <2>1
    DEF Agree, ObjectPerRow, OnlyRunningLive, RunningServes, ReadsRow, NoneLive, None
  <2>4. ASSUME NEW r \in Goroutines, Phase(r) PROVE Phase(r)'
    <3>1. Written(r) => Written(r)'
      BY <2>1 DEF Written, ObjectPerRow
    <3>2. Starting(r) => Starting(r)'
      BY <2>1 DEF Starting, NoneLive, ObjectPerRow
    <3>3. req[r].pc = "store" =>
            /\ clients'[req[r].client].stream = clients[req[r].client].stream
            /\ clients'[req[r].client].source = clients[req[r].client].source
      BY <1>1, <2>1 DEF Inv, StoppedInv, Unknown
    <3>4. req[r].pc = "store" => (\A d \in Objects : clients'[d].state = "live" => d = req[r].client)
      BY <2>1, <2>4 DEF Phase
    <3>5. CASE req[r].pc \in {"row", "path", "pathObject"}
      BY <2>1, <2>2, <2>4, <3>5 DEF Phase
    <3>6. CASE req[r].pc = "object"
      BY <1>1, <2>1, <2>4, <3>6 DEF Phase, OnlyRunningLive, RunningServes, ReadsRow, None
    <3>7. CASE req[r].pc \in {"stream", "remove", "config", "list", "bootObject", "bootStream"}
      BY <2>1, <2>4, <3>7 DEF Phase, ObjectPerRow, NoneLive
    <3>8. CASE req[r].pc = "check"
      BY <1>1, <2>1, <2>4, <3>8
      DEF Phase, Agree, ObjectPerRow, OnlyRunningLive, RunningServes, ReadsRow, None
    <3>9. CASE req[r].pc \in {"source", "client"}
      BY <2>1, <2>4, <3>2, <3>9 DEF Phase, ReadsRow
    <3>10. CASE req[r].pc = "store"
      BY <2>1, <2>4, <3>3, <3>4, <3>10 DEF Phase, ReadsRow, ObjectPerRow
    <3>11. CASE req[r].pc \in {"muxer", "lookup", "stop", "unmap"}
      BY <2>1, <2>4, <3>1, <3>11 DEF Phase, OnlyRunningLive
    <3>12. CASE req[r].pc \notin {"row", "path", "pathObject", "object", "stream", "remove", "config", "list", "bootObject",
                                 "bootStream", "check", "source", "client", "store", "muxer",
                                 "lookup", "stop", "unmap"}
      BY <2>1, <3>12 DEF Phase
    <3> QED
      BY <3>5, <3>6, <3>7, <3>8, <3>9, <3>10, <3>11, <3>12
  <2> QED
    BY <2>1, <2>2, <2>4 DEF SequentialInv, Alone, Active, Idle
<1>26. CASE Crash
  <2>1. /\ stream' = None /\ running' = None
        /\ \A c \in Objects : clients'[c].state # "live"
    BY <1>1, <1>26 DEF Crash, ClientRecords
  <2>2. req'[Boot].pc = "config" /\ \A r \in Goroutines : r # Boot => ~Active(r)'
    BY <1>1, <1>26 DEF Crash, Active, RequestRecords
  <2>3. ~Idle' /\ Phase(Boot)'
    BY <2>1, <2>2 DEF Idle, Phase, NoneLive
  <2> QED
    BY <2>2, <2>3 DEF SequentialInv, Alone
<1>27. ASSUME NEW r \in Requests, FindPath(r) PROVE SequentialInv'
  <2>1. ~overlapped /\ Active(r) /\ req' = [req EXCEPT ![r] = req'[r]]
    BY <1>1, <1>27 DEF FindPath, ghosts, StartFails, Goto, Active, RequestRecords
  <2>2. Phase(r)
    BY <1>4, <2>1
  <2>3. IF Active(r)' THEN Phase(r)' ELSE Settled'
    BY <1>1, <1>2, <1>27, <2>2
    DEF FindPath, ghosts, StartFails, Goto, Active, Phase, RequestRecords, None, shared,
        Settled, Agree, ObjectPerRow, OnlyRunningLive, RunningServes, ReadsRow, NoneLive, Starting, Written
  <2> QED
    BY <1>3, <1>5, <2>1, <2>3
<1>28. ASSUME NEW r \in Requests, MakePath(r) PROVE SequentialInv'
  <2>1. ~overlapped /\ Active(r) /\ req' = [req EXCEPT ![r] = req'[r]]
    BY <1>1, <1>28 DEF MakePath, ghosts, StartFails, Goto, Active, RequestRecords
  <2>2. Phase(r)
    BY <1>4, <2>1
  <2>3. IF Active(r)' THEN Phase(r)' ELSE Settled'
    BY <1>1, <1>2, <1>28, <2>2
    DEF MakePath, ghosts, StartFails, Goto, Active, Phase, RequestRecords, None, shared,
        Settled, Agree, ObjectPerRow, OnlyRunningLive, RunningServes, ReadsRow, NoneLive, Starting, Written
  <2> QED
    BY <1>3, <1>5, <2>1, <2>3
<1>29. ASSUME NEW r \in Goroutines, NoClient(r) PROVE SequentialInv'
  <2>1. ~overlapped /\ Active(r) /\ req' = [req EXCEPT ![r] = req'[r]]
    BY <1>1, <1>29 DEF NoClient, ghosts, StartFails, Goto, Active, RequestRecords
  <2>2. Phase(r)
    BY <1>4, <2>1
  <2>3. IF Active(r)' THEN Phase(r)' ELSE Settled'
    BY <1>1, <1>2, <1>29, <2>2
    DEF NoClient, ghosts, StartFails, Goto, Active, Phase, RequestRecords, None, shared,
        Settled, Agree, ObjectPerRow, OnlyRunningLive, RunningServes, ReadsRow, NoneLive, Starting, Written
  <2> QED
    BY <1>3, <1>5, <2>1, <2>3
<1>30. CASE UNCHANGED vars
  BY <1>30 DEF vars, shared, ghosts, SequentialInv, Alone, Idle, Active, Phase,
        Settled, Agree, ObjectPerRow, OnlyRunningLive, RunningServes, ReadsRow, NoneLive, Starting, Written
<1> QED
  BY <1>6, <1>7, <1>8, <1>9, <1>10, <1>11, <1>12, <1>13, <1>14, <1>15, <1>16, <1>17, <1>18, <1>19, <1>20, <1>21, <1>22, <1>23, <1>24, <1>25, <1>26, <1>27, <1>28, <1>29, <1>30
  DEF Next, Handle, Start, Stop, Load

LEMMA SequentialHolds ==
    ASSUME Kinds \subseteq StreamsApi
    PROVE  Spec => []SequentialInv
<1>1. Inv /\ SequentialInv /\ [Next]_vars => SequentialInv'
  BY SequentialNext
<1> QED
  BY <1>1, SequentialInit, InvHolds, PTL DEF Spec

LEMMA QuietIsSettled == SequentialInv /\ Quiet => Settled
  BY DEF SequentialInv, Quiet

\* With the requests of the streams API and of the RTSP server one at a time (server.go, main.go,
\* path_manager.go), whenever none is being handled a row has a stream object unless the loading could
\* not list it, and an object without a row is the one the RTSP path holds, also after crashes and
\* failures of the database.  The paths API (paths_handler.go) writes rows without objects and is
\* excluded by the assumption.
THEOREM StreamPerRowHolds ==
    ASSUME Kinds \subseteq StreamsApi
    PROVE  Spec => []StreamPerRow
<1>1. SequentialInv => StreamPerRow
  BY QuietIsSettled DEF StreamPerRow, Settled, Agree, ObjectPerRow
<1> QED
  BY <1>1, SequentialHolds, PTL

\* Under the same assumption an always-on stream has a client in rtspClients whenever no request is
\* being handled, unless the last attempt to start one has ended in an error: create, update, start
\* and the loading at boot all try.
THEOREM AlwaysOnHasClientHolds ==
    ASSUME Kinds \subseteq StreamsApi
    PROVE  Spec => []AlwaysOnHasClient
<1>1. SequentialInv => AlwaysOnHasClient
  BY QuietIsSettled DEF AlwaysOnHasClient, Settled
<1> QED
  BY <1>1, SequentialHolds, PTL

\* Under the same assumption, and for an id that config.yaml does not name, the only client that has
\* not been stopped is the one in rtspClients, and it reads the row's source into the present stream
\* object.  (A source in config.yaml wins over the row's: startOnDemandStream, main.go:914.)
THEOREM ClientServesRowHolds ==
    ASSUME Kinds \subseteq StreamsApi, ConfigSource = NoSource
    PROVE  Spec => []ClientServesRow
<1>1. SequentialInv => ClientServesRow
  BY QuietIsSettled
  DEF ClientServesRow, Settled, Agree, OnlyRunningLive, RunningServes, ReadsRow
<1> QED
  BY <1>1, SequentialHolds, PTL
=============================================================================
