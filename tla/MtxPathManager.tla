--------------------------- MODULE MtxPathManager ---------------------------
(***************************************************************************)
(* The path manager of MediaMTX (mediamtx-main/internal/core/              *)
(* path_manager.go): one goroutine that makes paths on request, removes    *)
(* them on a reload and tells the HLS server which of them are ready.      *)
(*                                                                         *)
(* Paths, of which only what the manager sees is kept, tell it that they   *)
(* are ready, not ready or closing, and wait for it; during a reload it    *)
(* waits for the paths that it removes.  A request has two steps: the      *)
(* manager returns a path, and the caller then talks to that path.         *)
(***************************************************************************)
EXTENDS Naturals, FiniteSets

CONSTANTS
    PmNames,      \* path names
    PmConfMaps,   \* configurations: what FindPathConf returns for each path name
    PmClients,    \* readers and publishers
    PmMaxPaths,   \* bound: path objects made
    PmMaxReloads  \* bound: reloads of the configuration

PmNoConf == [conf |-> "none", regexp |-> FALSE, static |-> FALSE, base |-> 0, hot |-> 0]

\* Paths of configurations that are not regular expressions exist all the time.
PmStaticNames(confs) == {n \in PmNames : confs[n] # PmNoConf /\ ~confs[n].regexp}

\* Names that go by the same configuration go by the same settings, and there is room for the
\* paths that exist all the time.
ASSUME PmAssumption ==
    /\ IsFiniteSet(PmNames) /\ PmMaxPaths \in Nat /\ PmMaxReloads \in Nat
    /\ \A m \in PmConfMaps :
         /\ Cardinality(PmStaticNames(m)) <= PmMaxPaths
         /\ \A n \in PmNames :
              /\ DOMAIN m[n] = DOMAIN PmNoConf
              /\ (m[n].conf = "none") = (m[n] = PmNoConf)
              /\ \A o \in PmNames : m[n].conf = m[o].conf => m[n] = m[o]

PmIds == 1..PmMaxPaths

VARIABLES
    pm,        \* the manager: its loop, paths, configurations and HLS server
    pmPath,    \* path objects, by id
    pmClient,  \* what each client is about
    pmReloads  \* goroutines of reloadConf: a configuration on its way to a path

PmVars == <<pm, pmPath, pmClient, pmReloads>>

PmNoPath == [name |-> "none", conf |-> PmNoConf, pc |-> "none", canceled |-> FALSE,
             stream |-> FALSE, tells |-> "nothing"]
PmIdle == [is |-> "idle", name |-> "none", path |-> 0, conf |-> PmNoConf]

PmMade == {i \in PmIds : pmPath[i].pc # "none"}
\* The context of a path descends from the manager's, which may have ended.
PmNewPath(n, conf, ended) ==
    [PmNoPath EXCEPT !.name = n, !.conf = conf, !.pc = "run", !.canceled = ended]

\* createPath for the names of set ns: objects, and the manager's table of them.
PmCreated(objects, table, confs, ns, ended) ==
    LET free == CHOOSE f \in [ns -> {i \in PmIds : objects[i].pc = "none"}] :
                   \A a, b \in ns : f[a] = f[b] => a = b
    IN  [objects |-> [i \in PmIds |-> IF \E n \in ns : free[n] = i
                                      THEN LET n == CHOOSE m \in ns : free[m] = i
                                           IN  PmNewPath(n, confs[n], ended)
                                      ELSE objects[i]],
         table |-> [n \in DOMAIN table \cup ns |->
                      IF n \in ns THEN [path |-> free[n], ready |-> FALSE, conf |-> confs[n].conf]
                      ELSE table[n]]]

PmRoomFor(ns) == Cardinality(ns) <= PmMaxPaths - Cardinality(PmMade)

\* initialize.
PmInit ==
    \E confs \in PmConfMaps :
       LET c == PmCreated([i \in PmIds |-> PmNoPath], << >>, confs, PmStaticNames(confs), FALSE)
       IN  /\ pm = [pc |-> "run", canceled |-> FALSE, confs |-> confs, paths |-> c.table,
                    new |-> confs, todo |-> {}, waits |-> 0, reloads |-> 0,
                    hls |-> [on |-> FALSE, ready |-> {}]]
           /\ pmPath = c.objects
           /\ pmClient = [x \in PmClients |-> PmIdle] /\ pmReloads = {}

----------------------------------------------------------------------------
(* The reload: doReloadConf, a path of the table at a time.                *)

PmReload(confs) ==
    /\ pm.pc = "run" /\ confs # pm.confs /\ pm.reloads < PmMaxReloads
    /\ pm' = [pm EXCEPT !.pc = "reload", !.reloads = @ + 1, !.new = confs, !.todo = DOMAIN pm.paths]
    /\ UNCHANGED <<pmPath, pmClient, pmReloads>>

\* pathConfCanBeUpdated: nothing but the recording and some camera settings differs.
PmCanBeUpdated(old, new) == new # PmNoConf /\ new.base = old.base

\* Mutant: the path keeps the name of its old configuration.
PmRenamedKeep(d, conf) == d
PmRenamed(d, conf) == [d EXCEPT !.conf = conf]

\* The configuration a path was made from, looked up by the name it goes by.
PmOldConf(n) ==
    LET named == {m \in PmNames : pm.confs[m].conf = pm.paths[n].conf}
    IN  IF named = {} THEN PmNoConf ELSE pm.confs[CHOOSE m \in named : TRUE]

\* A path keeps going, with its configuration sent after it when that has changed.
PmReloadKeep(n) ==
    /\ pm.pc = "reload" /\ n \in pm.todo
    /\ LET new == pm.new[n]
           d == pm.paths[n]
       IN  /\ PmCanBeUpdated(PmOldConf(n), new)
           /\ pm' = [pm EXCEPT !.todo = @ \ {n},
                               !.paths[n] = IF new.conf = d.conf THEN d ELSE PmRenamed(d, new.conf)]
           /\ pmReloads' = IF new = PmOldConf(n) THEN pmReloads ELSE pmReloads \cup {<<d.path, new>>}
    /\ UNCHANGED <<pmPath, pmClient>>

PmAfterClose(i) == "wait"

\* removeAndClosePath: the path is removed, told to close and waited for.
PmReloadRemove(n) ==
    /\ pm.pc = "reload" /\ n \in pm.todo
    /\ ~PmCanBeUpdated(PmOldConf(n), pm.new[n])
    /\ LET i == pm.paths[n].path
       IN  /\ pm' = [pm EXCEPT !.pc = PmAfterClose(i), !.waits = i, !.todo = @ \ {n},
                               !.paths = [m \in DOMAIN @ \ {n} |-> @[m]]]
           /\ pmPath' = [pmPath EXCEPT ![i].canceled = TRUE]
    /\ UNCHANGED <<pmClient, pmReloads>>

PmPathEnded ==
    /\ pm.pc = "wait" /\ pmPath[pm.waits].pc = "done"
    /\ pm' = [pm EXCEPT !.pc = "reload", !.waits = 0]
    /\ UNCHANGED <<pmPath, pmClient, pmReloads>>

PmReloadEnd ==
    /\ pm.pc = "reload" /\ pm.todo = {}
    /\ LET ns == PmStaticNames(pm.new) \ DOMAIN pm.paths
       IN  /\ PmRoomFor(ns)
           /\ LET c == PmCreated(pmPath, pm.paths, pm.new, ns, pm.canceled)
              IN  /\ pm' = [pm EXCEPT !.pc = "run", !.confs = pm.new, !.paths = c.table]
                  /\ pmPath' = c.objects
    /\ UNCHANGED <<pmClient, pmReloads>>

\* A goroutine of reloadConf hands its configuration over, or finds the path ended.
PmReloadArrives(r) ==
    /\ r \in pmReloads
    /\ pmReloads' = pmReloads \ {r}
    /\ LET p == pmPath[r[1]]
       IN  \/ p.pc = "run" /\ p.tells = "nothing" /\ pmPath' = [pmPath EXCEPT ![r[1]].conf = r[2]]
           \/ p.canceled /\ UNCHANGED pmPath
    /\ UNCHANGED <<pm, pmClient>>

\* close: the loop ends, the contexts of all paths end with the manager's.
PmClose ==
    /\ ~pm.canceled
    /\ pm' = [pm EXCEPT !.canceled = TRUE]
    /\ pmPath' = [i \in PmIds |-> [pmPath[i] EXCEPT !.canceled = pmPath[i].pc # "none"]]
    /\ UNCHANGED <<pmClient, pmReloads>>

PmRunEnds ==
    /\ pm.pc = "run" /\ pm.canceled
    /\ pm' = [pm EXCEPT !.pc = "done"]
    /\ UNCHANGED <<pmPath, pmClient, pmReloads>>

\* SetHLSServer: the new server is told of the paths that are ready.
PmSetHLSServer ==
    /\ pm.pc = "run" /\ ~pm.hls.on
    /\ LET ready == {n \in DOMAIN pm.paths : pm.paths[n].ready}
       IN  pm' = [pm EXCEPT !.hls = [on |-> TRUE, ready |-> {pm.paths[n].path : n \in ready}]]
    /\ UNCHANGED <<pmPath, pmClient, pmReloads>>

----------------------------------------------------------------------------
(* What a path tells the manager, each time waiting to be heard.           *)

PmTells(i, what) == pmPath' = [pmPath EXCEPT ![i].tells = what]

PmPathReady(i) ==
    /\ pmPath[i].pc = "run" /\ pmPath[i].tells = "nothing" /\ ~pmPath[i].stream
    /\ pmPath' = [pmPath EXCEPT ![i].stream = TRUE, ![i].tells = "ready"]
    /\ UNCHANGED <<pm, pmClient, pmReloads>>

PmPathNotReady(i) ==
    /\ pmPath[i].pc = "run" /\ pmPath[i].tells = "nothing" /\ pmPath[i].stream
    /\ PmTells(i, "notReady")
    /\ UNCHANGED <<pm, pmClient, pmReloads>>

\* runInner returns: the path is not in use anymore, or its context has ended.
PmPathCloses(i) ==
    /\ pmPath[i].pc = "run" /\ pmPath[i].tells = "nothing"
    /\ \/ pmPath[i].canceled
       \/ /\ pmPath[i].conf.regexp /\ ~pmPath[i].conf.static /\ ~pmPath[i].stream
          /\ \A x \in PmClients : ~(pmClient[x].is = "using" /\ pmClient[x].path = i)
    /\ pmPath' = [pmPath EXCEPT ![i].pc = "ending", ![i].tells = "close"]
    /\ UNCHANGED <<pm, pmClient, pmReloads>>

\* How path i goes on after it has told what it had to tell.
PmGoesOn(i) ==
    LET p == pmPath[i]
        closed == [p EXCEPT !.canceled = TRUE,
                            !.pc = IF p.stream THEN "ending" ELSE "done",
                            !.tells = IF p.stream THEN "notReady" ELSE "nothing"]
        quiet == [p EXCEPT !.tells = "nothing", !.stream = p.tells = "ready",
                           !.pc = IF p.pc = "ending" THEN "done" ELSE "run"]
    IN  pmPath' = [pmPath EXCEPT ![i] = IF p.tells = "close" THEN closed ELSE quiet]

\* doClosePath, doPathReady, doPathNotReady: only of a path that is in the table.
PmHears(i) ==
    /\ pm.pc = "run" /\ pmPath[i].tells # "nothing"
    /\ LET n == pmPath[i].name
           known == n \in DOMAIN pm.paths /\ pm.paths[n].path = i
           ready == pmPath[i].tells = "ready"
       IN  pm' = IF ~known THEN pm
                 ELSE IF pmPath[i].tells = "close"
                      THEN [pm EXCEPT !.paths = [m \in DOMAIN @ \ {n} |-> @[m]]]
                 ELSE [pm EXCEPT !.paths[n].ready = ready,
                                 !.hls.ready = IF ~pm.hls.on THEN @
                                               ELSE IF ready THEN @ \cup {i} ELSE @ \ {i}]
    /\ PmGoesOn(i)
    /\ UNCHANGED <<pmClient, pmReloads>>

\* "in case pathManager is blocked by path.wait()".
PmMayGoOn(i) == pm.canceled \/ pmPath[i].canceled

PmNotHeard(i) ==
    /\ pmPath[i].tells # "nothing" /\ PmMayGoOn(i)
    /\ PmGoesOn(i)
    /\ UNCHANGED <<pm, pmClient, pmReloads>>

----------------------------------------------------------------------------
(* Requests.                                                               *)

\* FindPathConf: a publisher learns the configuration it will be checked against.
PmFindPathConf(x, n) ==
    /\ pm.pc = "run" /\ pmClient[x].is = "idle" /\ pm.confs[n] # PmNoConf
    /\ pmClient' = [pmClient EXCEPT ![x] = [PmIdle EXCEPT !.is = "found", !.name = n,
                                                          !.conf = pm.confs[n]]]
    /\ UNCHANGED <<pm, pmPath, pmReloads>>

\* ConfToCompare is the configuration that the path has now.
PmSameConf(x) == pmClient[x].conf = pm.confs[pmClient[x].name]

\* doAddPublisher, and doAddReader or doDescribe from "idle": the path is made if needed.
PmAsk(x, n) ==
    /\ pm.pc = "run"
    /\ \/ pmClient[x].is = "idle"
       \/ pmClient[x].is = "found" /\ pmClient[x].name = n
    /\ IF pm.confs[n] = PmNoConf \/ (pmClient[x].is = "found" /\ ~PmSameConf(x))
       THEN /\ pmClient[x].is = "found"
            /\ pmClient' = [pmClient EXCEPT ![x] = PmIdle]
            /\ UNCHANGED <<pm, pmPath>>
       ELSE LET ns == {n} \ DOMAIN pm.paths
                c == PmCreated(pmPath, pm.paths, pm.confs, ns, pm.canceled)
            IN  /\ PmRoomFor(ns)
                /\ pm' = [pm EXCEPT !.paths = c.table] /\ pmPath' = c.objects
                /\ pmClient' = [pmClient EXCEPT ![x].is = "asked", ![x].name = n,
                                                ![x].path = c.table[n].path]
    /\ UNCHANGED pmReloads

\* The second step: the path takes the request, or has ended meanwhile.
PmReach(x) ==
    /\ pmClient[x].is = "asked"
    /\ LET p == pmPath[pmClient[x].path]
       IN  \/ /\ p.pc = "run" /\ p.tells = "nothing"
              /\ pmClient' = [pmClient EXCEPT ![x].is = "using"]
           \/ /\ p.canceled
              /\ pmClient' = [pmClient EXCEPT ![x] = PmIdle]
    /\ UNCHANGED <<pm, pmPath, pmReloads>>

PmLeave(x) ==
    /\ pmClient[x].is = "using" /\ pmClient' = [pmClient EXCEPT ![x] = PmIdle]
    /\ UNCHANGED <<pm, pmPath, pmReloads>>

PmNext ==
    \/ \E confs \in PmConfMaps : PmReload(confs)
    \/ \E n \in PmNames : PmReloadKeep(n) \/ PmReloadRemove(n)
    \/ PmPathEnded \/ PmReloadEnd \/ PmClose \/ PmRunEnds \/ PmSetHLSServer
    \/ \E r \in pmReloads : PmReloadArrives(r)
    \/ \E i \in PmIds : \/ PmPathReady(i) \/ PmPathNotReady(i) \/ PmPathCloses(i)
                        \/ PmHears(i) \/ PmNotHeard(i)
    \/ \E x \in PmClients : PmReach(x) \/ PmLeave(x)
    \/ \E x \in PmClients, n \in PmNames : PmFindPathConf(x, n) \/ PmAsk(x, n)

\* A path that is told to close: a select picks at random, so it does in the end.
PmToldCloses(i) == pmPath[i].canceled /\ PmPathCloses(i)

\* The goroutines of the manager and its paths go on.
PmFair ==
    /\ WF_PmVars(PmPathEnded)
    /\ \A i \in PmIds : WF_PmVars(PmNotHeard(i)) /\ SF_PmVars(PmToldCloses(i))

PmSpec == PmInit /\ [][PmNext]_PmVars /\ PmFair

----------------------------------------------------------------------------
(* Properties.                                                             *)

PmTypeOK ==
    /\ pm.pc \in {"run", "reload", "wait", "done"} /\ pm.confs \in PmConfMaps
    /\ DOMAIN pm.paths \subseteq PmNames /\ pm.hls.ready \subseteq PmIds
    /\ \A n \in DOMAIN pm.paths : pm.paths[n].path \in PmMade
    /\ \A i \in PmIds : /\ pmPath[i].pc \in {"none", "run", "ending", "done"}
                        /\ pmPath[i].tells \in {"nothing", "ready", "notReady", "close"}
    /\ \A x \in PmClients : pmClient[x].is \in {"idle", "found", "asked", "using"}

\* Between events every path of the table belongs to the configuration that
\* its name now has, and no difference that needs a new path has been missed.
PmPathsBelong ==
    pm.pc = "run" =>
       \A n \in DOMAIN pm.paths :
          LET d == pm.paths[n]
          IN  /\ pm.confs[n] # PmNoConf /\ d.conf = pm.confs[n].conf
              /\ pmPath[d.path].conf.base = pm.confs[n].base

\* The table and the HLS server know which of its quiet paths have a stream.
PmReadyIsKnown ==
    pm.pc = "run" =>
       \A n \in DOMAIN pm.paths :
          LET d == pm.paths[n]
              p == pmPath[d.path]
          IN  (p.pc = "run" /\ p.tells = "nothing" /\ ~p.canceled) =>
                 /\ d.ready = p.stream
                 /\ pm.hls.on => (d.path \in pm.hls.ready) = p.stream

\* Until the manager is closed, two paths of one name never run a source at the
\* same time ("avoid conflicts between sources").
PmOneSource ==
    ~pm.canceled => \A i, j \in PmIds :
       (i # j /\ pmPath[i].name = pmPath[j].name /\ pmPath[i].conf.static /\ pmPath[j].conf.static)
          => pmPath[i].pc \in {"none", "done"} \/ pmPath[j].pc \in {"none", "done"}

\* A publisher is on a path of the configuration it was checked against.
PmCheckedConf ==
    \A x \in PmClients :
       (pmClient[x].is \in {"asked", "using"} /\ pmClient[x].conf # PmNoConf)
          => pmPath[pmClient[x].path].conf.base = pmClient[x].conf.base

\* All of them: the table of paths, the configuration and the HLS server agree.
PmTableIsTrue == PmPathsBelong /\ PmReadyIsKnown /\ PmOneSource /\ PmCheckedConf

\* The wait for a removed path ends, whatever that path is waiting for.
PmServed == pm.pc # "wait"
PmReloadReturns == []<>PmServed
=============================================================================
