---------------------------- MODULE ConfigPaths ----------------------------
(***************************************************************************)
(* Paths and settings: core.ConfigStore with the runtime file it writes    *)
(* (internal/core/config_store.go), the REST handlers over it              *)
(* (internal/api/paths_handler.go), and the HLS settings of config.yaml    *)
(* (internal/core/config.go, with HLS enabled).                            *)
(*                                                                         *)
(* A change is made in memory and then written.  os.WriteFile truncates    *)
(* the file first: when it fails, as when the program crashes inside it,   *)
(* what is left may not be parsed.  A file that cannot be read or parsed   *)
(* is a warning at the start, and is written over by the next change.  A   *)
(* path of config.yaml hides one of the same name in the file.             *)
(* Stopping the command of a path that is deleted is ProcessManager's Stop.*)
(***************************************************************************)
EXTENDS Naturals, Integers, FiniteSets

CONSTANTS
    CfgIds,       \* path ids
    CfgBodies,    \* path settings that validatePathConfig accepts
    CfgHlsValues, \* numbers config.yaml may give the HLS settings
    CfgMaxBoots   \* bound: starts of the program

\* The settings of config.yaml are numbers of any sign.
ASSUME CfgAssumption == CfgHlsValues \subseteq Int /\ CfgMaxBoots \in Nat

CfgBad == "bad"        \* settings that validatePathConfig refuses

\* The runtime file: not there, cut short, or the paths it holds.
CfgNoFile == [is |-> "missing", paths |-> << >>]
CfgTorn == [is |-> "torn", paths |-> << >>]
CfgFile(paths) == [is |-> "whole", paths |-> paths]

VARIABLES
    cfgYaml,     \* ConfigStore.yamlPaths: ids -> settings
    cfgPaths,    \* ConfigStore.paths
    cfgFile,     \* the runtime file
    cfgUp,       \* the program runs
    cfgBoots,    \* starts so far
    cfgAdding,   \* ids an AddPaths request has still to add
    cfgWarned,   \* the last save was an error, or, if none was yet, the load at the start
    cfgHls       \* HLS settings of the running program: duration, count, threshold

CfgVars == <<cfgYaml, cfgPaths, cfgFile, cfgUp, cfgBoots, cfgAdding, cfgWarned, cfgHls>>

CfgMaps == UNION {[ids -> CfgBodies] : ids \in SUBSET CfgIds}

\* setDefaults: zero means that the setting is not given.
CfgDefaults(h) ==
    [dur |-> IF h.dur = 0 THEN 2 ELSE h.dur,
     count |-> IF h.count = 0 THEN 10 ELSE h.count,
     threshold |-> IF h.threshold = 0 THEN 20 ELSE h.threshold]

CfgValid(h) == h.dur > 0 /\ h.count > 0 /\ h.threshold >= h.count

CfgOver(f, g) == [i \in DOMAIN f \cup DOMAIN g |-> IF i \in DOMAIN g THEN g[i] ELSE f[i]]
CfgWithout(f, ids) == [i \in DOMAIN f \ ids |-> f[i]]

\* os.ReadFile: a file that cannot be read counts as none.
CfgRead(readable) == IF readable THEN cfgFile ELSE CfgNoFile

\* NewConfigStore and LoadFromFile, from what was read of the file.
CfgLoad(yaml, file) == CfgOver(file.paths, yaml)

CfgInit ==
    /\ cfgYaml = << >> /\ cfgPaths = << >> /\ cfgFile = CfgNoFile
    /\ cfgUp = FALSE /\ cfgBoots = 0 /\ cfgAdding = {} /\ cfgWarned = FALSE
    /\ cfgHls = [dur |-> 0, count |-> 0, threshold |-> 0]

\* LoadConfig and NewConfigStore; an invalid configuration ends the program.
CfgBoot(yaml, hls, readable) ==
    /\ ~cfgUp /\ cfgBoots < CfgMaxBoots
    /\ CfgValid(CfgDefaults(hls))
    /\ cfgBoots' = cfgBoots + 1
    /\ cfgUp' = TRUE /\ cfgAdding' = {}
    /\ cfgYaml' = yaml /\ cfgPaths' = CfgLoad(yaml, CfgRead(readable))
    /\ cfgHls' = CfgDefaults(hls)
    /\ cfgWarned' = (~readable \/ cfgFile.is = "torn")
    /\ UNCHANGED cfgFile

\* saveToFileUnsafe writes what config.yaml does not define.
CfgWritten(paths) == CfgFile(CfgWithout(paths, DOMAIN cfgYaml))

\* A change of the map is saved; or the save fails, before, in or after the writing; or
\* the program crashes in it.
CfgChange(paths) ==
    \/ /\ cfgPaths' = paths /\ cfgFile' = CfgWritten(paths)
       /\ cfgWarned' = FALSE /\ UNCHANGED cfgUp
    \/ /\ cfgPaths' = paths /\ cfgWarned' = TRUE
       /\ cfgFile' \in {cfgFile, CfgTorn, CfgWritten(paths)} /\ UNCHANGED cfgUp
    \/ /\ cfgFile' = CfgTorn /\ cfgUp' = FALSE
       /\ UNCHANGED <<cfgPaths, cfgWarned>>

\* POST: the request names ids, and adds them one by one.
CfgAddPaths(ids) ==
    /\ cfgUp /\ cfgAdding = {} /\ ids # {}
    /\ cfgAdding' = ids
    /\ UNCHANGED <<cfgYaml, cfgPaths, cfgFile, cfgUp, cfgBoots, cfgWarned, cfgHls>>

\* AddPath of one of them: an id that exists or bad settings are refused.
CfgAddPath(i, body) ==
    /\ cfgUp /\ i \in cfgAdding
    /\ cfgAdding' = cfgAdding \ {i}
    /\ IF i \in DOMAIN cfgPaths \/ body = CfgBad
       THEN UNCHANGED <<cfgPaths, cfgFile, cfgWarned, cfgUp>>
       ELSE CfgChange(CfgOver(cfgPaths, [j \in {i} |-> body]))
    /\ UNCHANGED <<cfgYaml, cfgBoots, cfgHls>>

\* Mutant: config.yaml's paths may be changed.
CfgOursAny(i) == i \in DOMAIN cfgPaths

\* The path exists and config.yaml does not define it.
CfgOurs(i) == i \in DOMAIN cfgPaths /\ i \notin DOMAIN cfgYaml

CfgUpdatePath(i, body) ==
    /\ cfgUp /\ CfgOurs(i) /\ body # CfgBad
    /\ CfgChange(CfgOver(cfgPaths, [j \in {i} |-> body]))
    /\ UNCHANGED <<cfgYaml, cfgBoots, cfgAdding, cfgHls>>

CfgDeletePath(i) ==
    /\ cfgUp /\ CfgOurs(i)
    /\ CfgChange(CfgWithout(cfgPaths, {i}))
    /\ UNCHANGED <<cfgYaml, cfgBoots, cfgAdding, cfgHls>>

CfgDown ==
    /\ cfgUp /\ cfgUp' = FALSE
    /\ UNCHANGED <<cfgYaml, cfgPaths, cfgFile, cfgBoots, cfgAdding, cfgWarned, cfgHls>>

CfgHlsSettings == [dur : CfgHlsValues, count : CfgHlsValues, threshold : CfgHlsValues]

CfgNext ==
    \/ \E yaml \in CfgMaps, hls \in CfgHlsSettings, readable \in BOOLEAN : CfgBoot(yaml, hls, readable)
    \/ \E ids \in SUBSET CfgIds : CfgAddPaths(ids)
    \/ \E i \in CfgIds, body \in CfgBodies \cup {CfgBad} : CfgAddPath(i, body) \/ CfgUpdatePath(i, body)
    \/ \E i \in CfgIds : CfgDeletePath(i)
    \/ CfgDown

CfgSpec == CfgInit /\ [][CfgNext]_CfgVars

----------------------------------------------------------------------------
(* Properties.                                                             *)

CfgTypeOK ==
    /\ cfgYaml \in CfgMaps /\ cfgPaths \in CfgMaps /\ cfgFile.is \in {"missing", "torn", "whole"}
    /\ cfgUp \in BOOLEAN /\ cfgBoots \in 0..CfgMaxBoots /\ cfgAdding \subseteq CfgIds
    /\ cfgWarned \in BOOLEAN

(* While the program runs, its paths are those of config.yaml, unchanged   *)
(* by any request or file, and those of the runtime file - unless the last *)
(* save failed, or nothing was saved since a start that had warned that it *)
(* could not load the file.                                                *)
CfgFileIsMemory ==
    cfgUp => /\ \A i \in DOMAIN cfgYaml : i \in DOMAIN cfgPaths /\ cfgPaths[i] = cfgYaml[i]
             /\ cfgWarned \/ cfgPaths = CfgLoad(cfgYaml, cfgFile)

(* A restart on the same config.yaml brings the same paths back, unless    *)
(* the program had warned as above, or the restart does: a crash in the    *)
(* middle of writing is never taken for an empty file without a warning.   *)
CfgRestartKeepsPaths ==
    [][~cfgUp /\ cfgUp' /\ cfgBoots > 0 /\ cfgYaml' = cfgYaml /\ ~cfgWarned /\ ~cfgWarned'
        => cfgPaths' = cfgPaths]_CfgVars

(* With HLS enabled, a playlist never lists more segments than are kept.   *)
CfgWindowKept == cfgUp => cfgHls.dur > 0 /\ cfgHls.count \in 1..cfgHls.threshold

\* All three: what the running program has configured, across changes, crashes and restarts.
CfgPathsPersist == [](CfgFileIsMemory /\ CfgWindowKept) /\ CfgRestartKeepsPaths
=============================================================================
