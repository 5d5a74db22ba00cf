--------------------------- MODULE ExportPipeline ---------------------------
(***************************************************************************)
(* The KubeModel pipeline on top of the collector: the loop of a           *)
(* ComputeExportController (core/pkg/exporter/controller.go) computes sets *)
(* from the stores of the collector and writes a file per window, through  *)
(* a ComputeStorageExporter and its validator, and the Janitor             *)
(* (pkg/kubemodel/janitor.go) removes the files that are past retention.   *)
(*                                                                         *)
(* A computed set is the set of samples that all of its queries have seen: *)
(* the queries of a computation run one after the other, so this is what   *)
(* the store held at the first one. A file is the set written to it.       *)
(***************************************************************************)
EXTENDS Collector

CONSTANTS
    ExportRes,        \* the resolution of the controller, one of Resolutions
    ExportInterval,   \* units between the end of an iteration and the next
    JanitorRetention  \* windows of that resolution

ASSUME ExportAssumption ==
    /\ ExportRes \in Resolutions
    /\ ExportInterval \in Nat \ {0}
    /\ JanitorRetention \in Nat
    /\ JanitorRetention >= ExportRes.retention

VARIABLES
    exportAt,   \* when time.After(interval) fires
    iterNow,    \* now of the current iteration
    windows,    \* the starts of the windows it has still to export
    computed,   \* the set computed for the first of them, or None
    lastExport, \* cd.lastExport, Never if zero
    files,      \* exported files: window start -> samples
    sealed,     \* history: windows whose file was computed and written after their end
    exported,   \* history: windows this process has exported
    missed      \* history: windows whose last export by this process wrote nothing

loopVars == <<exportAt, iterNow, windows, computed, lastExport>>
exportVars == <<loopVars, files, sealed, exported, missed>>
vars == <<collectorVars, exportVars>>

Never == -1
None == {-1}

-----------------------------------------------------------------------------
(* Mutant of exportWindowsFor: the window of lastExport is forgotten. *)
exportWindowsForCurrent(t) == <<Get(ExportRes, t)>>

(* exportWindowsFor: the current window, after the one of lastExport if    *)
(* that is another.                                                        *)
exportWindowsFor(t) ==
    IF lastExport = Never \/ Get(ExportRes, lastExport) = Get(ExportRes, t)
    THEN <<Get(ExportRes, t)>>
    ELSE <<Get(ExportRes, lastExport), Get(ExportRes, t)>>

(* repoStoreProvider.GetStore and getCollector: the store of a window, if  *)
(* the window is in retention and has one. The interval of the resolution  *)
(* that is exported is the closest to the length of the window.            *)
HasStore(k) == k >= Limit(ExportRes) /\ k \in DOMAIN stores[ExportRes]

(* The iteration is done with the first of its windows. *)
WindowDone ==
    /\ windows' = Tail(windows)
    /\ IF Tail(windows) = << >>
       THEN exportAt' = now + ExportInterval /\ iterNow' = 0
       ELSE UNCHANGED <<exportAt, iterNow>>

ExportBegin ==
    /\ phase = "up"
    /\ windows = << >>
    /\ exportAt <= now
    /\ iterNow' = now
    /\ windows' = exportWindowsFor(now)
    /\ UNCHANGED <<collectorVars, exportAt, computed, lastExport, files, sealed, exported, missed>>

(* ComputeKubeModelSet. Without a store the queries find nothing, so the   *)
(* cluster is not found, an error. A set without resources is possible:    *)
(* the scrapers that list them may have failed.                            *)
Compute ==
    /\ windows # << >> /\ computed = None
    /\ HasStore(Head(windows))
    /\ \/ /\ computed' = Range(stores[ExportRes][Head(windows)])
          /\ UNCHANGED faults
       \/ /\ computed' = {}
          /\ Fault
    /\ UNCHANGED <<now, phase, repoVars, walVars, scrapeVars, bounds,
                   exportAt, iterNow, windows, lastExport, files, sealed, exported, missed>>

(* A computation or a write failed: the error is logged and the loop goes  *)
(* on with the next window.                                                *)
ExportFails ==
    /\ windows # << >>
    /\ \/ computed = None /\ ~HasStore(Head(windows)) /\ UNCHANGED faults
       \/ Fault
    /\ computed' = None
    /\ WindowDone
    /\ missed' = missed \cup {Head(windows)}
    /\ UNCHANGED <<now, phase, repoVars, walVars, scrapeVars, bounds,
                   lastExport, files, sealed, exported>>

(* Mutant of IsOverwrite: the set is not asked whether it is empty. *)
IsOverwriteAlways(set) == TRUE

(* setValidator.IsOverwrite: an empty set replaces nothing. *)
IsOverwrite(set) == set # {}

(* ComputeStorageExporter.Export writes the file, or retains the one there *)
(* is; either way the window is exported.                                  *)
Export ==
    LET k == Head(windows)
        retain == k \in DOMAIN files /\ ~IsOverwrite(computed)
    IN  /\ windows # << >> /\ computed # None
        /\ files' = IF retain THEN files
                    ELSE [x \in DOMAIN files \cup {k} |-> IF x = k THEN computed ELSE files[x]]
        /\ computed' = None
        /\ WindowDone
        /\ lastExport' = iterNow
        /\ sealed' = IF retain THEN sealed
                     ELSE IF iterNow >= k + ExportRes.len THEN sealed \cup {k} ELSE sealed \ {k}
        /\ missed' = IF retain THEN missed \cup {k} ELSE missed \ {k}
        /\ exported' = exported \cup {k}
        /\ UNCHANGED collectorVars

Cutoff == Get(ExportRes, now) - JanitorRetention * ExportRes.len

(* Janitor.cleanup. Years, months and days only say where to look. *)
Cleanup ==
    /\ phase = "up"
    /\ \E k \in DOMAIN files : k < Cutoff
    /\ files' = [k \in {x \in DOMAIN files : x >= Cutoff} |-> files[k]]
    /\ UNCHANGED <<collectorVars, loopVars, sealed, exported, missed>>

(* The pipeline starts with the process ... *)
PipelineReady ==
    /\ Ready
    /\ exportAt' = now + ExportInterval
    /\ UNCHANGED <<iterNow, windows, computed, lastExport, files, sealed, exported, missed>>

(* ... and dies with it; the files stay. *)
PipelineCrash ==
    /\ Crash
    /\ exportAt' = 0
    /\ iterNow' = 0
    /\ windows' = << >>
    /\ computed' = None
    /\ lastExport' = Never
    /\ exported' = {}
    /\ missed' = {}
    /\ UNCHANGED <<files, sealed>>

PipelineInit ==
    /\ Init
    /\ exportAt = 0
    /\ iterNow = 0
    /\ windows = << >>
    /\ computed = None
    /\ lastExport = Never
    /\ files = << >>
    /\ sealed = {}
    /\ exported = {}
    /\ missed = {}

CollectorStep ==
    /\ \/ Tick(CollectorDue \/ windows # << >> \/ exportAt <= now) \/ Boot \/ WalClean \/ RestoreList \/ RestoreFile
       \/ ScrapeApply \/ ScrapeLog
       \/ \E r \in Resolutions : StoreClean(r)
    /\ UNCHANGED exportVars

Next ==
    \/ CollectorStep \/ PipelineReady \/ PipelineCrash
    \/ ExportBegin \/ Compute \/ ExportFails \/ Export \/ Cleanup

Spec == PipelineInit /\ [][Next]_vars

-----------------------------------------------------------------------------
(* An exported file never loses a sample that the log still has, while its *)
(* window is in retention: not by an export after a restart, not by one of *)
(* an empty set, not by the janitor. (A sample that could not be restored  *)
(* is lost to a restarted process.)                                        *)
ExportKeepsLogged ==
    [][\A k \in DOMAIN files : \A ts \in files[k] :
          (k >= Limit(ExportRes) /\ ts \in Range(wal) \ unread)
              => k \in DOMAIN files' /\ ts \in files'[k]]_vars

(* Once the loop has moved on to a later window, the file of a window that *)
(* it exported was computed and written after the end of the window,       *)
(* unless its last attempt at that window wrote nothing: it failed, or the *)
(* computed set was empty and the file there was, from the middle of the   *)
(* window perhaps, was retained. Nothing else leaves such a file.          *)
SealedUnlessMissed ==
    \A k \in exported :
        Get(ExportRes, lastExport) > k => k \in sealed \cup missed

(* "at most, return 2 windows: the previous resolution window and the      *)
(* current resolution window" (controller.go): two windows to export are   *)
(* consecutive.                                                            *)
PreviousThenCurrent ==
    Len(windows) = 2 => windows[1] = windows[2] - ExportRes.len
=============================================================================
