------------------------------- MODULE Pipeline --------------------------------
(***************************************************************************)
(* The scan loop of src/cmd/directory-size-exporter/main.go: what ScanAll  *)
(* promises (ScanPromise, which ScanCycle implements) joined with the      *)
(* store its Sink is.  runCycle hands ScanAll the tracked paths, ScanAll   *)
(* calls the store from the goroutines of its targets, and reloads replace *)
(* the tracked set meanwhile.  Store leaves the results of walks open;     *)
(* here they are measured, on a disk that loses files during a cycle and   *)
(* may hold other ones in the next.                                        *)
(***************************************************************************)
EXTENDS Store

CONSTANTS
    File,
    Files,      \* Files[p]: the files that may be in the tree of p
    Size        \* Size[fs]: the bytes of a set of files together

ASSUME FilesAssumption ==
    /\ Files \in [Path -> SUBSET File]
    /\ Size \in [SUBSET File -> Sizes] /\ Size[{}] = 0

VARIABLES
    asked, stage, verdict, measured, existing, returned,    \* those of ScanPromise
    last        \* history: the last complete report since the path was tracked

engineVars == <<asked, stage, verdict, measured, existing, returned>>
pipeline == <<vars, engineVars, last>>

Walk == INSTANCE ScanPromise WITH Target <- Path

Nothing == [counted |-> {}, left |-> {}, at |-> 0]

Each(value) == [p \in Path |-> value]

PipelineInit ==
    /\ Init
    /\ stage = Each("waiting") /\ verdict = Each("none") /\ measured = Each({})
    /\ asked = {} /\ existing = File /\ returned = TRUE
    /\ last = Each(Nothing)

-------------------------------------------------------------------------------
(* Steps of the store and the engine together.                             *)

\* Fault: the lock of ScanAll is not taken.
NoLock == TRUE

\* ScanAll is single-flight: scanMu.TryLock.
SingleFlight == returned

\* runCycle reads the tracked paths and calls ScanAll, which starts afresh
\* on a disk that may have other files by now.
Begin ==
    /\ SingleFlight
    /\ StartCycle
    /\ stage' = Each("waiting") /\ verdict' = Each("none") /\ measured' = Each({})
    /\ asked' = tracked /\ existing' \in SUBSET File /\ returned' = FALSE
    /\ UNCHANGED last

Announce(p) == Walk!Announce(p) /\ MarkScanStarted(p) /\ UNCHANGED last

\* The sink is given the totals as they are when the target is reported.
Report(p) ==
    /\ Walk!Report(p)
    /\ Apply(p, verdict'[p], Size[measured[p]])
    /\ last' = IF p \in tracked /\ verdict'[p] = "complete"
                 THEN [last EXCEPT ![p] =
                         [counted |-> measured[p], left |-> Files[p] \cap existing, at |-> now]]
                 ELSE last

Stop == Walk!Shutdown /\ Shutdown /\ UNCHANGED last

-------------------------------------------------------------------------------
(* Steps of one of them.                                                   *)

Count(p) == Walk!Count(p) /\ UNCHANGED <<vars, last>>

Return == Walk!Return /\ UNCHANGED <<vars, last>>

Remove == Walk!Remove /\ UNCHANGED <<vars, last>>

Reload(paths) ==
    /\ SetTargets(paths)
    /\ last' = [p \in Path |-> IF p \in paths \cap tracked THEN last[p] ELSE Nothing]
    /\ UNCHANGED engineVars

Later == Tick /\ UNCHANGED <<engineVars, last>>

PipelineNext ==
    \/ Begin \/ Return \/ Remove \/ Stop \/ Later
    \/ \E p \in Path : Announce(p) \/ Count(p) \/ Report(p)
    \/ \E paths \in SUBSET Path : Reload(paths)

PipelineSpec == PipelineInit /\ [][PipelineNext]_pipeline

-------------------------------------------------------------------------------
(* Properties.                                                             *)

\* The calls the engine makes are those the store is written for: what holds of
\* Store with any results holds of the store in the program.
ServesTheStore == Spec

\* Without publish-partial, a size that is shown is that of a set of files which
\* has every file that stayed in the tree of its target until it was reported
\* and no file of another target, and the report is no older than StaleAfter.
ShownIsWhole ==
    ~publishPartial => \A p \in tracked : SizeShown(p) =>
        /\ state[p].published.size = Size[last[p].counted]
        /\ last[p].left \subseteq last[p].counted
        /\ last[p].counted \subseteq Files[p]
        /\ StaleAfter = 0 \/ now - last[p].at <= StaleAfter
===============================================================================
