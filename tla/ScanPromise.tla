------------------------------ MODULE ScanPromise ------------------------------
(***************************************************************************)
(* What Engine.ScanAll promises the Sink it is given (the interface in     *)
(* src/internal/scan/engine.go), without saying how: each target is        *)
(* announced once and reported once, in any order, then ScanAll returns.   *)
(* ScanCycle implements it, and Pipeline puts it before the store.         *)
(***************************************************************************)
EXTENDS FiniteSets

CONSTANTS
    Target, File,
    Files       \* Files[t]: the files in the tree of t

VARIABLES
    asked,      \* the targets of this call of ScanAll
    stage,      \* "waiting", "walking" or "reported" for each target
    verdict,    \* the outcome each target was reported with
    measured,   \* the files counted so far for each target
    existing,   \* the files on disk
    cancelled,  \* the process is shutting down
    returned    \* ScanAll has returned

vars == <<asked, stage, verdict, measured, existing, cancelled, returned>>

Outcomes == {"complete", "partial", "timeout", "cancelled", "missing", "root_error"}

Init ==
    /\ asked \in SUBSET Target
    /\ stage = [t \in Target |-> "waiting"]
    /\ verdict = [t \in Target |-> "none"]
    /\ measured = [t \in Target |-> {}]
    /\ existing \in SUBSET File
    /\ cancelled \in BOOLEAN
    /\ returned = FALSE

\* Sink.MarkScanStarted
Announce(t) ==
    /\ t \in asked /\ stage[t] = "waiting" /\ ~returned
    /\ stage' = [stage EXCEPT ![t] = "walking"]
    /\ UNCHANGED <<asked, verdict, measured, existing, cancelled, returned>>

\* Workers count files, also after a target was reported without being complete,
\* and after ScanAll has returned: a worker may be left behind.
Count(t) ==
    /\ stage[t] # "waiting" /\ verdict[t] \notin {"complete", "missing", "root_error"}
    /\ \E more \in SUBSET Files[t] : measured' = [measured EXCEPT ![t] = @ \cup more]
    /\ UNCHANGED <<asked, stage, verdict, existing, cancelled, returned>>

\* What an outcome says of the measurement it comes with.
Means(t, outcome) ==
    /\ outcome = "complete" => Files[t] \cap existing \subseteq measured[t]
    /\ outcome = "cancelled" => cancelled
    /\ outcome \in {"missing", "root_error"} => measured[t] = {}

\* Sink.Apply
Report(t) ==
    /\ stage[t] = "walking" /\ ~returned
    /\ \E outcome \in Outcomes :
        /\ Means(t, outcome)
        /\ verdict' = [verdict EXCEPT ![t] = outcome]
    /\ stage' = [stage EXCEPT ![t] = "reported"]
    /\ UNCHANGED <<asked, measured, existing, cancelled, returned>>

Return ==
    /\ ~returned /\ \A t \in asked : stage[t] = "reported"
    /\ returned' = TRUE
    /\ UNCHANGED <<asked, stage, verdict, measured, existing, cancelled>>

Remove ==
    /\ \E left \in SUBSET existing : existing' = left
    /\ UNCHANGED <<asked, stage, verdict, measured, cancelled, returned>>

Shutdown ==
    /\ cancelled' = TRUE
    /\ UNCHANGED <<asked, stage, verdict, measured, existing, returned>>

Next ==
    \/ \E t \in Target : Announce(t) \/ Count(t) \/ Report(t)
    \/ Return \/ Remove \/ Shutdown

Spec == Init /\ [][Next]_vars
===============================================================================
