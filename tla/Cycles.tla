--------------------------------- MODULE Cycles ---------------------------------
(***************************************************************************)
(* The scan loop (src/cmd/directory-size-exporter/main.go): cycles, each   *)
(* of which refreshes the filesystem capacities (src/internal/collector/   *)
(* filesystem.go), then scans the targets it read at its start, while      *)
(* reloads replace the tracked set and scrapes show the capacities.        *)
(* ScanAll appears with its own goroutine, which probes one root after the *)
(* other; with what its supervisors promise, each target reported once     *)
(* (ScanPromise); and with the workers it starts and may leave behind      *)
(* (src/internal/scan/engine.go).                                          *)
(***************************************************************************)
EXTENDS Naturals, FiniteSets

CONSTANTS
    Path, NoPath,
    Rank,           \* of each path in the order that the resolver sorts by
    Volume, VolumeOf,   \* FSInfo's mountpoint, device and type, of each path
    Worker,         \* Config.Concurrency workers in each cycle
    MaxCycles       \* bound of the instance

ASSUME ConstantsAssumption ==
    /\ IsFiniteSet(Path) /\ NoPath \notin Path /\ IsFiniteSet(Worker) /\ MaxCycles \in Nat
    /\ VolumeOf \in [Path -> Volume]
    /\ Rank \in [Path -> Nat] /\ \A p, q \in Path : Rank[p] = Rank[q] => p = q

VARIABLES
    tracked,    \* Store.Targets()
    loop,       \* where scanLoop is
    cycle,      \* cycles begun
    paths,      \* the targets the running cycle read
    todo,       \* of those, the ones Refresh has not come to
    waiting,    \* the one whose StatFS it is waiting for
    next,       \* Refresh's new map of readings
    calls,      \* StatFS calls that have not returned: path and cycle
    cache,      \* FilesystemCache.byTarget
    timeouts,   \* the keys of FilesystemCache.timeouts
    charted,    \* history: the reading of a volume that was shown last
    probing,    \* the target whose root ScanAll is looking at
    begun,      \* targets ScanAll has come to in this cycle
    reported,   \* those of them that have been reported
    cut,        \* history: one of them was reported as cancelled
    crew,       \* cycle and worker of those that Engine.liveWorkers counts
    owed,       \* workers of this cycle that ScanAll's WaitGroup still counts
    gauge,      \* Engine.abandonedWorkers
    ready,      \* firstCycleComplete
    hung,       \* targets on a mount whose calls do not return
    cancelled   \* the process is shutting down

refresh == <<todo, waiting, next>>
shown   == <<cache, timeouts, charted>>
scan    == <<probing, begun, reported, cut>>
pool    == <<crew, owed, gauge>>
vars == <<tracked, loop, cycle, paths, refresh, calls, shown, scan, pool, ready, hung, cancelled>>

\* A reading is known by the cycle that made it and its turn in that cycle: the
\* targets are read one after the other.
Reading == [cycle : Nat, turn : Nat]

Unavailable == [cycle |-> 0, turn |-> 0]

Nothing == [p \in {} |-> Unavailable]

Init ==
    /\ tracked \in SUBSET Path \ {{}}
    /\ loop = "top" /\ cycle = 0 /\ paths = {}
    /\ todo = {} /\ waiting = NoPath /\ next = Nothing
    /\ calls = {}
    /\ cache = Nothing /\ timeouts = {}
    /\ charted = [v \in Volume |-> Unavailable]
    /\ probing = NoPath /\ begun = {} /\ reported = {} /\ cut = FALSE
    /\ crew = {} /\ owed = {} /\ gauge = 0
    /\ ready = FALSE
    /\ hung = {} /\ cancelled = FALSE

-------------------------------------------------------------------------------
(* runCycle and FilesystemCache.Refresh                                    *)

\* With nothing to scan the cycle is over.
Begin ==
    /\ loop = "top" /\ cycle < MaxCycles
    /\ cycle' = cycle + 1
    /\ paths' = tracked
    /\ loop' = IF tracked = {} THEN "pause" ELSE "refresh"
    /\ todo' = tracked /\ next' = Nothing
    /\ begun' = {} /\ reported' = {} /\ cut' = FALSE
    /\ UNCHANGED <<tracked, waiting, probing, calls, shown, pool, ready, hung, cancelled>>

\* Refresh and ScanAll go through the targets in the order of Store.Targets.
IsFirst(p, set) == p \in set /\ \A q \in set : Rank[p] <= Rank[q]

\* statfsWithTimeout starts a goroutine for the call.
Query(p) ==
    /\ loop = "refresh" /\ waiting = NoPath /\ IsFirst(p, todo) /\ ~cancelled
    /\ todo' = todo \ {p} /\ waiting' = p
    /\ calls' = calls \cup {<<p, cycle>>}
    /\ UNCHANGED <<tracked, loop, cycle, paths, next, shown, scan, pool, ready, hung, cancelled>>

\* Fault: a target that cannot be read keeps its earlier reading.
LastReading(p) == IF p \in DOMAIN cache THEN cache[p] ELSE Unavailable

\* Better to show nothing than an old figure.
NoReading(p) == Unavailable

\* What a call of a cycle finds, at the turn that Refresh has come to.
Found(c) == [cycle |-> c, turn |-> Cardinality(DOMAIN next) + 1]

Learn(p, reading) ==
    /\ next' = [q \in DOMAIN next \cup {p} |-> IF q = p THEN reading ELSE next[q]]
    /\ waiting' = NoPath

\* Fault: results come through one channel for all calls on a path.
SamePath(call) == waiting = call[1]

\* Each call answers through a channel of its own.
Awaited(call) == waiting = call[1] /\ cycle = call[2]

\* Fault: the channel has no room, so the answer needs somebody to take it.
NeedsReceiver(call) == Awaited(call)

\* The channel has room for the answer, whether or not somebody takes it.
MayAnswer(call) == TRUE

\* The call returns, with or without an error.
Returns(call) ==
    /\ call \in calls /\ call[1] \notin hung /\ MayAnswer(call)
    /\ calls' = calls \ {call}
    /\ IF Awaited(call)
         THEN \E reading \in {Found(call[2]), NoReading(call[1])} : Learn(call[1], reading)
         ELSE UNCHANGED <<next, waiting>>
    /\ UNCHANGED <<tracked, loop, cycle, paths, todo, shown, scan, pool, ready, hung, cancelled>>

\* Fault: the call is waited for.
NoTimer == FALSE

\* A timer runs beside each call.
StatfsTimer == TRUE

\* The call is left to itself.
TimesOut ==
    /\ waiting # NoPath /\ StatfsTimer
    /\ Learn(waiting, NoReading(waiting))
    /\ timeouts' = timeouts \cup {waiting}
    /\ UNCHANGED <<tracked, loop, cycle, paths, todo, calls, cache, charted, scan, pool, ready,
                   hung, cancelled>>

Interrupted ==
    /\ waiting # NoPath /\ cancelled
    /\ Learn(waiting, NoReading(waiting))
    /\ UNCHANGED <<tracked, loop, cycle, paths, todo, calls, shown, scan, pool, ready, hung, cancelled>>

\* Refresh returns, and ScanAll starts its workers beside those of earlier cycles.
StartWorkers ==
    /\ loop' = "scan"
    /\ todo' = {} /\ next' = Nothing
    /\ crew' = crew \cup ({cycle} \X Worker)
    /\ owed' = Worker
    /\ UNCHANGED gauge

\* At shutdown Refresh returns before it has asked for all, and shows nothing.
CutShort ==
    /\ loop = "refresh" /\ waiting = NoPath /\ todo # {} /\ cancelled
    /\ StartWorkers
    /\ UNCHANGED <<tracked, cycle, paths, waiting, calls, shown, scan, ready, hung, cancelled>>

Publish ==
    /\ loop = "refresh" /\ waiting = NoPath /\ todo = {}
    /\ cache' = next
    /\ timeouts' = timeouts \cap DOMAIN next
    /\ StartWorkers
    /\ UNCHANGED <<tracked, cycle, paths, waiting, calls, charted, scan, ready, hung, cancelled>>

-------------------------------------------------------------------------------
(* ScanAll, and the rest of runCycle and scanLoop.                         *)

\* prepareRoot, on ScanAll's own goroutine and with no timer.
Probe(p) ==
    /\ loop = "scan" /\ probing = NoPath /\ IsFirst(p, paths \ begun)
    /\ probing' = p /\ begun' = begun \cup {p}
    /\ UNCHANGED <<tracked, loop, cycle, paths, refresh, calls, shown, reported, cut, pool, ready,
                   hung, cancelled>>

\* A root that cannot be used is reported at once; any other gets a supervisor.
Probed ==
    /\ loop = "scan" /\ probing # NoPath /\ probing \notin hung
    /\ probing' = NoPath
    /\ reported' \in {reported, reported \cup {probing}}
    /\ UNCHANGED <<tracked, loop, cycle, paths, refresh, calls, shown, begun, cut, pool, ready,
                   hung, cancelled>>

\* Apply: with a measurement, or with an outcome that says why there is none.
Scanned(p) ==
    /\ loop = "scan" /\ p \in begun \ reported /\ p # probing
    /\ reported' = reported \cup {p}
    /\ cut' \in {cut, cut \/ cancelled}
    /\ UNCHANGED <<tracked, probing, begun, loop, cycle, paths, refresh, calls, shown, pool, ready, hung, cancelled>>

\* The pool is closed when every target has been reported.
ClosePool ==
    /\ loop = "scan" /\ reported = paths
    /\ loop' = "drain"
    /\ UNCHANGED <<tracked, cycle, paths, refresh, calls, shown, scan, pool, ready, hung, cancelled>>

\* A worker stays as long as its pool is open, unless the process is stopping.
MayLeave(n) == n < cycle \/ loop # "scan" \/ cancelled

\* The deferred liveWorkers.Add(-1), which comes before workers.Done.
Uncounted(worker) ==
    /\ worker \in crew /\ MayLeave(worker[1])
    /\ crew' = crew \ {worker}
    /\ UNCHANGED <<tracked, loop, cycle, paths, refresh, calls, shown, scan, owed, gauge, ready,
                   hung, cancelled>>

AfterUncounted(w) == <<cycle, w>> \notin crew

Done(w) ==
    /\ loop \in {"scan", "drain"} /\ w \in owed /\ AfterUncounted(w)
    /\ owed' = owed \ {w}
    /\ UNCHANGED <<tracked, loop, cycle, paths, refresh, calls, shown, scan, crew, gauge, ready,
                   hung, cancelled>>

\* Fault: the end of any cycle counts.
AnyEnd == TRUE

\* A cycle counts if it ended before the shutdown began.
Counts == ~cancelled

\* Fault: after a clean drain there is nothing to report.
OnlyThisCycle == IF owed = {} THEN 0 ELSE Cardinality(crew)

\* What drainWorkers samples, whichever way its wait ended.
Sample == Cardinality(crew)

\* drainWorkers has all its workers back, or its timer fires; ScanAll and runCycle
\* return, and with them their variables are gone.
EndScan ==
    /\ loop = "drain"
    /\ gauge' = Sample
    /\ ready' = (ready \/ Counts)
    /\ loop' = "pause"
    /\ paths' = {} /\ begun' = {} /\ reported' = {} /\ cut' = FALSE /\ owed' = {}
    /\ UNCHANGED <<tracked, cycle, refresh, probing, calls, shown, crew, hung, cancelled>>

\* The interval is over, or the process ends.
NextCycle ==
    /\ loop = "pause"
    /\ loop' = "top"
    /\ UNCHANGED <<tracked, cycle, paths, refresh, calls, shown, scan, pool, ready, hung, cancelled>>

Leave ==
    /\ loop = "pause" /\ cancelled
    /\ loop' = "gone"
    /\ UNCHANGED <<tracked, cycle, paths, refresh, calls, shown, scan, pool, ready, hung, cancelled>>

-------------------------------------------------------------------------------
(* Scrapes: collectFilesystems.                                            *)

Readings(v) ==
    {cache[p] : p \in {q \in DOMAIN cache : VolumeOf[q] = v}} \ {Unavailable}

\* Of the targets on one volume, the first in the map's order has its reading
\* shown, and there is no order.
Scrape ==
    /\ loop # "gone"
    /\ charted' \in [Volume -> {charted[v] : v \in Volume} \cup {cache[p] : p \in DOMAIN cache}]
    /\ \A v \in Volume :
         charted'[v] \in (IF Readings(v) = {} THEN {charted[v]} ELSE Readings(v))
    /\ UNCHANGED <<tracked, loop, cycle, paths, refresh, calls, cache, timeouts, scan, pool, ready,
                   hung, cancelled>>

-------------------------------------------------------------------------------
(* Reloads, mounts and the signal.                                         *)

\* A reload.  Once the last cycle of the instance has read its targets, the
\* reloads are those that find the same set.
SetTargets(set) ==
    /\ cycle < MaxCycles \/ set = tracked
    /\ tracked' = set
    /\ UNCHANGED <<loop, cycle, paths, refresh, calls, shown, scan, pool, ready, hung, cancelled>>

Hangs(p) ==
    /\ p \notin hung
    /\ hung' = hung \cup {p}
    /\ UNCHANGED <<tracked, loop, cycle, paths, refresh, calls, shown, scan, pool, ready, cancelled>>

Shutdown ==
    /\ ~cancelled
    /\ cancelled' = TRUE
    /\ UNCHANGED <<tracked, loop, cycle, paths, refresh, calls, shown, scan, pool, ready, hung>>

-------------------------------------------------------------------------------
Refreshing == (\E p \in Path : Query(p)) \/ TimesOut \/ Interrupted \/ CutShort \/ Publish

Next ==
    \/ Begin \/ Refreshing \/ ClosePool \/ EndScan \/ NextCycle \/ Leave
    \/ \E worker \in crew : Uncounted(worker)
    \/ \E w \in Worker : Done(w)
    \/ \E call \in calls : Returns(call)
    \/ \E p \in Path : Probe(p) \/ Scanned(p) \/ Hangs(p)
    \/ Probed
    \/ \E set \in SUBSET Path : SetTargets(set)
    \/ Scrape \/ Shutdown

Spec == Init /\ [][Next]_vars

\* The loop's goroutine is scheduled and its timers fire; StatFS and Lstat return
\* unless the mount hangs; a supervisor reports its target, hung or not, as its
\* timers see to that.  Workers need never leave.
Fairness ==
    /\ WF_vars(Begin) /\ WF_vars(Refreshing) /\ WF_vars(ClosePool) /\ WF_vars(EndScan)
    /\ WF_vars(NextCycle \/ Leave)
    /\ \A call \in Path \X (1..MaxCycles) : WF_vars(Returns(call))
    /\ WF_vars(\E p \in Path : Probe(p)) /\ WF_vars(Probed)
    /\ \A p \in Path : WF_vars(Scanned(p))

FairSpec == Spec /\ Fairness

-------------------------------------------------------------------------------
(* Properties.                                                             *)

TypeOK ==
    /\ tracked \subseteq Path /\ paths \subseteq Path /\ todo \subseteq Path
    /\ loop \in {"top", "refresh", "scan", "drain", "pause", "gone"}
    /\ cycle \in Nat
    /\ waiting \in Path \cup {NoPath}
    /\ DOMAIN next \subseteq Path /\ \A p \in DOMAIN next : next[p] \in Reading
    /\ DOMAIN cache \subseteq Path /\ \A p \in DOMAIN cache : cache[p] \in Reading
    /\ calls \subseteq Path \X Nat
    /\ charted \in [Volume -> Reading]
    /\ timeouts \subseteq Path /\ hung \subseteq Path
    /\ probing \in Path \cup {NoPath} /\ begun \subseteq Path /\ reported \subseteq Path
    /\ crew \subseteq Nat \X Worker /\ IsFiniteSet(crew) /\ owed \subseteq Worker /\ gauge \in Nat
    /\ cut \in BOOLEAN /\ ready \in BOOLEAN /\ cancelled \in BOOLEAN

\* While a cycle scans, the capacities shown are those of its own targets, each
\* read in this very cycle or shown as unavailable: an answer that comes after
\* its timeout is never taken for a later one.  Targets that are gone leave no
\* timeout counter behind.
CapacityIsCurrent ==
    loop = "scan" /\ ~cancelled =>
        /\ DOMAIN cache = paths
        /\ \A p \in paths : cache[p] = Unavailable \/ cache[p].cycle = cycle
        /\ timeouts \subseteq paths

Older(r, s) == r.cycle < s.cycle \/ (r.cycle = s.cycle /\ r.turn < s.turn)

\* Whichever target of a volume a scrape comes to first, it never shows a
\* capacity of an earlier cycle than one that was shown before: a target that
\* could not be read does not bring back what another one on its volume has
\* replaced.  It may show an older one of the same cycle, but only where two
\* targets of the volume have been read and the map holds both readings.
CapacityMovesOn ==
    [][\A v \in Volume : Older(charted'[v], charted[v]) =>
         /\ charted'[v].cycle = charted[v].cycle
         /\ {charted[v], charted'[v]} \subseteq Readings(v)]_vars

\* Readiness is raised by a cycle that has scanned every target it began with,
\* none of them cut short by a shutdown, and is never taken back.
ReadyIsEarned ==
    [][ready' # ready => ready' /\ paths # {} /\ reported = paths /\ ~cut]_vars

\* Workers that earlier cycles have left behind.
Leaked == {worker \in crew : loop \in {"scan", "drain"} => worker[1] # cycle}

\* Each cycle on a hung mount leaves further workers behind; all of them are in
\* the gauge, also after a cycle whose own workers have all come back.
LeakIsVisible == Cardinality(Leaked) <= gauge

\* The gauge goes up only when a worker of the cycle has outlived the drain: no
\* worker is taken for stuck that has told ScanAll it is done.
AlarmIsEarned == [][gauge' > gauge => owed # {}]_vars

\* A mount that hangs in StatFS or under the workers, and workers that do not
\* leave, cannot hold up the cycle; only a root that hangs in its probe can.
CyclesEnd == loop \in {"refresh", "scan", "drain"} ~> loop = "pause" \/ probing \in hung

\* The calls left behind are those on mounts that hang: an answer nobody waits
\* for any more does not keep its goroutine.
OnlyHungCallsStay == <>[](\A call \in calls : call[1] \in hung)

\* What statfsWithTimeout says: the leak is bounded by the number of hung mounts.
LeakIsBounded == Cardinality({call \in calls : call[1] \in hung}) <= Cardinality(hung)
===============================================================================
