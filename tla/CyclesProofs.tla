------------------------------ MODULE CyclesProofs ------------------------------
(***************************************************************************)
(* Proofs about Cycles: what Refresh builds up while it asks for one       *)
(* target after the other, what the end of a cycle stands for, and what    *)
(* the pools of its workers and of earlier cycles leave in the gauge.      *)
(***************************************************************************)
EXTENDS Cycles, FiniteSetTheorems, TLAPS

\* Refresh's own progress: asked for, waited for and learned, each target once.
Partition ==
    loop = "refresh" =>
        /\ todo \subseteq paths /\ waiting \in paths \cup {NoPath} /\ waiting \notin todo
        /\ DOMAIN next = paths \ (todo \cup {waiting})
        /\ \A p \in DOMAIN next : next[p] = Unavailable \/ next[p].cycle = cycle

\* Only Refresh waits for a call.
Idle == loop # "refresh" => waiting = NoPath

\* A cycle that goes beyond its start has targets; only a shutdown cuts one short.
Earned ==
    /\ loop \in {"refresh", "scan", "drain"} => paths # {}
    /\ loop = "drain" => reported = paths
    /\ cut => cancelled

\* A worker of this cycle that liveWorkers counts is one ScanAll waits for.
Reckoned ==
    loop \in {"scan", "drain"} => \A worker \in crew : worker[1] = cycle => worker[2] \in owed

CInv == TypeOK /\ Partition /\ Idle /\ Earned /\ CapacityIsCurrent

\* The capacities of the map were all read in one cycle, nothing later has been
\* shown, and what has been shown of that cycle is still in the map.
OneReading ==
    /\ \A v \in Volume : charted[v].cycle <= cycle
    /\ \A p \in DOMAIN cache : cache[p] # Unavailable =>
         /\ cache[p].cycle <= cycle
         /\ \A q \in DOMAIN cache : cache[q] = Unavailable \/ cache[q].cycle = cache[p].cycle
         /\ \A v \in Volume :
              /\ charted[v].cycle <= cache[p].cycle
              /\ charted[v].cycle = cache[p].cycle => charted[v] \in Readings(v)

\* What a refresh is to replace is of earlier cycles.
OldReadings ==
    loop = "refresh" =>
        /\ \A v \in Volume : charted[v].cycle < cycle
        /\ \A p \in DOMAIN cache : cache[p] # Unavailable => cache[p].cycle < cycle

IInv == CInv /\ Reckoned /\ LeakIsVisible /\ OneReading /\ OldReadings

USE ConstantsAssumption

\* What a step that is none of Refresh's leaves alone of its progress.
Aside == UNCHANGED <<loop, cycle, paths, todo, waiting, next, cache, timeouts, charted>>

LEMMA TypeInit == Init => TypeOK
<1> SUFFICES ASSUME Init PROVE TypeOK
  OBVIOUS
<1>1. /\ tracked \subseteq Path /\ paths \subseteq Path /\ todo \subseteq Path
      /\ loop \in {"top", "refresh", "scan", "drain", "pause", "gone"}
      /\ cycle \in Nat /\ waiting \in Path \cup {NoPath}
  BY DEF Init
<1>2. DOMAIN next = {} /\ DOMAIN cache = {}
  BY DEF Init, Nothing
<1>3. /\ calls \subseteq Path \X Nat /\ timeouts \subseteq Path /\ hung \subseteq Path
      /\ probing \in Path \cup {NoPath} /\ begun \subseteq Path /\ reported \subseteq Path
  BY DEF Init
<1>4. cut \in BOOLEAN /\ ready \in BOOLEAN /\ cancelled \in BOOLEAN
  BY DEF Init
<1>5. crew \subseteq Nat \X Worker /\ IsFiniteSet(crew) /\ owed \subseteq Worker /\ gauge \in Nat
  BY FS_EmptySet DEF Init
<1>6. charted \in [Volume -> Reading]
  BY DEF Init, Unavailable, Reading
<1> QED
  BY <1>1, <1>2, <1>3, <1>4, <1>5, <1>6 DEF TypeOK

LEMMA InitCInv == Init => CInv
  BY TypeInit DEF Init, CInv, Partition, Idle, Earned, CapacityIsCurrent

\* Learn extends the new map by one target.
LEMMA Learned ==
  ASSUME NEW p, NEW reading, Learn(p, reading)
  PROVE  /\ DOMAIN next' = DOMAIN next \cup {p} /\ waiting' = NoPath
         /\ \A q \in DOMAIN next' : next'[q] = IF q = p THEN reading ELSE next[q]
  BY DEF Learn

LEMMA UnavailableType == Unavailable \in Reading
  BY DEF Unavailable, Reading

\* The turn of a call is one more than the targets that Refresh has dealt with.
LEMMA FoundType ==
  ASSUME TypeOK, NEW c \in Nat
  PROVE  Found(c) \in Reading /\ Found(c).cycle = c
<1>1. IsFiniteSet(DOMAIN next)
  BY FS_Subset DEF TypeOK
<1> QED
  BY <1>1, FS_CardinalityType DEF Found, Reading

\* An answer for the target Refresh waits for, from this cycle's call or none.
LEMMA LearnStep ==
  ASSUME CInv, waiting # NoPath,
         NEW reading \in Reading, reading = Unavailable \/ reading.cycle = cycle,
         Learn(waiting, reading),
         UNCHANGED <<tracked, loop, cycle, paths, todo, cache, charted, scan, pool, ready, hung,
                     cancelled>>,
         calls' \subseteq calls, timeouts' \subseteq timeouts \cup {waiting}
  PROVE  CInv'
<1> USE DEF CInv
<1>1. loop = "refresh" /\ loop' = "refresh" /\ waiting \in paths
  BY DEF Idle, Partition, TypeOK
<1>2. /\ DOMAIN next' = DOMAIN next \cup {waiting} /\ waiting' = NoPath
      /\ \A q \in DOMAIN next' : next'[q] = IF q = waiting THEN reading ELSE next[q]
  BY Learned
<1>3. paths \subseteq Path
  BY DEF TypeOK
<1>4. NoPath \notin todo
  BY DEF TypeOK
<1>5. TypeOK'
  BY <1>1, <1>2, <1>3 DEF TypeOK, scan, pool
<1>6. Partition'
  BY <1>1, <1>2, <1>3, <1>4 DEF Partition
<1>7. Idle' /\ CapacityIsCurrent'
  BY <1>1, <1>2 DEF Idle, CapacityIsCurrent
<1>8. Earned'
  BY DEF Earned, scan
<1> QED
  BY <1>5, <1>6, <1>7, <1>8

\* The pool of the new cycle beside those of earlier ones.
LEMMA StartType ==
  ASSUME TypeOK, StartWorkers
  PROVE  crew' \subseteq Nat \X Worker /\ IsFiniteSet(crew') /\ owed' \subseteq Worker /\ gauge' \in Nat
<1>1. crew' = crew \cup ({cycle} \X Worker) /\ owed' = Worker /\ gauge' = gauge
  BY DEF StartWorkers
<1>2. {cycle} \X Worker \subseteq Nat \X Worker
  BY DEF TypeOK
<1>3. IsFiniteSet({cycle} \X Worker)
  BY FS_Singleton, FS_Product
<1> QED
  BY <1>1, <1>2, <1>3, FS_Union DEF TypeOK

LEMMA RefreshStep == ASSUME CInv, Refreshing PROVE CInv'
<1> USE DEF CInv
<1>1. ASSUME NEW p \in Path, Query(p) PROVE CInv'
  <2>1. TypeOK'
    BY <1>1 DEF Query, TypeOK, shown, scan, pool
  <2>2. Partition'
    BY <1>1 DEF Query, IsFirst, Partition, TypeOK
  <2> QED
    BY <1>1, <2>1, <2>2 DEF Query, Idle, Earned, CapacityIsCurrent, shown, scan
<1>2. CASE TimesOut
  <2>1. NoReading(waiting) = Unavailable /\ Learn(waiting, Unavailable)
    BY <1>2 DEF TimesOut, NoReading
  <2> QED
    BY <1>2, <2>1, LearnStep, UnavailableType DEF TimesOut
<1>3. CASE Interrupted
  <2>1. NoReading(waiting) = Unavailable /\ Learn(waiting, Unavailable)
    BY <1>3 DEF Interrupted, NoReading
  <2> QED
    BY <1>3, <2>1, LearnStep, UnavailableType DEF Interrupted, shown
<1>4. CASE CutShort
  <2>1. /\ UNCHANGED <<tracked, cycle, paths, waiting, calls, cache, timeouts, charted,
                       probing, begun, reported, cut, ready, hung, cancelled>>
        /\ todo' = {} /\ DOMAIN next' = {}
    BY <1>4 DEF CutShort, StartWorkers, Nothing, shown, scan
  <2>2. loop = "refresh" /\ loop' = "scan" /\ waiting = NoPath /\ cancelled
    BY <1>4 DEF CutShort, StartWorkers
  <2>3. TypeOK'
    BY <1>4, <2>1, <2>2, StartType DEF CutShort, TypeOK
  <2> QED
    BY <2>1, <2>2, <2>3 DEF Partition, Idle, Earned, CapacityIsCurrent
<1>5. CASE Publish
  <2>1. /\ UNCHANGED <<tracked, cycle, paths, waiting, calls, charted, probing, begun, reported,
                       cut, ready, hung, cancelled>>
        /\ cache' = next /\ timeouts' = timeouts \cap DOMAIN next
        /\ todo' = {} /\ DOMAIN next' = {}
    BY <1>5 DEF Publish, StartWorkers, Nothing, scan
  <2>2. loop = "refresh" /\ loop' = "scan" /\ waiting = NoPath /\ todo = {}
    BY <1>5 DEF Publish, StartWorkers
  <2>3. NoPath \notin paths
    BY DEF TypeOK
  <2>4. DOMAIN next = paths /\ \A p \in paths : next[p] = Unavailable \/ next[p].cycle = cycle
    BY <2>2, <2>3 DEF Partition
  <2>5. TypeOK'
    BY <1>5, <2>1, <2>2, StartType DEF Publish, TypeOK
  <2>6. CapacityIsCurrent'
    BY <2>1, <2>4 DEF CapacityIsCurrent
  <2> QED
    BY <2>1, <2>2, <2>5, <2>6 DEF Partition, Idle, Earned
<1> QED
  BY <1>1, <1>2, <1>3, <1>4, <1>5 DEF Refreshing

\* An answer nobody waits for changes nothing that Refresh has.
LEMMA ReturnsStep == ASSUME CInv, NEW call \in calls, Returns(call) PROVE CInv'
<1>1. CASE Awaited(call)
  <2>1. PICK reading \in {Found(call[2]), Unavailable} : Learn(call[1], reading)
    BY <1>1 DEF Returns, NoReading
  <2>2. waiting = call[1] /\ cycle = call[2] /\ call \in Path \X Nat
    BY <1>1 DEF Awaited, CInv, TypeOK
  <2>3. waiting # NoPath
    BY <2>2
  <2>4. /\ reading \in Reading /\ (reading = Unavailable \/ reading.cycle = cycle)
        /\ Learn(waiting, reading)
    BY <2>1, <2>2, FoundType, UnavailableType DEF CInv, TypeOK
  <2> QED
    BY <2>3, <2>4, LearnStep DEF Returns, shown
<1>2. CASE ~Awaited(call)
  <2>1. Aside /\ calls' \subseteq calls /\ UNCHANGED <<tracked, scan, pool, ready, hung, cancelled>>
    BY <1>2 DEF Returns, Aside, shown
  <2>2. TypeOK'
    BY <2>1 DEF CInv, TypeOK, Aside, scan, pool
  <2> QED
    BY <2>1, <2>2 DEF CInv, Partition, Idle, Earned, CapacityIsCurrent, Aside, scan
<1> QED
  BY <1>1, <1>2

\* The loop itself.
LEMMA LoopStep ==
  ASSUME CInv, Begin \/ ClosePool \/ EndScan \/ NextCycle \/ Leave PROVE CInv'
<1> USE DEF CInv
<1>1. CASE Begin
  <2>1. /\ cycle' = cycle + 1 /\ paths' = tracked /\ todo' = tracked /\ next' = Nothing
        /\ loop = "top" /\ loop' = IF tracked = {} THEN "pause" ELSE "refresh"
        /\ begun' = {} /\ reported' = {} /\ cut' = FALSE
        /\ UNCHANGED <<tracked, waiting, probing, calls, cache, timeouts, charted, crew, owed, gauge,
                       ready, hung, cancelled>>
    BY <1>1 DEF Begin, shown, pool
  <2>2. DOMAIN next' = {}
    BY <2>1 DEF Nothing
  <2>3. waiting = NoPath /\ NoPath \notin tracked
    BY <2>1 DEF Idle, TypeOK
  <2>4. TypeOK'
    <3>1. loop' \in {"top", "refresh", "scan", "drain", "pause", "gone"} /\ cycle' \in Nat
      BY <2>1 DEF TypeOK
    <3> QED
      BY <2>1, <2>2, <3>1 DEF TypeOK
  <2>5. Partition'
    BY <2>1, <2>2, <2>3 DEF Partition
  <2> QED
    BY <2>1, <2>3, <2>4, <2>5 DEF Idle, Earned, CapacityIsCurrent
<1>2. CASE EndScan
  <2>1. /\ UNCHANGED <<tracked, cycle, todo, waiting, next, calls, cache, timeouts, charted, probing,
                       crew, hung, cancelled>>
        /\ loop = "drain" /\ loop' = "pause" /\ paths' = {} /\ begun' = {} /\ reported' = {}
        /\ cut' = FALSE /\ owed' = {}
    BY <1>2 DEF EndScan, refresh, shown
  <2>2. ready' \in BOOLEAN /\ gauge' \in Nat
    BY <1>2, FS_CardinalityType DEF EndScan, Counts, Sample, TypeOK
  <2>3. TypeOK'
    BY <2>1, <2>2 DEF TypeOK
  <2> QED
    BY <2>1, <2>3 DEF Partition, Idle, Earned, CapacityIsCurrent
<1>3. CASE ClosePool \/ NextCycle \/ Leave
  <2>1. /\ UNCHANGED <<tracked, cycle, paths, todo, waiting, next, calls, cache, timeouts, charted,
                       probing, begun, reported, cut, crew, owed, gauge, ready, hung, cancelled>>
        /\ \/ loop = "scan" /\ loop' = "drain" /\ reported = paths
           \/ loop = "pause" /\ loop' \in {"top", "gone"}
    <3>1. CASE ClosePool
      BY <3>1 DEF ClosePool, refresh, shown, scan, pool
    <3>2. CASE NextCycle
      BY <3>2 DEF NextCycle, refresh, shown, scan, pool
    <3>3. CASE Leave
      BY <3>3 DEF Leave, refresh, shown, scan, pool
    <3> QED
      BY <1>3, <3>1, <3>2, <3>3
  <2>2. TypeOK'
    BY <2>1 DEF TypeOK
  <2> QED
    BY <2>1, <2>2 DEF Partition, Idle, Earned, CapacityIsCurrent
<1> QED
  BY <1>1, <1>2, <1>3

\* Workers leave and report, in this cycle or long after theirs.
LEMMA WorkerStep ==
  ASSUME CInv, (\E worker \in crew : Uncounted(worker)) \/ (\E w \in Worker : Done(w))
  PROVE  CInv'
<1>1. /\ Aside /\ UNCHANGED <<tracked, calls, probing, begun, reported, cut, gauge, ready, hung,
                           cancelled>>
      /\ crew' \subseteq crew /\ owed' \subseteq owed
  BY DEF Uncounted, Done, Aside, refresh, shown, scan
<1>2. TypeOK'
  BY <1>1, FS_Subset DEF CInv, TypeOK, Aside
<1> QED
  BY <1>1, <1>2 DEF CInv, Partition, Idle, Earned, CapacityIsCurrent, Aside

\* Reports, reloads, mounts and the signal.
LEMMA OtherStep ==
  ASSUME CInv,
         \/ \E p \in Path : Probe(p) \/ Scanned(p) \/ Hangs(p)
         \/ Probed
         \/ \E set \in SUBSET Path : SetTargets(set)
         \/ Shutdown
  PROVE  CInv'
<1>1. Aside /\ UNCHANGED <<calls, crew, owed, gauge, ready>>
  BY DEF Probe, Probed, Scanned, Hangs, SetTargets, Shutdown, Aside, refresh, shown, pool
<1>2. cancelled => cancelled'
  BY DEF Probe, Probed, Scanned, Hangs, SetTargets, Shutdown
<1>3. /\ tracked' \subseteq Path /\ hung' \subseteq Path
      /\ probing' \in Path \cup {NoPath} /\ begun' \subseteq Path /\ reported' \subseteq Path
  BY DEF Probe, Probed, Scanned, Hangs, SetTargets, Shutdown, scan, CInv, TypeOK
<1>4. cancelled' \in BOOLEAN
  BY DEF Probe, Probed, Scanned, Hangs, SetTargets, Shutdown, CInv, TypeOK
<1>5. cut' \in BOOLEAN /\ (cut' => cut \/ cancelled)
  BY DEF Probe, Probed, Scanned, Hangs, SetTargets, Shutdown, scan, CInv, TypeOK
<1>6. TypeOK'
  BY <1>1, <1>3, <1>4, <1>5 DEF CInv, TypeOK, Aside
<1>7. Partition' /\ Idle'
  BY <1>1 DEF CInv, Partition, Idle, Aside
<1>8. Earned'
  <2>1. loop = "drain" => reported' = reported
    BY DEF Probe, Probed, Scanned, Hangs, SetTargets, Shutdown, scan
  <2> QED
    BY <1>1, <1>2, <1>5, <2>1 DEF CInv, Earned, Aside
<1>9. CapacityIsCurrent'
  BY <1>1, <1>2 DEF CInv, CapacityIsCurrent, Aside
<1> QED
  BY <1>6, <1>7, <1>8, <1>9 DEF CInv

\* A scrape changes nothing but what has been shown.
LEMMA ScrapeStep == ASSUME CInv, Scrape PROVE CInv'
<1>1. /\ UNCHANGED <<tracked, loop, cycle, paths, todo, waiting, next, calls, cache, timeouts,
                     probing, begun, reported, cut, crew, owed, gauge, ready, hung, cancelled>>
      /\ charted' \in [Volume -> {charted[v] : v \in Volume} \cup {cache[p] : p \in DOMAIN cache}]
  BY DEF Scrape, refresh, scan, pool
<1>2. charted' \in [Volume -> Reading]
  BY <1>1 DEF CInv, TypeOK
<1>3. TypeOK'
  BY <1>1, <1>2 DEF CInv, TypeOK
<1> QED
  BY <1>1, <1>3 DEF CInv, Partition, Idle, Earned, CapacityIsCurrent

LEMMA StepCInv == CInv /\ [Next]_vars => CInv'
<1> SUFFICES ASSUME CInv, [Next]_vars PROVE CInv'
  OBVIOUS
<1>1. CASE UNCHANGED vars
  <2>1. /\ Aside
        /\ UNCHANGED <<tracked, calls, probing, begun, reported, cut, crew, owed, gauge, ready, hung,
                       cancelled>>
    BY <1>1 DEF vars, Aside, refresh, shown, scan, pool
  <2>2. TypeOK'
    BY <2>1 DEF CInv, TypeOK, Aside
  <2> QED
    BY <2>1, <2>2 DEF CInv, Partition, Idle, Earned, CapacityIsCurrent, Aside
<1> QED
  BY <1>1, RefreshStep, ReturnsStep, LoopStep, WorkerStep, OtherStep, ScrapeStep DEF Next

\* What a step may do to the pools: leave them alone, start a new one, let a
\* worker leave or report, or sample what is left.
LEMMA PoolSteps ==
  ASSUME [Next]_vars
  PROVE  \/ UNCHANGED <<crew, owed, gauge>> /\ {loop, loop'} \cap {"scan", "drain"} = {}
         \/ UNCHANGED <<crew, owed, gauge, cycle>> /\ {loop, loop'} \subseteq {"scan", "drain"}
         \/ UNCHANGED <<crew, owed, gauge, loop, cycle>>
         \/ StartWorkers /\ loop = "refresh" /\ cycle' = cycle
         \/ (\E worker \in crew : Uncounted(worker)) \/ (\E w \in Worker : Done(w))
         \/ EndScan
<1>1. CASE UNCHANGED vars
  BY <1>1 DEF vars, pool
<1>2. CASE Refreshing
  BY <1>2 DEF Refreshing, Query, TimesOut, Interrupted, CutShort, Publish, pool
<1>3. CASE Begin
  BY <1>3 DEF Begin, pool
<1>4. CASE ClosePool \/ NextCycle \/ Leave
  BY <1>4 DEF ClosePool, NextCycle, Leave, pool
<1>5. CASE \E call \in calls : Returns(call)
  BY <1>5 DEF Returns, pool
<1>6. CASE \/ \E p \in Path : Probe(p) \/ Scanned(p) \/ Hangs(p)
           \/ Probed
           \/ \E set \in SUBSET Path : SetTargets(set)
           \/ Scrape \/ Shutdown
  BY <1>6 DEF Probe, Probed, Scanned, Hangs, SetTargets, Scrape, Shutdown, pool
<1> QED
  BY <1>1, <1>2, <1>3, <1>4, <1>5, <1>6 DEF Next

\* A worker reports only after it has been uncounted.
LEMMA StepReckoned == ASSUME CInv, Reckoned, [Next]_vars PROVE Reckoned'
<1>1. CASE \/ UNCHANGED <<crew, owed, gauge>> /\ {loop, loop'} \cap {"scan", "drain"} = {}
           \/ UNCHANGED <<crew, owed, gauge, cycle>> /\ {loop, loop'} \subseteq {"scan", "drain"}
  BY <1>1 DEF Reckoned
<1>2. CASE UNCHANGED <<crew, owed, gauge, loop, cycle>>
  BY <1>2 DEF Reckoned
<1>3. CASE StartWorkers /\ loop = "refresh" /\ cycle' = cycle
  BY <1>3 DEF StartWorkers, Reckoned, CInv, TypeOK
<1>4. CASE \E worker \in crew : Uncounted(worker)
  BY <1>4 DEF Uncounted, Reckoned
<1>5. ASSUME NEW w \in Worker, Done(w) PROVE Reckoned'
  <2>1. <<cycle, w>> \notin crew /\ owed' = owed \ {w} /\ UNCHANGED <<loop, cycle, crew>>
    BY <1>5 DEF Done, AfterUncounted
  <2>2. \A worker \in crew : worker[1] = cycle => worker[2] # w
    BY <2>1 DEF CInv, TypeOK
  <2> QED
    BY <2>1, <2>2 DEF Reckoned
<1>6. CASE EndScan
  BY <1>6 DEF EndScan, Reckoned
<1> QED
  BY <1>1, <1>2, <1>3, <1>4, <1>5, <1>6, PoolSteps

\* The gauge has all that earlier cycles left, whichever of them are still there.
LEMMA StepLeak == ASSUME CInv, LeakIsVisible, [Next]_vars PROVE LeakIsVisible'
<1>1. IsFiniteSet(crew) /\ crew \subseteq Nat \X Worker /\ gauge \in Nat
  BY DEF CInv, TypeOK
<1>2. IsFiniteSet(Leaked) /\ Cardinality(Leaked) \in Nat
  BY <1>1, FS_Subset, FS_CardinalityType DEF Leaked
<1>3. ASSUME Leaked' \subseteq Leaked, gauge' = gauge PROVE LeakIsVisible'
  <2>1. Cardinality(Leaked') \in Nat /\ Cardinality(Leaked') <= Cardinality(Leaked)
    BY <1>2, <1>3, FS_Subset, FS_CardinalityType
  <2> QED
    BY <1>1, <1>2, <1>3, <2>1 DEF LeakIsVisible
<1>4. CASE EndScan
  <2>1. Leaked' = crew /\ gauge' = Cardinality(crew)
    BY <1>4 DEF EndScan, Sample, Leaked
  <2>2. Cardinality(crew) \in Nat
    BY <1>1, FS_CardinalityType
  <2> QED
    BY <2>1, <2>2 DEF LeakIsVisible
<1>5. CASE StartWorkers /\ loop = "refresh" /\ cycle' = cycle
  <2>1. gauge' = gauge /\ Leaked' = {worker \in crew' : worker[1] # cycle} /\ Leaked = crew
    BY <1>5 DEF StartWorkers, Leaked
  <2>2. \A worker \in {cycle} \X Worker : worker[1] = cycle
    OBVIOUS
  <2>3. Leaked' \subseteq Leaked
    BY <1>5, <2>1, <2>2 DEF StartWorkers
  <2> QED
    BY <1>3, <2>1, <2>3
<1>6. CASE \E worker \in crew : Uncounted(worker)
  BY <1>3, <1>6 DEF Uncounted, Leaked
<1>7. CASE \E w \in Worker : Done(w)
  BY <1>3, <1>7 DEF Done, Leaked
<1>8. CASE UNCHANGED <<crew, owed, gauge, loop, cycle>>
  BY <1>3, <1>8 DEF Leaked
<1>9. CASE \/ UNCHANGED <<crew, owed, gauge>> /\ {loop, loop'} \cap {"scan", "drain"} = {}
           \/ UNCHANGED <<crew, owed, gauge, cycle>> /\ {loop, loop'} \subseteq {"scan", "drain"}
  BY <1>3, <1>9 DEF Leaked
<1> QED
  BY <1>4, <1>5, <1>6, <1>7, <1>8, <1>9, PoolSteps

\* A scrape shows the reading that the map has of some target on the volume, or
\* goes on showing the one before.
LEMMA ScrapeShows ==
  ASSUME CInv, OneReading, Scrape, NEW v \in Volume
  PROVE  /\ charted[v].cycle <= charted'[v].cycle /\ charted'[v].cycle <= cycle
         /\ charted'[v] = charted[v] \/ charted'[v] \in Readings(v)
         /\ \A p \in DOMAIN cache : cache[p] # Unavailable => charted'[v].cycle <= cache[p].cycle
<1>1. /\ charted[v].cycle \in Nat /\ cycle \in Nat
      /\ \A p \in DOMAIN cache : cache[p].cycle \in Nat
  BY DEF CInv, TypeOK, Reading
<1>2. CASE Readings(v) = {}
  <2>1. charted'[v] = charted[v]
    BY <1>2 DEF Scrape
  <2> QED
    BY <1>1, <2>1 DEF OneReading
<1>3. CASE Readings(v) # {}
  <2>1. charted'[v] \in Readings(v)
    BY <1>3 DEF Scrape
  <2>2. PICK p \in DOMAIN cache : charted'[v] = cache[p] /\ cache[p] # Unavailable
    BY <2>1 DEF Readings
  <2> QED
    BY <1>1, <2>1, <2>2 DEF OneReading
<1> QED
  BY <1>2, <1>3

Readers == OneReading /\ OldReadings

LEMMA StepReaders == ASSUME CInv, Readers, [Next]_vars PROVE Readers'
<1>1. /\ cycle \in Nat /\ \A v \in Volume : charted[v].cycle \in Nat
      /\ \A p \in DOMAIN cache : cache[p].cycle \in Nat
  BY DEF CInv, TypeOK, Reading
<1>2. CASE UNCHANGED <<cache, charted, cycle>> /\ (loop' = "refresh" => loop = "refresh")
  <2>1. \A v \in Volume : Readings(v)' = Readings(v)
    BY <1>2 DEF Readings
  <2> QED
    BY <1>2, <2>1 DEF Readers, OneReading, OldReadings
<1>3. CASE Begin
  <2>1. UNCHANGED <<cache, charted>> /\ cycle' = cycle + 1
    BY <1>3 DEF Begin, shown
  <2>2. \A v \in Volume : Readings(v)' = Readings(v)
    BY <2>1 DEF Readings
  <2> QED
    BY <1>1, <2>1, <2>2 DEF Readers, OneReading, OldReadings
<1>4. CASE Publish
  <2>1. /\ cache' = next /\ charted' = charted /\ cycle' = cycle
        /\ loop = "refresh" /\ loop' = "scan"
    BY <1>4 DEF Publish, StartWorkers
  <2>2. \A p \in DOMAIN next : next[p] = Unavailable \/ next[p].cycle = cycle
    BY <2>1 DEF CInv, Partition
  <2>3. \A v \in Volume : charted[v].cycle < cycle
    BY <2>1 DEF Readers, OldReadings
  <2> QED
    BY <1>1, <2>1, <2>2, <2>3 DEF Readers, OneReading, OldReadings
<1>5. CASE Scrape
  <2>1. UNCHANGED <<cache, cycle, loop>>
    BY <1>5 DEF Scrape
  <2>2. \A v \in Volume : Readings(v)' = Readings(v)
    BY <2>1 DEF Readings
  <2>3. \A v \in Volume : charted'[v] = charted[v] \/ charted'[v] \in Readings(v)
    BY <1>5, ScrapeShows DEF Readers
  <2>4. OneReading'
    BY <1>5, <2>1, <2>2, <2>3, ScrapeShows DEF Readers, OneReading
  <2>5. ASSUME loop = "refresh", NEW v \in Volume PROVE charted'[v].cycle < cycle
    BY <2>3, <2>5 DEF Readers, OldReadings, Readings
  <2> QED
    BY <2>1, <2>4, <2>5 DEF Readers, OldReadings
<1>6. \/ Begin \/ Publish \/ Scrape
      \/ UNCHANGED <<cache, charted, cycle>> /\ (loop' = "refresh" => loop = "refresh")
  BY DEF Next, vars, Refreshing, Query, TimesOut, Interrupted, CutShort, StartWorkers, ClosePool,
     EndScan, NextCycle, Leave, Returns, Probe, Probed, Scanned, Uncounted, Done, Hangs, SetTargets,
     Shutdown, shown
<1> QED
  BY <1>2, <1>3, <1>4, <1>5, <1>6

LEMMA InitIInv == Init => IInv
<1> SUFFICES ASSUME Init PROVE IInv
  OBVIOUS
<1>1. Leaked = {} /\ gauge = 0 /\ Cardinality({}) = 0
  BY FS_EmptySet DEF Init, Leaked
<1> QED
  BY <1>1, InitCInv DEF IInv, Init, Reckoned, LeakIsVisible, OneReading, OldReadings, Nothing,
     Unavailable

LEMMA StepIInv == IInv /\ [Next]_vars => IInv'
  BY StepCInv, StepReckoned, StepLeak, StepReaders DEF IInv, Readers

\* Only the end of a scan, outside a shutdown, raises readiness.
LEMMA StepReady ==
  ASSUME IInv, [Next]_vars, ready' # ready
  PROVE  ready' /\ paths # {} /\ reported = paths /\ ~cut
<1>1. EndScan
  BY DEF Next, vars, Begin, Refreshing, Query, TimesOut, Interrupted, CutShort, Publish,
     ClosePool, NextCycle, Leave, Returns, Probe, Probed, Scanned, Uncounted, Done, Hangs, SetTargets, Scrape,
     Shutdown
<1>2. ready' = (ready \/ ~cancelled) /\ loop = "drain"
  BY <1>1 DEF EndScan, Counts
<1>3. ~cancelled
  BY <1>2 DEF IInv, CInv, TypeOK
<1> QED
  BY <1>2, <1>3 DEF IInv, CInv, Earned

\* What the sample has beyond the gauge are workers of the cycle that ends.
LEMMA StepAlarm == ASSUME IInv, [Next]_vars, gauge' > gauge PROVE owed # {}
<1>1. crew \subseteq Nat \X Worker /\ gauge \in Nat
  BY DEF IInv, CInv, TypeOK
<1>2. EndScan
  BY <1>1, PoolSteps DEF StartWorkers, Uncounted, Done
<1>3. gauge' = Cardinality(crew) /\ loop = "drain"
  BY <1>2 DEF EndScan, Sample
<1>4. Leaked # crew
  BY <1>1, <1>3, FS_CardinalityType DEF IInv, CInv, TypeOK, LeakIsVisible
<1>5. PICK worker \in crew : worker[1] = cycle
  BY <1>3, <1>4 DEF Leaked
<1> QED
  BY <1>3, <1>5 DEF IInv, Reckoned

-------------------------------------------------------------------------------
\* Capacities shown while a cycle scans are this cycle's, for any targets.
THEOREM CapacitiesAreCurrent == Spec => []CapacityIsCurrent
<1>1. IInv => CapacityIsCurrent
  BY DEF IInv, CInv
<1> QED
  BY <1>1, InitIInv, StepIInv, PTL DEF Spec

\* Readiness stands for a whole cycle, and stays.
THEOREM ReadinessIsEarned == Spec => ReadyIsEarned
<1>1. IInv /\ [Next]_vars => (ready' # ready => ready' /\ paths # {} /\ reported = paths /\ ~cut)
  BY StepReady
<1>2. IInv /\ UNCHANGED vars => UNCHANGED vars
  OBVIOUS
<1> QED
  BY <1>1, InitIInv, StepIInv, PTL DEF Spec, ReadyIsEarned

\* The gauge covers every worker that earlier cycles have left behind, however
\* many cycles there were and whatever came back of them.
THEOREM LeaksAreVisible == Spec => []LeakIsVisible
<1>1. IInv => LeakIsVisible
  BY DEF IInv
<1> QED
  BY <1>1, InitIInv, StepIInv, PTL DEF Spec

\* A rise of the gauge is earned by a worker ScanAll still waits for.
THEOREM AlarmsAreEarned == Spec => AlarmIsEarned
<1>1. IInv /\ [Next]_vars => (gauge' > gauge => owed # {})
  BY StepAlarm
<1> QED
  BY <1>1, InitIInv, StepIInv, PTL DEF Spec, AlarmIsEarned

\* No scrape shows a capacity of an earlier cycle than an earlier scrape did,
\* however many targets share a volume and whichever of them could be read; and
\* where it goes back within a cycle, the map holds both of the readings.
THEOREM CapacitiesMoveOn == Spec => CapacityMovesOn
<1>1. IInv /\ [Next]_vars =>
        [\A v \in Volume : Older(charted'[v], charted[v]) =>
           /\ charted'[v].cycle = charted[v].cycle
           /\ {charted[v], charted'[v]} \subseteq Readings(v)]_vars
  <2> SUFFICES ASSUME IInv, [Next]_vars, NEW v \in Volume, Older(charted'[v], charted[v])
               PROVE  /\ charted'[v].cycle = charted[v].cycle
                      /\ {charted[v], charted'[v]} \subseteq Readings(v)
    OBVIOUS
  <2>1. charted[v] \in Reading /\ charted'[v] \in Reading
    BY StepIInv DEF IInv, CInv, TypeOK
  <2>2. charted'[v] # charted[v]
    BY <2>1 DEF Older, Reading
  <2>3. Scrape
    BY <2>2 DEF Next, vars, Begin, Refreshing, Query, TimesOut, Interrupted, CutShort, Publish,
       ClosePool, EndScan, NextCycle, Leave, Returns, Probe, Probed, Scanned, Uncounted, Done, Hangs,
       SetTargets, Shutdown, shown
  <2>4. charted[v].cycle <= charted'[v].cycle /\ charted'[v] \in Readings(v)
    BY <2>2, <2>3, ScrapeShows DEF IInv
  <2>5. charted'[v].cycle = charted[v].cycle
    BY <2>1, <2>4 DEF Older, Reading
  <2> QED
    BY <2>4, <2>5 DEF IInv, OneReading, Readings
<1> QED
  BY <1>1, InitIInv, StepIInv, PTL DEF Spec, CapacityMovesOn
===============================================================================
