--------------------------------- MODULE Store ---------------------------------
(***************************************************************************)
(* The retention rules of src/internal/state/store.go and what a scrape    *)
(* shows of them (src/internal/collector/collector.go).                    *)
(*                                                                         *)
(* The store is shared by the scan cycle, which marks walks started and    *)
(* applies their results to the paths it read when the cycle began, and by *)
(* reloads, which replace the tracked set at any moment, also between the  *)
(* two.  Here the engine does that in any order and with any result that   *)
(* fits; Pipeline joins the store with what the engine promises.           *)
(*                                                                         *)
(* A measurement is abstracted to its size: its other fields always travel *)
(* with it.  The cumulative counters of scan cost and of errors are left   *)
(* out; the two growth counters are not.                                   *)
(***************************************************************************)
EXTENDS Integers, Sequences

CONSTANTS
    Path,
    Sizes,              \* sizes a walk may measure
    StaleAfter,         \* Options.StaleAfter in ticks, zero never withdraws
    MaxClock, MaxCycles \* bounds of the instance

ASSUME ConstantsAssumption ==
    /\ Sizes \subseteq Nat /\ 0 \in Sizes
    /\ StaleAfter \in Nat
    /\ {MaxClock, MaxCycles} \subseteq Nat

VARIABLES
    publishPartial, \* Options.PublishPartial, fixed when the process starts
    now,        \* Store.now
    tracked,    \* the keys of Store.targets
    state,      \* Store.targets; a path that is not tracked has the blank state
    queued,     \* paths of the running cycle that ScanAll has not come to
    walking,    \* paths of the running cycle that are being walked
    cycles,     \* cycles started
    cancelled,  \* the process is shutting down
    completed,  \* history: completed scans applied since the path was tracked
    publishedAt,\* history: when the published measurement was last replaced
    kept        \* history: walks whose path has been tracked ever since

engine  == <<publishPartial, queued, walking, cycles, cancelled>>
history == <<completed, publishedAt, kept>>
vars == <<now, tracked, state, engine, history>>

Outcomes == {"complete", "partial", "timeout", "cancelled", "missing", "root_error"}

\* A completed scan the state remembers, or none (has is FALSE).
NoScan == [has |-> FALSE, size |-> 0, at |-> 0]

\* newTargetState: published, the baseline good and the one before it with their
\* times, the status of the last attempt, and the growth counters.
NewTargetState ==
    [ published |-> [has |-> FALSE, size |-> 0],
      good |-> NoScan,
      previousGood |-> NoScan,
      attempt |-> [has |-> FALSE, at |-> 0,
                   success |-> FALSE, partial |-> FALSE, present |-> FALSE],
      bytesAdded |-> 0,
      bytesRemoved |-> 0,
      scanning |-> FALSE ]

Init ==
    /\ publishPartial \in BOOLEAN
    /\ now = 1
    /\ tracked \in SUBSET Path \ {{}}
    /\ state = [p \in Path |-> NewTargetState]
    /\ queued = {} /\ walking = {} /\ cycles = 0 /\ cancelled = FALSE
    /\ completed = [p \in Path |-> <<>>]
    /\ publishedAt = [p \in Path |-> 0]
    /\ kept = {}

-------------------------------------------------------------------------------
(* Store operations.                                                       *)

\* Fault: a path that is dropped keeps its state for when it comes back.
NeverForgotten(p, paths) == state[p]

\* What the store holds of p once paths is the tracked set.
Survivor(p, paths) == IF p \in paths \cap tracked THEN state[p] ELSE NewTargetState

SetTargets(paths) ==
    /\ paths # tracked
    /\ tracked' = paths
    /\ state' = [p \in Path |-> Survivor(p, paths)]
    /\ kept' = kept \cap paths
    /\ completed' = [p \in Path |-> IF p \in paths \cap tracked THEN completed[p] ELSE <<>>]
    /\ publishedAt' = [p \in Path |-> IF p \in paths \cap tracked THEN publishedAt[p] ELSE 0]
    /\ UNCHANGED <<now, engine>>

MarkScanStarted(p) ==
    /\ queued' = queued \ {p}
    /\ walking' = walking \cup {p}
    /\ IF p \in tracked
         THEN state' = [state EXCEPT ![p].scanning = TRUE] /\ kept' = kept \cup {p}
         ELSE UNCHANGED <<state, kept>>
    /\ UNCHANGED <<publishPartial, now, tracked, cycles, cancelled, completed, publishedAt>>

\* Fault: a failure after a success leaves the success flag up.
OnceSucceeded(s, outcome) == s.attempt.success \/ outcome = "complete"

Succeeded(s, outcome) == outcome = "complete"

\* The status every outcome but "cancelled" leaves behind.
Attempt(s, outcome) ==
    [ has |-> TRUE, at |-> now,
      success |-> Succeeded(s, outcome),
      partial |-> outcome \notin {"complete", "missing"},
      present |-> outcome # "missing" ]

\* Fault: growth is measured against what was last shown.
ShownBaseline(s) == s.published.size

\* The size growth is measured against.
Baseline(s) == s.good.size

\* Fault: the first completed scan counts as growth from nothing.
FromNothing(s) == TRUE

\* Growth is measured from the second completed scan on.
HasBaseline(s) == s.good.has

\* A delta counts in the one of the two growth counters it belongs to.
Positive(n) == IF n > 0 THEN n ELSE 0

Grew(s, n)   == IF HasBaseline(s) THEN s.bytesAdded + Positive(n - Baseline(s)) ELSE s.bytesAdded
Shrank(s, n) == IF HasBaseline(s) THEN s.bytesRemoved + Positive(Baseline(s) - n) ELSE s.bytesRemoved

Previous(s) ==
    IF HasBaseline(s) THEN [has |-> TRUE, size |-> Baseline(s), at |-> s.good.at]
    ELSE s.previousGood

\* Fault: a partial walk replaces the measurement whatever the options say.
AnyPartial(outcome) == outcome = "partial"

\* Of what is not complete, what may be shown.
Publishable(outcome) == publishPartial /\ outcome = "partial"

\* Apply on the state of one target.  A cancelled walk is no evidence: only the
\* in-progress flag is cleared.
Fold(s, outcome, n) ==
    CASE outcome = "cancelled" -> [s EXCEPT !.scanning = FALSE]
      [] outcome = "complete" ->
           [ published |-> [has |-> TRUE, size |-> n],
             good |-> [has |-> TRUE, size |-> n, at |-> now],
             previousGood |-> Previous(s),
             attempt |-> Attempt(s, outcome),
             bytesAdded |-> Grew(s, n),
             bytesRemoved |-> Shrank(s, n),
             scanning |-> FALSE ]
      [] OTHER ->
           [s EXCEPT !.attempt = Attempt(s, outcome), !.scanning = FALSE,
                     !.published = IF Publishable(outcome) THEN [has |-> TRUE, size |-> n] ELSE @]

\* Apply: the walk of p has ended.  A path that is no longer tracked is ignored.
Apply(p, outcome, size) ==
    /\ walking' = walking \ {p}
    /\ kept' = kept \ {p}
    /\ IF p \in tracked
         THEN /\ state' = [state EXCEPT ![p] = Fold(@, outcome, size)]
              /\ completed' = [completed EXCEPT ![p] =
                    IF outcome = "complete" THEN Append(@, [size |-> size, at |-> now]) ELSE @]
              /\ publishedAt' = [publishedAt EXCEPT ![p] =
                    IF outcome = "complete" \/ Publishable(outcome) THEN now ELSE @]
         ELSE UNCHANGED <<state, completed, publishedAt>>
    /\ UNCHANGED <<publishPartial, now, tracked, queued, cycles, cancelled>>

-------------------------------------------------------------------------------
(* The callers and the clock.                                              *)

\* No cycle is running: ScanAll is single-flight.
AtRest == queued = {} /\ walking = {}

\* What a walk may report: cancelled only at shutdown, and a root that cannot be
\* used with nothing measured.
Admissible(outcome, size) ==
    /\ outcome = "cancelled" => cancelled
    /\ outcome \in {"missing", "root_error"} => size = 0

\* runCycle reads the tracked paths once.  The timer of scanLoop may win over
\* the shutdown, so a cycle may also start after it.
StartCycle ==
    /\ tracked # {} /\ cycles < MaxCycles
    /\ queued' = tracked
    /\ cycles' = cycles + 1
    /\ UNCHANGED <<publishPartial, now, tracked, state, walking, cancelled, history>>

Shutdown ==
    /\ ~cancelled
    /\ cancelled' = TRUE
    /\ UNCHANGED <<publishPartial, now, tracked, state, queued, walking, cycles, history>>

Tick ==
    /\ now < MaxClock
    /\ now' = now + 1
    /\ UNCHANGED <<tracked, state, engine, history>>

Next ==
    \/ \E paths \in SUBSET Path : SetTargets(paths)
    \/ \E p \in queued : MarkScanStarted(p)
    \/ \E p \in walking, o \in Outcomes, n \in Sizes : Admissible(o, n) /\ Apply(p, o, n)
    \/ AtRest /\ StartCycle
    \/ Shutdown \/ Tick

Spec == Init /\ [][Next]_vars

-------------------------------------------------------------------------------
(* What a scrape shows: snapshotLocked and Collector.collectTarget.        *)

\* Fault: the scan age is taken from the last attempt.
AttemptFresh(s) == StaleAfter = 0 \/ now - s.attempt.at <= StaleAfter

\* The last completed scan is not older than the threshold.
Fresh(s) == StaleAfter = 0 \/ now - s.good.at <= StaleAfter

\* The size series.
SizeShown(p) ==
    p \in tracked /\ state[p].published.has /\ (state[p].good.has => Fresh(state[p]))

\* The growth counters: present from the first completed scan on.
GrowthShown(p) == p \in tracked /\ state[p].good.has

\* The delta and the interval it spans.
DeltaShown(p) == SizeShown(p) /\ state[p].good.has /\ state[p].previousGood.has
DeltaBytes(p) == state[p].good.size - state[p].previousGood.size
DeltaInterval(p) == state[p].good.at - state[p].previousGood.at

-------------------------------------------------------------------------------
(* Properties.                                                             *)

Remembered == [has : BOOLEAN, size : Nat, at : Nat]

Status ==
    [has : BOOLEAN, at : Nat, success : BOOLEAN, partial : BOOLEAN, present : BOOLEAN]

TargetState ==
    [ published : [has : BOOLEAN, size : Nat],
      good : Remembered,
      previousGood : Remembered,
      attempt : Status,
      bytesAdded : Nat,
      bytesRemoved : Nat,
      scanning : BOOLEAN ]

Scan == [size : Sizes, at : Nat]

TypeOK ==
    /\ publishPartial \in BOOLEAN
    /\ now \in Nat
    /\ tracked \subseteq Path
    /\ state \in [Path -> TargetState]
    /\ queued \subseteq Path /\ walking \subseteq Path
    /\ cycles \in Nat /\ cancelled \in BOOLEAN
    /\ completed \in [Path -> Seq(Scan)]
    /\ publishedAt \in [Path -> Nat]
    /\ kept \subseteq Path

\* The two growth counters telescope: what was added less what was removed is
\* the difference between the last and the first completed scan, whatever
\* partial readings, timeouts, cancellations and reloads came in between.
GrowthTelescopes ==
    \A p \in tracked :
        LET s == state[p]  done == completed[p] IN
        s.bytesAdded - s.bytesRemoved =
            IF done = <<>> THEN 0 ELSE done[Len(done)].size - done[1].size

\* The delta and its interval are those of the last two completed scans, so a
\* rate derived from them is right however many scans failed in between.
DeltaSpansCompletedScans ==
    \A p \in Path : DeltaShown(p) =>
        LET done == completed[p]  n == Len(done) IN
        /\ n >= 2
        /\ DeltaBytes(p) = done[n].size - done[n - 1].size
        /\ DeltaInterval(p) = done[n].at - done[n - 1].at

\* Without publish-partial a size is shown exactly while there is a completed
\* scan no older than StaleAfter, and it is the size that scan measured.
ShownIffFresh ==
    ~publishPartial => \A p \in tracked :
        LET done == completed[p]  n == Len(done) IN
        /\ SizeShown(p) <=>
             n > 0 /\ (StaleAfter = 0 \/ now - done[n].at <= StaleAfter)
        /\ SizeShown(p) => state[p].published.size = done[n].size

\* When the last attempt is reported as a success, the size that is shown is
\* the size that attempt measured, and no status series contradicts it.
SuccessMeansCurrent ==
    \A p \in tracked : state[p].attempt.success =>
        LET s == state[p]  done == completed[p]  n == Len(done) IN
        /\ n > 0 /\ done[n].at = s.attempt.at /\ s.published.size = done[n].size
        /\ s.attempt.present /\ ~s.attempt.partial

\* The in-progress flag is up exactly while a walk runs whose target has been
\* tracked since the walk began: no walk, report or reload leaves it behind.
InProgressExact == \A p \in Path : state[p].scanning <=> p \in kept

\* A step that changes a shown size, or a growth counter, is the end of a
\* completed scan: the governing rule of the retention table.
OnlyCompleteMoves ==
    [][\A p \in tracked \cap tracked' :
          \/ Len(completed'[p]) > Len(completed[p])
          \/ /\ publishPartial \/ state'[p].published = state[p].published
             /\ state'[p].bytesAdded = state[p].bytesAdded
             /\ state'[p].bytesRemoved = state[p].bytesRemoved
             /\ state'[p].previousGood = state[p].previousGood]_vars

\* While a target stays tracked its growth counters never go away again: not
\* when the measurement turns stale, not when the directory goes missing.
GrowthSeriesStays ==
    [][\A p \in tracked \cap tracked' : GrowthShown(p) => GrowthShown(p)']_vars

\* What Options.StaleAfter says: a measurement older than it is withdrawn.
StaleWithdrawn ==
    \A p \in Path : SizeShown(p) /\ StaleAfter > 0 => now - publishedAt[p] <= StaleAfter
===============================================================================
