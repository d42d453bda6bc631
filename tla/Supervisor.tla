------------------------------- MODULE Supervisor -------------------------------
(***************************************************************************)
(* The two timeouts of one target's scan against a clock                   *)
(* (Engine.supervise in src/internal/scan/engine.go).  ScanCycle lets its  *)
(* timers fire at any moment; here each has its due time, so that how long *)
(* a supervisor can wait, and whom it declares timed out, can be stated.   *)
(*                                                                         *)
(* The workers are the environment: the walk ends at some moment or never. *)
(* Goroutines take no time: the clock stands while the supervisor can act. *)
(***************************************************************************)
EXTENDS Integers

CONSTANTS
    ScanTimeouts, HardTimeouts, DrainTimeouts,  \* values of Config to try
    MaxClock                                    \* bound of the instance

ASSUME ConstantsAssumption ==
    /\ ScanTimeouts \subseteq Nat /\ HardTimeouts \subseteq Nat
    /\ DrainTimeouts \subseteq Nat \ {0}
    /\ MaxClock \in Nat

VARIABLES
    scanTimeout, hardTimeout, drainTimeout,     \* Config, fixed by Init
    now,        \* ticks since the supervisor started
    phase,      \* "await", "draining", one of Deciding, "reported"
    drainAt,    \* when the drain timer is due
    latch,      \* targetScan.done is closed
    abandoned,  \* targetScan.abandoned
    faulty,     \* the target's error tally is not empty
    cancelled,  \* the root context is done
    outcome,
    endedAt,    \* history: when the walk closed the latch, Never if it has not
    cancelledAt \* history

config == <<scanTimeout, hardTimeout, drainTimeout>>
walk   == <<latch, abandoned, faulty, endedAt>>
vars   == <<config, now, phase, drainAt, walk, cancelled, outcome, cancelledAt>>

Never == -1

Init ==
    /\ scanTimeout \in ScanTimeouts
    /\ hardTimeout \in HardTimeouts
    /\ drainTimeout \in DrainTimeouts
    /\ now = 0
    /\ phase = "await"
    /\ drainAt = Never
    /\ latch = FALSE /\ abandoned = FALSE /\ faulty = FALSE
    /\ cancelled = FALSE
    /\ outcome = "none"
    /\ endedAt = Never /\ cancelledAt = Never

\* newOptionalTimer: a duration of zero is a timer that never fires.
Enabled(d) == d > 0

\* context.WithTimeout, made only when there is a scan timeout.
DeadlinePassed == scanTimeout > 0 /\ now >= scanTimeout

\* Fault: the scan's context is not derived from the root context.
Detached == DeadlinePassed

\* scanCtx.Done: the deadline of the scan, or the end of the root context.
Interrupted == DeadlinePassed \/ cancelled

HardDue == Enabled(hardTimeout) /\ now >= hardTimeout

\* longest: a disabled timeout never wins.
Longest(a, b) == IF a > b THEN a ELSE b

DrainTime == Longest(hardTimeout, drainTimeout)
DrainDue  == Enabled(DrainTime) /\ now >= drainAt

WalkDone ==
    /\ phase \in {"await", "draining"} /\ latch
    /\ phase' = "decide"
    /\ UNCHANGED <<config, now, drainAt, walk, cancelled, outcome, cancelledAt>>

\* scanCtx.Done: a timer of its own starts for the workers to notice.
DeadlineSeen ==
    /\ phase = "await" /\ Interrupted
    /\ phase' = "draining"
    /\ drainAt' = now + DrainTime
    /\ UNCHANGED <<config, now, walk, cancelled, outcome, cancelledAt>>

Abandon ==
    /\ \/ phase = "await" /\ HardDue
       \/ phase = "draining" /\ DrainDue
    /\ abandoned' = TRUE /\ latch' = TRUE
    /\ phase' = "decide"
    /\ UNCHANGED <<config, now, drainAt, faulty, endedAt, cancelled, outcome, cancelledAt>>

\* Fault: the deadline is not looked at, only the abandonment.
DeadlineForgotten == abandoned

\* scanCtx is the root context or derived from it, so its Err tells of both.
OutOfTime == Interrupted \/ abandoned

Conclude(verdict) == outcome' = verdict /\ phase' = "reported"

GoOn(next) == phase' = next /\ UNCHANGED outcome

\* The switch of supervise reads the root context, then the scan's, then the
\* errors; the signal may come between any two of these.
AskRoot ==
    /\ phase = "decide"
    /\ IF cancelled THEN Conclude("cancelled") ELSE GoOn("judge")

AskScan ==
    /\ phase = "judge"
    /\ IF OutOfTime THEN Conclude("timeout") ELSE GoOn("tally")

AskTotals ==
    /\ phase = "tally"
    /\ Conclude(IF faulty THEN "partial" ELSE "complete")

Decide ==
    /\ AskRoot \/ AskScan \/ AskTotals
    /\ UNCHANGED <<config, now, drainAt, walk, cancelled, cancelledAt>>

-------------------------------------------------------------------------------
(* The environment: the walk, the signal and the clock.                    *)

WalkEnds ==
    /\ ~latch
    /\ latch' = TRUE /\ endedAt' = now
    /\ faulty' \in BOOLEAN
    /\ UNCHANGED <<config, now, phase, drainAt, abandoned, cancelled, outcome, cancelledAt>>

Shutdown ==
    /\ ~cancelled
    /\ cancelled' = TRUE /\ cancelledAt' = now
    /\ UNCHANGED <<config, now, phase, drainAt, walk, outcome>>

Deciding == {"decide", "judge", "tally"}

\* The supervisor has something to do right now.
Busy ==
    \/ phase \in {"await", "draining"} /\ latch
    \/ phase = "await" /\ (Interrupted \/ HardDue)
    \/ phase = "draining" /\ DrainDue
    \/ phase \in Deciding

Tick ==
    /\ ~Busy /\ now < MaxClock
    /\ now' = now + 1
    /\ UNCHANGED <<config, phase, drainAt, walk, cancelled, outcome, cancelledAt>>

\* The supervisor has returned.
Finished == phase = "reported" /\ UNCHANGED vars

Next ==
    \/ WalkDone \/ DeadlineSeen \/ Abandon \/ Decide
    \/ WalkEnds \/ Shutdown \/ Tick \/ Finished

Spec == Init /\ [][Next]_vars

-------------------------------------------------------------------------------
(* Properties.                                                             *)

Phases   == {"await", "draining", "reported"} \cup Deciding
Outcomes == {"none", "complete", "partial", "timeout", "cancelled"}

TypeOK ==
    /\ scanTimeout \in Nat /\ hardTimeout \in Nat /\ drainTimeout \in Nat \ {0}
    /\ now \in Nat
    /\ phase \in Phases
    /\ drainAt \in Nat \cup {Never}
    /\ latch \in BOOLEAN /\ abandoned \in BOOLEAN
    /\ faulty \in BOOLEAN /\ cancelled \in BOOLEAN
    /\ outcome \in Outcomes
    /\ endedAt \in Nat \cup {Never}
    /\ cancelledAt \in Nat \cup {Never}

Waiting == phase \in {"await", "draining"}

\* How long a supervisor can wait, whatever the workers do: up to the scan
\* timeout, or shutdown, and the longer of the other two after it; without
\* either, up to the hard timeout.
WaitIsBounded ==
    Waiting =>
      /\ scanTimeout > 0 => now <= scanTimeout + DrainTime
      /\ cancelled => now <= cancelledAt + DrainTime
      /\ scanTimeout = 0 /\ hardTimeout > 0 /\ ~cancelled => now <= hardTimeout

\* A walk that ended in time is not reported timed out, unless the signal comes in
\* the very moment between the look at the root context and the look at the
\* scan's, which then is done too; one is reported as finished only if it ended in
\* time and was not given up on; and one that the signal found still going is
\* reported as nothing but cancelled.
VerdictFits ==
    /\ outcome = "timeout" =>
         \/ endedAt = Never
         \/ scanTimeout > 0 /\ endedAt >= scanTimeout
         \/ hardTimeout > 0 /\ endedAt >= hardTimeout
         \/ cancelled /\ cancelledAt = endedAt
    /\ outcome \in {"complete", "partial"} =>
         /\ ~abandoned /\ endedAt # Never
         /\ scanTimeout > 0 => endedAt < scanTimeout
         /\ hardTimeout > 0 => endedAt <= hardTimeout
    /\ outcome \in {"complete", "partial", "timeout"} /\ cancelled => cancelledAt >= endedAt
===============================================================================
