------------------------------- MODULE ScanCycle -------------------------------
(***************************************************************************)
(* One call of Engine.ScanAll (src/internal/scan/engine.go): the fixed     *)
(* pool of workers that walk the trees of all targets together, one        *)
(* supervisor per target that decides how its walk ended, the latch that   *)
(* tells a supervisor its walk is over, and the main goroutine that starts *)
(* the targets, closes the pool and waits for the workers.                 *)
(*                                                                         *)
(* A queued directory (dirRef) is identified with its directory: a tree    *)
(* contains each directory once, so at[d] says where the reference to d is *)
(* and by[d] which worker has it.  The order of the pool's stacks is       *)
(* abstracted (any queued reference may be next); sizes, byte totals and   *)
(* the classification of errors are abstracted to the set of files counted,*)
(* those of them whose bytes were left out because another link to the     *)
(* same inode had been counted, and to whether some error was recorded.    *)
(***************************************************************************)
EXTENDS Integers, FiniteSets

CONSTANTS
    Target, Worker, Dir, File,
    Skipped,        \* entries passed over: links, sockets, other filesystems
    Root,           \* Root[t]: the directory target t names
    Owner,          \* Owner[d]: the target whose tree contains d
    Contents,       \* Contents[d]: the directories and files directly in d
    Inode,          \* Inode[f]: device and inode of file f
    LinkedElsewhere,    \* files with a further hard link outside all trees
    Flaky,          \* entries on which a system call may fail (EACCES, EIO)
    Rotations,      \* sets of entries that log rotation may remove at once
    NoDirectory,    \* targets whose path may turn out to name something else
    Hung,           \* targets on a mount whose system calls may never return
    ScanTimeoutOn, HardTimeoutOn, RateLimited,  \* Config, zero disables each
    DedupHardlinks,                             \* Config
    BatchSize, ShareThreshold, QueueLimit, MaxTracked,  \* Config
    NoWorker

Entry  == Dir \cup File \cup Skipped
Inodes == {Inode[f] : f \in File}

ASSUME ConstantsAssumption ==
    /\ IsFiniteSet(Target) /\ IsFiniteSet(Dir) /\ IsFiniteSet(File)
    /\ Dir \cap File = {}
    /\ Root \in [Target -> Dir]
    /\ Owner \in [Dir -> Target]
    /\ \A t \in Target : Owner[Root[t]] = t
    /\ Contents \in [Dir -> SUBSET Entry]
    /\ \A d \in Dir : \A c \in Contents[d] \cap Dir : Owner[c] = Owner[d]
    /\ Flaky \subseteq Entry
    /\ Rotations \subseteq SUBSET Entry
    /\ Hung \subseteq Target /\ NoDirectory \subseteq Target
    /\ {ScanTimeoutOn, HardTimeoutOn, RateLimited} \subseteq BOOLEAN
    /\ {BatchSize, ShareThreshold, QueueLimit} \subseteq Nat \ {0}
    /\ NoWorker \notin Worker

\* What is passed over is neither a directory nor a file; dedup has a cap.
ASSUME LinksAssumption ==
    /\ Skipped \cap (Dir \cup File) = {}
    /\ Inode \in [File -> Inodes]
    /\ LinkedElsewhere \subseteq File
    /\ DedupHardlinks \in BOOLEAN
    /\ MaxTracked \in Nat \ {0}

\* A directory is in one parent at most, and no root is in another directory.
ASSUME TreeAssumption ==
    /\ \A p, q \in Dir : Contents[p] \cap Contents[q] # {} => p = q
    /\ \A t \in Target, p \in Dir : Root[t] \notin Contents[p]

\* What is at or below entry d: the least set with d and its contents.
Below(d) ==
    {e \in Entry : \A S \in SUBSET Entry :
        d \in S /\ (\A x \in S \cap Dir : Contents[x] \subseteq S) => e \in S}

\* A target's directories hang below its root, and what removes a directory
\* removes what is in it.
ASSUME ReachAssumption ==
    /\ \A d \in Dir : d \in Below(Root[Owner[d]])
    /\ \A gone \in Rotations : \A d \in gone \cap Dir : Contents[d] \subseteq gone

VARIABLES
    main,       \* "loop": starting targets, "drain": pool closed, "returned"
    phase,      \* progress of each target, from not started to reported
    outcome,    \* the outcome its supervisor decided on
    pending,    \* targetScan.pending
    latch,      \* targetScan.done is closed
    abandoned,  \* targetScan.abandoned
    expired,    \* the deadline of the target's context has passed
    cancelled,  \* the root context is done: the process is shutting down
    counted,    \* files accounted for in the target's totals
    faulty,     \* the target's error tally is not empty
    inodes,     \* targetScan.inodes: inodes of the files with several links
    exhausted,  \* targetScan.inodesExhausted
    spared,     \* files accounted for whose bytes another link stands for
    at, by,     \* where the reference to each directory is
    pc,         \* what each worker does next
    listed,     \* entries the worker's ReadSome calls have returned
    sums,       \* files in the worker's dirTotals
    failed,     \* the worker's dirTotals hold an error
    present,    \* entries that exist on disk
    opened      \* directories OpenDir has succeeded on (history)

supervision == <<phase, outcome>>
counters    == <<pending, latch>>
stops       == <<abandoned, expired, cancelled>>
totals      == <<counted, faulty>>
links       == <<inodes, exhausted, spared>>
refs        == <<at, by>>
local       == <<listed, sums, failed>>
disk        == <<present, opened>>
vars == <<main, supervision, counters, stops, totals, links, refs, pc, local, disk>>

Deciding == {"decide", "judge", "tally"}
Phases   == {"idle", "probing", "await", "draining", "report", "reported"} \cup Deciding
Outcomes == {"none", "complete", "partial", "timeout", "cancelled", "missing", "root_error"}
Places   == {"unseen", "found", "reserved", "local", "deque", "held", "done", "dropped"}
Steps    == {"next", "wait", "dispatch", "open", "check", "read", "flush",
             "reserve", "push", "complete", "after", "exited"}

Init ==
    /\ main = "loop"
    /\ phase = [t \in Target |-> "idle"]
    /\ outcome = [t \in Target |-> "none"]
    /\ pending = [t \in Target |-> 0]
    /\ latch = [t \in Target |-> FALSE]
    /\ abandoned = [t \in Target |-> FALSE]
    /\ expired = [t \in Target |-> FALSE]
    /\ cancelled = FALSE
    /\ counted = [t \in Target |-> {}]
    /\ faulty = [t \in Target |-> FALSE]
    /\ inodes = [t \in Target |-> {}]
    /\ exhausted = [t \in Target |-> FALSE]
    /\ spared = {}
    /\ at = [d \in Dir |-> "unseen"]
    /\ by = [d \in Dir |-> NoWorker]
    /\ pc = [w \in Worker |-> "next"]
    /\ listed = [w \in Worker |-> {}]
    /\ sums = [w \in Worker |-> {}]
    /\ failed = [w \in Worker |-> FALSE]
    /\ present = Entry
    /\ opened = {}

closed == main # "loop"

\* targetScan.stopping: the target is abandoned or its context is done.
Stopping(t) == abandoned[t] \/ expired[t] \/ cancelled

Deque           == {d \in Dir : at[d] = "deque"}
Having(w, p)    == {d \in Dir : at[d] = p /\ by[d] = w}
Holds(w, d)     == at[d] = "held" /\ by[d] = w
Goto(w, step)   == pc' = [pc EXCEPT ![w] = step]

\* Move the references ds to place p of worker w; the others stay.
Move(ds, p, w) ==
    /\ at' = [d \in Dir |-> IF d \in ds THEN p ELSE at[d]]
    /\ by' = [d \in Dir |-> IF d \in ds THEN w ELSE by[d]]

-------------------------------------------------------------------------------
(* Workers: Engine.worker, pool.next, processDir, pool.push.               *)

\* pool.next, first test: a closed pool releases the worker.
LeaveClosed(w) ==
    /\ pc[w] = "next" /\ closed
    /\ Goto(w, "exited")
    /\ UNCHANGED <<main, supervision, counters, stops, totals, links, refs, local, disk>>

\* pool.next: the worker's own stack is served first.
PopLocal(w, d) ==
    /\ pc[w] = "next" /\ ~closed /\ d \in Having(w, "local")
    /\ Move({d}, "held", w)
    /\ Goto(w, "dispatch")
    /\ UNCHANGED <<main, supervision, counters, stops, totals, links, local, disk>>

\* pool.next: with an empty stack the worker turns to the shared queue.
GoShared(w) ==
    /\ pc[w] = "next" /\ ~closed /\ Having(w, "local") = {}
    /\ Goto(w, "wait")
    /\ UNCHANGED <<main, supervision, counters, stops, totals, links, refs, local, disk>>

\* pool.next under the mutex: the queue is looked at before closed is, again.
PopShared(w, d) ==
    /\ pc[w] = "wait" /\ d \in Deque
    /\ Move({d}, "held", w)
    /\ Goto(w, "dispatch")
    /\ UNCHANGED <<main, supervision, counters, stops, totals, links, local, disk>>

\* Fault: close does not broadcast, so parked workers never look at it.
NeverWoken == FALSE

\* A parked worker notices that the pool was closed.
WokenByClose == closed

LeaveParked(w) ==
    /\ pc[w] = "wait" /\ Deque = {} /\ WokenByClose
    /\ Goto(w, "exited")
    /\ UNCHANGED <<main, supervision, counters, stops, totals, links, refs, local, disk>>

\* Fault: the latch closes one directory early.
LastButOne(n) == n <= 2

\* Fault: the count is tested before it drops, not after.
NoneLeft(n) == n = 0

\* Is a pending count of n about to drop to zero?
LastOne(n) == n = 1

\* targetScan.completeDir: the last directory to finish closes the latch.
CompleteDir(d) ==
    LET t == Owner[d] IN
    /\ pending' = [pending EXCEPT ![t] = @ - 1]
    /\ latch' = [latch EXCEPT ![t] = @ \/ LastOne(pending[t])]
    /\ Move({d}, "done", NoWorker)

\* A reference to a target that is stopping is dropped without any I/O.
Discard(w, d) ==
    /\ pc[w] = "dispatch" /\ Holds(w, d) /\ Stopping(Owner[d])
    /\ CompleteDir(d)
    /\ Goto(w, "next")
    /\ UNCHANGED <<main, supervision, stops, totals, links, local, disk>>

Dispatch(w, d) ==
    /\ pc[w] = "dispatch" /\ Holds(w, d) /\ ~Stopping(Owner[d])
    /\ Goto(w, "open")
    /\ UNCHANGED <<main, supervision, counters, stops, totals, links, refs, local, disk>>

\* processDir: OpenDir. The worker's totals were emptied by the last Flush.
OpenOK(w, d) ==
    /\ pc[w] = "open" /\ Holds(w, d) /\ d \in present
    /\ opened' = opened \cup {d}
    /\ Goto(w, "check")
    /\ UNCHANGED <<main, supervision, counters, stops, totals, links, refs, local, present>>

\* A directory that vanished since it was listed is rotation, not an error.
OpenVanished(w, d) ==
    /\ pc[w] = "open" /\ Holds(w, d) /\ d \notin present
    /\ Goto(w, "complete")
    /\ UNCHANGED <<main, supervision, counters, stops, totals, links, refs, local, disk>>

OpenFails(w, d) ==
    /\ pc[w] = "open" /\ Holds(w, d) /\ d \in Flaky
    /\ faulty' = [faulty EXCEPT ![Owner[d]] = TRUE]
    /\ Goto(w, "complete")
    /\ UNCHANGED <<main, supervision, counters, stops, counted, links, refs, local, disk>>

\* The test at the head of the read loop, once per batch.
CheckStop(w, d) ==
    /\ pc[w] = "check" /\ Holds(w, d)
    /\ Goto(w, IF Stopping(Owner[d]) THEN "flush" ELSE "read")
    /\ UNCHANGED <<main, supervision, counters, stops, totals, links, refs, local, disk>>

\* Only regular files are counted.
Countable(entries) == entries \cap File

\* Nlink > 1: another link of the file is outside the trees, or still in one.
Linked(f) ==
    \/ f \in LinkedElsewhere
    \/ \E g \in (File \cap present) \ {f} : Inode[g] = Inode[f]

\* Fault: one table of inodes serves all targets.
OneTable(t) == UNION {inodes[u] : u \in Target}

\* The inodes a file is looked up in are those of its own target.
Tracked(t) == inodes[t]

\* Fault: a link that finds the table full goes unnoticed.
NothingMissed(unseen, table) == {}

\* Files of an inode for which there was no room in the table.
Missed(unseen, table) == {f \in unseen : Inode[f] \notin table}

\* targetScan.shouldCount for each file of a batch: of the files with several
\* links, the first of an inode enters it in the table, a later one is spared,
\* and one that finds the table full is counted whatever was counted before.
ShouldCount(t, files) ==
    LET several == {f \in files : DedupHardlinks /\ Linked(f)}
        unseen  == {f \in several : Inode[f] \notin Tracked(t)}
    IN  \E first \in SUBSET unseen :
          LET table == Tracked(t) \cup {Inode[f] : f \in first} IN
          /\ \A f, g \in first : Inode[f] = Inode[g] => f = g
          /\ first = {} \/ Cardinality(table) <= MaxTracked
          /\ (\A f \in unseen : Inode[f] \in table) \/ Cardinality(table) >= MaxTracked
          /\ inodes' = [inodes EXCEPT ![t] = table]
          /\ exhausted' = [exhausted EXCEPT ![t] = @ \/ Missed(unseen, table) # {}]
          /\ spared' = spared \cup ({f \in several : Inode[f] \in table} \ first)

\* ReadSome and processEntry on each entry it returned.  An entry that is gone
\* by the time it is stat'ed only raises the vanished count; any other error
\* on an entry is recorded and the entry is skipped.
ReadBatch(w, d) ==
    /\ pc[w] = "read" /\ Holds(w, d)
    /\ \E batch \in SUBSET (Contents[d] \ listed[w]) :
        /\ batch # {} /\ Cardinality(batch) <= BatchSize
        /\ \E bad \in SUBSET (batch \cap present \cap Flaky) :
            LET good == (batch \cap present) \ bad IN
            /\ listed' = [listed EXCEPT ![w] = @ \cup batch]
            /\ sums' = [sums EXCEPT ![w] = @ \cup Countable(good)]
            /\ failed' = [failed EXCEPT ![w] = @ \/ bad # {}]
            /\ Move(good \cap Dir, "found", w)
            /\ ShouldCount(Owner[d], good \cap File)
    /\ Goto(w, "check")
    /\ UNCHANGED <<main, supervision, counters, stops, totals, disk>>

\* An empty ReadSome: every entry still there has been returned.
EndOfDir(w, d) ==
    /\ pc[w] = "read" /\ Holds(w, d) /\ Contents[d] \cap present \subseteq listed[w]
    /\ Goto(w, "flush")
    /\ UNCHANGED <<main, supervision, counters, stops, totals, links, refs, local, disk>>

ReadFails(w, d) ==
    /\ pc[w] = "read" /\ Holds(w, d) /\ d \in Flaky
    /\ failed' = [failed EXCEPT ![w] = TRUE]
    /\ Goto(w, "flush")
    /\ UNCHANGED <<main, supervision, counters, stops, totals, links, refs, listed, sums, disk>>

\* waitForTokens fails only when the root context is done; the batch is lost.
LimiterStops(w, d) ==
    /\ pc[w] = "read" /\ Holds(w, d) /\ RateLimited /\ cancelled
    /\ Goto(w, "flush")
    /\ UNCHANGED <<main, supervision, counters, stops, totals, links, refs, local, disk>>

\* Fault: the totals of one directory are carried over to the next.
CarriedOver(w) == sums[w]

\* processDir begins every directory with empty totals.
Emptied(w) == {}

\* targetScan.flush, and the reset of the totals for the next directory.
Flush(w, d) ==
    LET t == Owner[d] IN
    /\ pc[w] = "flush" /\ Holds(w, d)
    /\ counted' = [counted EXCEPT ![t] = @ \cup sums[w]]
    /\ faulty' = [faulty EXCEPT ![t] = @ \/ failed[w]]
    /\ listed' = [listed EXCEPT ![w] = {}]
    /\ sums' = [sums EXCEPT ![w] = Emptied(w)]
    /\ failed' = [failed EXCEPT ![w] = FALSE]
    /\ Goto(w, IF Having(w, "found") = {} THEN "complete" ELSE "reserve")
    /\ UNCHANGED <<main, supervision, counters, stops, links, refs, disk>>

\* Fault: addPending(1) once per directory instead of once per child.
OnePerParent(children) == 1

\* How much addPending reserves for the children of one directory.
Reservation(children) == Cardinality(children)

\* targetScan.addPending, before the children can be taken by anybody.
Reserve(w, d) ==
    LET children == Having(w, "found") IN
    /\ pc[w] = "reserve" /\ Holds(w, d)
    /\ pending' = [pending EXCEPT ![Owner[d]] = @ + Reservation(children)]
    /\ Move(children, "reserved", w)
    /\ Goto(w, "push")
    /\ UNCHANGED <<main, supervision, latch, stops, totals, links, local, disk>>

\* Fault: half of a long stack is donated, whatever the queue has room for.
NoLimit(n) == IF n <= ShareThreshold THEN 0 ELSE n \div 2

\* How many references a stack of n may donate to the shared queue.
Donation(n) ==
    LET free == QueueLimit - Cardinality(Deque) IN
    IF n <= ShareThreshold \/ free <= 0 THEN 0
    ELSE IF n \div 2 > free THEN free ELSE n \div 2

\* pool.push with a local stack: what is past the threshold is shared.
Push(w, d) ==
    LET stack == Having(w, "local") \cup Having(w, "reserved") IN
    /\ pc[w] = "push" /\ Holds(w, d)
    /\ \E share \in SUBSET stack :
        /\ Cardinality(share) = Donation(Cardinality(stack))
        /\ at' = [c \in Dir |-> IF c \in share THEN "deque"
                                ELSE IF c \in stack THEN "local" ELSE at[c]]
        /\ by' = [c \in Dir |-> IF c \in share THEN NoWorker ELSE by[c]]
    /\ Goto(w, "complete")
    /\ UNCHANGED <<main, supervision, counters, stops, totals, links, local, disk>>

Complete(w, d) ==
    /\ pc[w] = "complete" /\ Holds(w, d)
    /\ CompleteDir(d)
    /\ Goto(w, "after")
    /\ UNCHANGED <<main, supervision, stops, totals, links, local, disk>>

\* At shutdown a worker leaves at once, its own stack still full.
After(w) ==
    /\ pc[w] = "after"
    /\ Goto(w, IF cancelled THEN "exited" ELSE "next")
    /\ UNCHANGED <<main, supervision, counters, stops, totals, links, refs, local, disk>>

-------------------------------------------------------------------------------
(* The main goroutine: ScanAll, prepareRoot, pool.close, drainWorkers.     *)

\* MarkScanStarted, then prepareRoot calls Lstat; one target after another.
StartTarget(t) ==
    /\ main = "loop" /\ phase[t] = "idle"
    /\ \A u \in Target : phase[u] # "probing"
    /\ phase' = [phase EXCEPT ![t] = "probing"]
    /\ UNCHANGED <<main, outcome, counters, stops, totals, links, refs, pc, local, disk>>

\* The root is usable: reserve it, queue it, start its supervisor.
ProbeOK(t) ==
    /\ phase[t] = "probing" /\ Root[t] \in present
    /\ phase' = [phase EXCEPT ![t] = "await"]
    /\ pending' = [pending EXCEPT ![t] = @ + 1]
    /\ Move({Root[t]}, "deque", NoWorker)
    /\ UNCHANGED <<main, outcome, latch, stops, totals, pc, links, local, disk>>

\* prepareRoot refused the root; the result is reported without a walk.  That a
\* root is no directory is not recorded as an error.
ProbeRefused(t) ==
    /\ phase[t] = "probing"
    /\ phase' = [phase EXCEPT ![t] = "reported"]
    /\ \E refusal \in {"missing", "root_error"}, recorded \in BOOLEAN :
        /\ \/ Root[t] \notin present /\ refusal = "missing" /\ recorded
           \/ Root[t] \in Flaky /\ refusal = "root_error" /\ recorded
           \/ Root[t] \in present /\ t \in NoDirectory /\ refusal = "missing" /\ ~recorded
        /\ outcome' = [outcome EXCEPT ![t] = refusal]
        /\ faulty' = [faulty EXCEPT ![t] = @ \/ recorded]
    /\ UNCHANGED <<main, counters, stops, counted, links, refs, pc, local, disk>>

\* Fault: a supervisor is added to the wait group by its own goroutine.
AwaitStarted == \A t \in Target : phase[t] \notin {"idle", "probing"}

\* supervisors.Wait has returned.
Awaited == \A t \in Target : phase[t] = "reported"

\* close drops whatever is in the shared queue.
ClosePool ==
    /\ main = "loop" /\ Awaited
    /\ main' = "drain"
    /\ Move(Deque, "dropped", NoWorker)
    /\ UNCHANGED <<supervision, counters, stops, totals, pc, links, local, disk>>

\* drainWorkers: all workers have left, or its timer has fired.
DrainDone ==
    /\ main = "drain" /\ \A w \in Worker : pc[w] = "exited"
    /\ main' = "returned"
    /\ UNCHANGED <<supervision, counters, stops, totals, links, refs, pc, local, disk>>

\* Fault: drainWorkers waits for the workers without its timer.
WaitForWorkers == \A w \in Worker : pc[w] = "exited"

\* The worker drain timer fires whatever the workers do.
DrainTimerFires == TRUE

DrainTimer ==
    /\ main = "drain" /\ DrainTimerFires
    /\ main' = "returned"
    /\ UNCHANGED <<supervision, counters, stops, totals, links, refs, pc, local, disk>>

-------------------------------------------------------------------------------
(* Supervisors: Engine.supervise and abandon.  Timers may fire at any time. *)

\* abandon: mark the target, then release its latch whatever is outstanding.
Abandon(t) ==
    /\ abandoned' = [abandoned EXCEPT ![t] = TRUE]
    /\ latch' = [latch EXCEPT ![t] = TRUE]

WalkDone(t) ==
    /\ phase[t] \in {"await", "draining"} /\ latch[t]
    /\ phase' = [phase EXCEPT ![t] = "decide"]
    /\ UNCHANGED <<main, outcome, counters, stops, totals, links, refs, pc, local, disk>>

\* scanCtx.Done: give the workers until the drain timer to notice.
DeadlineSeen(t) ==
    /\ phase[t] = "await" /\ (expired[t] \/ cancelled)
    /\ phase' = [phase EXCEPT ![t] = "draining"]
    /\ UNCHANGED <<main, outcome, counters, stops, totals, links, refs, pc, local, disk>>

\* The hard timer runs whenever it is configured.
HardTimerSet == HardTimeoutOn

\* The hard timer while waiting, or after the deadline the drain timer, which
\* exists whatever the configuration (longest).
GiveUp(t) ==
    /\ \/ phase[t] = "await" /\ HardTimerSet
       \/ phase[t] = "draining"
    /\ Abandon(t)
    /\ phase' = [phase EXCEPT ![t] = "decide"]
    /\ UNCHANGED <<main, outcome, pending, expired, cancelled, totals, links, refs, pc, local,
                   disk>>

\* Something could not be read, or may have been counted twice.
Flawed(t) == faulty[t] \/ exhausted[t]

\* Fault: the deadline is not looked at, only the abandonment.
DeadlineForgotten(t) == abandoned[t]

\* Fault: an abandoned walk is judged by its errors alone.
AbandonForgotten(t) == expired[t] \/ cancelled

\* scanCtx is the root context or derived from it, so its Err tells of both.
OutOfTime(t) == expired[t] \/ cancelled \/ abandoned[t]

Conclude(t, verdict) ==
    /\ outcome' = [outcome EXCEPT ![t] = verdict]
    /\ phase' = [phase EXCEPT ![t] = "report"]

GoOn(t, next) ==
    /\ phase' = [phase EXCEPT ![t] = next]
    /\ UNCHANGED outcome

\* The switch of supervise reads the root context, then the scan's, then what
\* the walk has left behind, and the contexts may end between any two of these.
AskRoot(t) ==
    /\ phase[t] = "decide"
    /\ IF cancelled THEN Conclude(t, "cancelled") ELSE GoOn(t, "judge")

AskScan(t) ==
    /\ phase[t] = "judge"
    /\ IF OutOfTime(t) THEN Conclude(t, "timeout") ELSE GoOn(t, "tally")

\* Error tally and exhausted mark are read one after the other, here at once:
\* with the latch closed and the target not abandoned nobody changes them.
AskTotals(t) ==
    /\ phase[t] = "tally"
    /\ Conclude(t, IF Flawed(t) THEN "partial" ELSE "complete")

Decide(t) ==
    /\ AskRoot(t) \/ AskScan(t) \/ AskTotals(t)
    /\ UNCHANGED <<main, counters, stops, totals, links, refs, pc, local, disk>>

\* buildResult and Apply; the deferred cancel then ends the scan's context.
Report(t) ==
    /\ phase[t] = "report"
    /\ phase' = [phase EXCEPT ![t] = "reported"]
    /\ expired' = [expired EXCEPT ![t] = @ \/ ScanTimeoutOn]
    /\ UNCHANGED <<main, outcome, counters, abandoned, cancelled, totals, links, refs, pc, local,
                   disk>>

-------------------------------------------------------------------------------
(* The environment: the scan deadline, the signal, and log rotation.       *)

Expire(t) ==
    /\ ScanTimeoutOn /\ ~expired[t] /\ phase[t] \in {"await", "draining", "report"} \cup Deciding
    /\ expired' = [expired EXCEPT ![t] = TRUE]
    /\ UNCHANGED <<main, supervision, counters, abandoned, cancelled, totals, links, refs, pc, local,
                   disk>>

Shutdown ==
    /\ ~cancelled
    /\ cancelled' = TRUE
    /\ UNCHANGED <<main, supervision, counters, abandoned, expired, totals, links, refs, pc, local,
                   disk>>

Vanish(gone) ==
    /\ gone \cap present # {}
    /\ present' = present \ gone
    /\ UNCHANGED <<main, supervision, counters, stops, totals, links, refs, pc, local, opened>>

-------------------------------------------------------------------------------
\* What a worker does between system calls.
Computation(w) ==
    \/ LeaveClosed(w) \/ GoShared(w) \/ LeaveParked(w) \/ After(w)
    \/ \E d \in Dir : \/ PopLocal(w, d) \/ PopShared(w, d)
                      \/ Discard(w, d) \/ Dispatch(w, d) \/ CheckStop(w, d)
                      \/ Flush(w, d) \/ Reserve(w, d) \/ Push(w, d) \/ Complete(w, d)

\* OpenDir, ReadSome and StatEntry on directory d.
Syscall(w, d) ==
    \/ OpenOK(w, d) \/ OpenVanished(w, d) \/ OpenFails(w, d)
    \/ ReadBatch(w, d) \/ EndOfDir(w, d) \/ ReadFails(w, d) \/ LimiterStops(w, d)

Probe(t) == ProbeOK(t) \/ ProbeRefused(t)

Supervise(t) ==
    WalkDone(t) \/ DeadlineSeen(t) \/ GiveUp(t) \/ Decide(t) \/ Report(t)

Environment ==
    \/ \E t \in Target : Expire(t)
    \/ Shutdown
    \/ \E gone \in Rotations : Vanish(gone)

\* ScanAll has returned and every worker has left.
Finished ==
    /\ main = "returned" /\ \A w \in Worker : pc[w] = "exited"
    /\ UNCHANGED vars

Next ==
    \/ \E w \in Worker : Computation(w) \/ \E d \in Dir : Syscall(w, d)
    \/ \E t \in Target : StartTarget(t) \/ Probe(t) \/ Supervise(t)
    \/ ClosePool \/ DrainDone \/ DrainTimer
    \/ Environment
    \/ Finished

Spec == Init /\ [][Next]_vars

\* Goroutines are scheduled and timers fire; a system call returns unless it is
\* on a hung mount.  Nothing is assumed of the environment's own steps except
\* that the scan deadline, when there is one, passes.
Fairness ==
    /\ \A w \in Worker : WF_vars(Computation(w))
    /\ \A w \in Worker : WF_vars(\E d \in Dir : Owner[d] \notin Hung /\ Syscall(w, d))
    /\ \A t \in Target : WF_vars(StartTarget(t)) /\ WF_vars(Supervise(t))
    /\ \A t \in Target \ Hung : WF_vars(Probe(t))
    /\ \A t \in Target : WF_vars(Expire(t))
    /\ WF_vars(ClosePool \/ DrainDone \/ DrainTimer)

FairSpec == Spec /\ Fairness

\* The mount hangs after prepareRoot's Lstat, never during it.
LateHangSpec == FairSpec /\ \A t \in Hung : WF_vars(Probe(t))

-------------------------------------------------------------------------------
(* Properties.                                                             *)

LinksOK ==
    /\ inodes \in [Target -> SUBSET Inodes]
    /\ exhausted \in [Target -> BOOLEAN]
    /\ spared \in SUBSET File

TypeOK ==
    /\ main \in {"loop", "drain", "returned"}
    /\ phase \in [Target -> Phases]
    /\ outcome \in [Target -> Outcomes]
    /\ pending \in [Target -> Int]
    /\ latch \in [Target -> BOOLEAN]
    /\ abandoned \in [Target -> BOOLEAN]
    /\ expired \in [Target -> BOOLEAN]
    /\ cancelled \in BOOLEAN
    /\ counted \in [Target -> SUBSET File]
    /\ faulty \in [Target -> BOOLEAN]
    /\ LinksOK
    /\ at \in [Dir -> Places]
    /\ by \in [Dir -> Worker \cup {NoWorker}]
    /\ pc \in [Worker -> Steps]
    /\ listed \in [Worker -> SUBSET Entry]
    /\ sums \in [Worker -> SUBSET File]
    /\ failed \in [Worker -> BOOLEAN]
    /\ present \in SUBSET Entry
    /\ opened \in SUBSET Dir

\* The references the latch of t stands for: reserved and not yet completed.
Outstanding(t) ==
    {d \in Dir : Owner[d] = t /\ at[d] \in {"reserved", "local", "deque", "held", "dropped"}}

\* pending is exactly the number of directories queued or in flight, at every
\* point of every worker's handoff of children, after a timeout, and after the
\* pool has been closed over queued work (addPending, completeDir).
LatchHonest == \A t \in Target : pending[t] = Cardinality(Outstanding(t))

\* The latch closes before the target is given up on only when nothing of it is
\* queued or held, so "done" can never mean "momentarily nothing to do".
LatchMeansDone == \A t \in Target : latch[t] /\ ~abandoned[t] => Outstanding(t) = {}

\* Directory d is queued for whoever is next, or with a worker that is neither
\* parked nor gone.
InReach(d) ==
    \/ at[d] = "deque"
    \/ /\ at[d] \in {"held", "reserved", "local"}
       /\ by[d] \in Worker /\ pc[by[d]] \notin {"wait", "exited"}

\* Until shutdown a supervisor waits only for work that somebody can still do:
\* some directory of its target is within reach and no worker has left, so that
\* the latch is never lost, and no worker parks on what only it can do.
WaitsForWork ==
    \A t \in Target : phase[t] \in {"await", "draining"} /\ ~latch[t] /\ ~cancelled =>
        /\ \E d \in Dir : Owner[d] = t /\ InReach(d)
        /\ \A w \in Worker : pc[w] # "exited"

Roots == {Root[t] : t \in Target}

\* Wherever the children of a directory go, the shared queue never holds more than
\* QueueLimit directories besides the roots, which are queued without a limit: a
\* worker donates only what there is room for and keeps the rest on its stack.
QueueIsBounded == Cardinality(Deque \ Roots) <= QueueLimit

FilesOf(t) == UNION {Contents[d] \cap File : d \in {e \in Dir : Owner[e] = t}}

\* A walk reported complete has counted every file of the target's tree that
\* still exists: no early end of a walk (timeout, error, shutdown, handoff
\* between workers) is ever taken for a complete measurement.
CompleteIsWhole ==
    \A t \in Target : outcome[t] = "complete" => FilesOf(t) \cap present \subseteq counted[t]

\* The files accounted for in the totals of t, flushed or still to be.
Taken(t) ==
    {f \in File : \/ f \in counted[t]
                  \/ \E w \in Worker, d \in Dir :
                        Holds(w, d) /\ Owner[d] = t /\ f \in sums[w]}

\* Those of them whose bytes are in the totals.
Charged(t) == Taken(t) \ spared

\* No two of these files that still exist are links to the same inode.
NoneTwice(files) ==
    \A f, g \in files \cap present : Inode[f] = Inode[g] => f = g

\* Whatever several workers read at once, the bytes of a hard-linked file are
\* added twice only when the target is marked as having run out of room, which
\* its result reports (targetScan.shouldCount, HardlinkTrackingExhausted).
TwiceIsFlagged ==
    \A t \in Target : DedupHardlinks /\ ~exhausted[t] => NoneTwice(Charged(t))

\* No file is added to the totals twice, by the worker that read it, by the one
\* that reads the next directory, or by two: sums that are still to be flushed
\* are of files that nobody has counted and nobody else is about to count.
AddedOnce ==
    \A w \in Worker, d \in Dir : Holds(w, d) =>
        /\ sums[w] \cap counted[Owner[d]] = {}
        /\ \A v \in Worker \ {w}, e \in Dir : Holds(v, e) => sums[v] \cap sums[w] = {}

\* A size reported complete has the bytes of every file of the target that still
\* exists, through one of its links, and of none through two of them: neither a
\* table of inodes that is full nor another target's links make it wrong.
CompleteIsExact ==
    \A t \in Target : outcome[t] = "complete" =>
        LET charged == counted[t] \ spared IN
        /\ \A f \in FilesOf(t) \cap present : \E g \in charged : Inode[g] = Inode[f]
        /\ DedupHardlinks => NoneTwice(charged)

\* Once a supervisor has decided "complete", nobody changes the totals it is
\* about to publish: buildResult reads them after the outcome was chosen.
CompleteIsFrozen ==
    [][\A t \in Target : outcome[t] = "complete" =>
          counted'[t] = counted[t] /\ faulty'[t] = faulty[t]]_vars

\* ScanAll returns, so the next cycle is not refused for ever; it does so after
\* every target has been reported, whatever hangs (after prepareRoot).
ScanAllReturns == <>(main = "returned")

Stuck(w) == \E d \in Dir : Owner[d] \in Hung /\ Holds(w, d) /\ pc[w] \in {"open", "read"}

\* After the pool is closed only workers inside a hung system call are left.
OnlyStuckWorkersLeak == <>[](\A w \in Worker : pc[w] = "exited" \/ Stuck(w))

\* What store.go and the README say of an outcome of complete: the directory was
\* there and was read.  It is not so when the root vanishes after prepareRoot.
CompleteMeansRootRead ==
    \A t \in Target : outcome[t] = "complete" => Root[t] \in opened

\* What holds instead: a complete walk has read its root, or the root is gone.
CompleteReadOrGone ==
    \A t \in Target : outcome[t] = "complete" => Root[t] \in opened \/ Root[t] \notin present

-------------------------------------------------------------------------------
(* The cycle as its Sink sees it.                                          *)

Stage(t) ==
    CASE phase[t] = "idle" -> "waiting"
      [] phase[t] = "reported" -> "reported"
      [] OTHER -> "walking"

Promise == INSTANCE ScanPromise WITH
    asked     <- Target,
    Files     <- [t \in Target |-> FilesOf(t)],
    stage     <- [t \in Target |-> Stage(t)],
    verdict   <- [t \in Target |-> IF phase[t] = "reported" THEN outcome[t] ELSE "none"],
    measured  <- counted,
    existing  <- present \cap File,
    returned  <- main = "returned"

\* ScanAll keeps its promise to the Sink: every target announced and reported
\* exactly once and before it returns, with an outcome that fits what was
\* measured, and a complete measurement never touched again.
KeepsItsPromise == Promise!Spec
===============================================================================
