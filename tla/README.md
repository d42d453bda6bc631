# Directory size exporter: a verification development

`directory-size-exporter` is a Prometheus exporter, written in Go, that walks
large directory trees on a schedule and publishes their size, file counts and
growth. This directory holds TLA+ modules that model its core, configurations
that check them with TLC on small instances, and proofs that TLAPS checks for
every instance. Paths below are relative to the repository (`src/`).

1. [The system](#1-the-system)
2. [Modules](#2-modules)
3. [What the runs check](#3-what-the-runs-check)
4. [What is proved](#4-what-is-proved)
5. [Fairness](#5-fairness)
6. [Findings](#6-findings)
7. [Abstractions, and what is not modelled](#7-abstractions-and-what-is-not-modelled)
8. [Plan](#8-plan)

## 1. The system

### Components

| component | files | state it keeps | operations |
|---|---|---|---|
| scan engine | `internal/scan/engine.go`, `target.go`, `walk.go` | a pool of stacks of directories, one `targetScan` per target (pending counter, completion latch, abandoned flag, totals, table of inodes, error tally), the running flag, the counts of live and of abandoned workers | `ScanAll`, `worker`, `processDir`, `supervise`, `abandon`, `pool.push/next/close`, `drainWorkers` |
| error classes | `internal/scan/errclass.go` | none | `classify`, `isVanished` |
| retention store | `internal/state/store.go` | per target: published, last good and previous good measurement, status of the last attempt, growth, cost and error counters | `SetTargets`, `MarkScanStarted`, `Apply`, `Snapshot` |
| collector | `internal/collector/collector.go`, `descs.go`, `self.go` | none | `Collect` renders a `Snapshot` |
| capacity cache | `internal/collector/filesystem.go` | the last `statfs` answer and a timeout counter per path | `Refresh`, `statfsWithTimeout`, `collectFilesystems` |
| target resolver | `internal/targets/resolver.go` | the known set, when each known path was first found missing | `Resolve` |
| application | `cmd/directory-size-exporter/main.go`, `signal_unix.go` | the resolver's lock, the ready flag, the root context | `newApp`, `serve`, `scanLoop`, `runCycle`, `refreshLoop`, `reload`, `watchReloadSignals` |
| HTTP server | `internal/server/server.go` | the health and readiness flags, the listener | `/metrics`, `/-/healthy`, `/-/ready`, `/-/reload`, `Serve` with its shutdown |
| configuration | `internal/config/*.go` | one value per setting | precedence of flags, environment, YAML and defaults; `Validate` and derived values |
| filesystem access | `internal/fsstat/*.go` | open handles | `OpenDir`, `ReadSome`, `Lstat`, `Statfs`; a fake for tests |
| scheduling priority | `internal/schedprio/*.go` | none | two system calls per worker thread |
| progress, summary | `internal/scan/progress.go`, `summary.go` | none | log lines |

### How they interact

    ticker -> scanLoop -> runCycle --> fsCache.Refresh
                                 \--> Engine.ScanAll(paths, sink)
                                          | MarkScanStarted, Apply
    timer, SIGHUP, POST /-/reload         v
       -> reload -> Resolver.Resolve -> Store <- Snapshot <- Collector <- GET /metrics
                    (SetTargets)

`runCycle` reads the tracked paths once and hands them to `ScanAll`. The engine
knows nothing of the store: for each target it calls the sink, which is the
store, when its walk starts and when it has been decided on. Meanwhile reloads
may replace the tracked set, and scrapes read the store, at any moment. The
store has one mutex. The engine's workers share the pool's mutex and the
targets' atomics and locks. Nothing is persisted: after a restart the exporter
begins from nothing, so crash recovery is not a concern of this program.

### What is hard in it, and what makes each part correct

*The engine.* All targets are walked together by one fixed set of workers, so no
worker knows when a target is finished. The end of a walk is detected with a counter
of directories queued or in flight, reserved before the children are pushed and
released after the parent is processed. A walk may also end by the scan deadline, by
the hard timeout with workers still inside a system call, or by shutdown, and each may
come in the same instant as the last directory. The tree changes under the walk. The
engine is correct when the counter is honest, when the latch means what it says, when
`complete` is said only of a whole walk, when what is published is not being changed
while it is read, when no file is added twice and a file with several hard links
counts once, or the target is flagged, when the shared queue stays within its limit
however many workers donate to it, when a supervisor never waits for directories that
nobody will come to, and when the cycle ends even if a mount hangs. What a cycle
leaves behind on a hung mount must show in a gauge, and no worker may be taken for
stuck that is on its way out.

*The supervisor* has three timers, two of which may be disabled. It is correct
when its wait is bounded for every combination and when its verdict fits when
the walk ended.

*The configuration* is merged from flags, environment, a file and defaults, and
refused when it makes no sense. It is correct when each setting has the value of
the strongest source that names it, also though the sources are applied in
another order, and when no configuration that is accepted switches off what a
hung mount needs: a supervisor that gives up.

*The store* decides what a scrape shows after any sequence of complete, partial,
failed and cancelled walks, some of which end after a reload has dropped or
replaced the target they were for. It is correct when growth counters and deltas
are about completed scans only, when what is shown is fresh and belongs to the
status that is shown with it, and when no flag is left behind. Together with the
engine it is correct when a size that a scrape shows is that of a whole walk of the
target it is shown for, whatever was reloaded, removed or left running meanwhile.

*The application* serialises reloads with a try-lock and runs the scan loop, the
reload loop, signals and HTTP handlers concurrently. It is correct when a later
resolution is never overwritten by an earlier one, when a change on disk is
eventually tracked, when no failure, signal or request is lost, when readiness
means that every target of a cycle has a result, and when SIGTERM ends the
process whatever hangs, with the requests it has taken answered first.

*The capacity cache* asks mounts that may hang, and leaves the calls that hang
behind. It is correct when an answer that comes late is never taken for another
one, when what is shown is of the running cycle, when no hung `statfs` holds up the
cycle, and when a volume that several targets lie on is never shown with a figure of
an earlier cycle than one shown before, whichever of them a scrape takes it from.
(Within one cycle the figure may go back: see section 6.)

*The resolver* keeps targets that vanished for a grace period, and refuses a pass
that exceeds the limit. It is correct when a failed pass changes nothing the
next one depends on wrongly, and when a target is dropped after its grace period
and no sooner.

`PROJECT.json` lists each hazard of the code at its line, with the properties
that would catch it going wrong.

## 2. Modules

| module | what it is |
|---|---|
| `ScanCycle` | one call of `Engine.ScanAll`: workers, pool, latch, supervisors, shutdown |
| `ScanPromise` | what `ScanAll` promises its sink; `ScanCycle` implements it |
| `Supervisor` | `Engine.supervise` alone, its timers on a clock |
| `Startup` | the configuration from its sources to `Validate`, and a `Supervisor` under what came out |
| `Store` | the retention store, with any calls its callers may make, and what a scrape shows |
| `Pipeline` | the scan loop: `ScanPromise` and `Store` joined, as `runCycle` joins them |
| `Resolver` | passes of the target resolver: grace periods and the limit |
| `Reload` | the callers of `reload`, its lock, the handler that answers requests, and the end of the process |
| `Cycles` | the scan loop, the capacity cache it refreshes, scrapes of it, readiness, and the workers that cycles leave behind |
| `MCScanCycle`, `MCStartup`, `MCStore`, `MCResolver`, `MCReload`, `MCCycles` | the small instances TLC checks |
| `ScanCycleProofs`, `ScanCycleWhole`, `ScanCyclePromise` | theorems about `ScanCycle`: the latch; what `complete` means; that it implements `ScanPromise`, counts each file and link once, bounds its queue and loses no work |
| `StartupProofs`, `StoreProofs`, `ResolverProofs`, `ReloadProofs`, `CyclesProofs` | theorems about the others, `Supervisor`'s in `StartupProofs`, `Pipeline`'s in `StoreProofs` |

The modules meet at what one promises another. `ScanPromise` is the seam between the
engine and its callers: `ScanCycle` implements it, `Pipeline` puts it before the
store, and `Cycles` takes from it that each target of a cycle is reported once before
`ScanAll` returns. So the chain from a directory entry to a scrape is closed in two
refinements: `ScanCycle` implements `ScanPromise`, and `Pipeline`, which is made of
`ScanPromise` and the operations of `Store`, implements `Store`. `Store` and `Cycles`
see a reload as a new tracked set, at any moment; `Reload` says in which order
resolutions arrive there, and `Resolver` what a resolution contains.

### ScanCycle

One behaviour is one call of `ScanAll`. The granularity is that of the code's
shared accesses: a step is one system call, one critical section or one atomic
operation together with the thread-local work before it. Where a step stands for more
than one of them, nobody else changes what is read in between, and the comment of the
action says why: `AskTotals` reads the error tally and the exhausted mark at once, after
the latch has closed on a target that was not abandoned, when no worker holds a
directory of it. The switch of `supervise` is three steps: `AskRoot` looks at the root
context, `AskScan` at the context of the scan (which is done when the root's is) and
the abandoned mark, `AskTotals` at the errors; deadline and signal may come between.

| variable | in the code |
|---|---|
| `main` | where `ScanAll`'s own goroutine is: starting targets and waiting for supervisors, in `drainWorkers`, returned |
| `phase[t]`, `outcome[t]` | where `supervise` is for `t`; `probing` is `prepareRoot` |
| `pending[t]`, `latch[t]`, `abandoned[t]` | the fields of `targetScan`; `latch` is the closed state of `done` |
| `expired[t]`, `cancelled` | the target's context and the root context |
| `counted[t]`, `faulty[t]` | the totals, as the set of files counted, and whether the error tally is not empty |
| `inodes[t]`, `exhausted[t]`, `spared` | the table of inodes seen with several links, the flag that it was full, and the files whose bytes another link stands for |
| `at[d]`, `by[d]` | where the reference to directory `d` is: with its parent's reader (`found`), reserved, on a worker's stack (`local`), in the shared queue (`deque`), held by a worker, completed, or dropped by `pool.close` |
| `pc[w]`, `listed[w]`, `sums[w]`, `failed[w]` | a worker's position, and its `dirTotals` for the current directory |
| `present`, `opened` | the disk, and a history of what was opened |

| code | actions |
|---|---|
| `pool.next` | `LeaveClosed`, `PopLocal`, `GoShared`, `PopShared`, `LeaveParked` |
| `Engine.worker` | `Discard`, `Dispatch`, `Reserve`, `Push`, `Complete`, `After` |
| `processDir`, `processEntry` | `OpenOK`, `OpenVanished`, `OpenFails`, `CheckStop`, `ReadBatch`, `EndOfDir`, `ReadFails`, `LimiterStops`, `Flush` |
| `ScanAll`, `prepareRoot`, `drainWorkers` | `StartTarget`, `ProbeOK`, `ProbeRefused`, `ClosePool`, `DrainDone`, `DrainTimer` |
| `supervise`, `abandon`, `buildResult` | `WalkDone`, `DeadlineSeen`, `GiveUp`, `Decide` (`AskRoot`, `AskScan`, `AskTotals`), `Report` |
| deadline, signal, log rotation | `Expire`, `Shutdown`, `Vanish` |

A parked worker is one at `wait` with no step enabled; `sync.Cond` needs no
variable because `Signal` and `Broadcast` only bring a worker back to the same
test. Supervisor timers may fire at any moment after they are armed.

`shouldCount` is part of `ReadBatch`, as it has a lock of its own and nothing else is
done between two of its calls that others could see: `Linked` are the files with
`Nlink > 1` at that moment, `Tracked` those whose target keeps a table, `Missed` those
for which it has no room, `ShouldCount` those whose bytes go into the totals. `Flawed`
is what makes `buildResult` say partial: an error, or a table that was full.

### Supervisor

The same function with time. The workers are reduced to one event, the end of
the walk, which may never come. The clock does not advance while the supervisor
can act, which says that a goroutine that is ready takes no time compared with
timeouts of seconds. The signal needs no time either: it may come between two of the
supervisor's steps at one moment of the clock, and `Decide` is three steps here too.

### Startup

`Startup` extends `Supervisor`: `run` resolves and validates the configuration, and
`newApp` hands the timeouts to the engine. A source is a function from the
settings it names to values, one of which, `Bad`, does not parse. The settings are
those the timeouts depend on, `scan.stale-after` and `scan.interval`, one setting
that needs a capability of the platform, and the path of the file.

| variable | in the code |
|---|---|
| `stage` | how far `run` has come |
| `flags`, `environ`, `document` | the command line, the environment, the file |
| `value`, `source` | `Config`, and `field.source` |
| `capable`, `enabled` | `fsstat.Caps` and `Resolved.Filesystem` |

| code | actions |
|---|---|
| `Registry.Resolve` | `SettleFile`, `ApplyYAML`, `ApplyEnv` |
| `Registry.Validate`, `resolveGate` | `Validate` |
| errors of either, returned by `run` | `Refuse`, `Exited` |
| `newApp` | `Launch` |
| `Engine.supervise` | `Scan`, a step of `Supervisor` |

### Store

`state[p]` is `targetState`, with a measurement reduced to its size: its other
fields travel with it. `queued` and `walking` are the running cycle as the store
sees it. The operations are `SetTargets` (a reload), `MarkScanStarted` and `Apply` (the
sink), and `SizeShown`, `GrowthShown`, `DeltaShown` are what `snapshotLocked` and
`collectTarget` let a scrape see. `Next` calls them with anything the engine might
bring: paths in any order, and any result that is `Admissible`. `StartCycle` is
`runCycle` reading the paths, once the cycle before has returned (`AtRest`). A path that
is not tracked has the blank state, so "no entry in the map" and "new state" coincide.
The actions `Tick` and `Shutdown` are the clock and the signal.

### ScanPromise

The targets `asked` for are announced (`MarkScanStarted`), counted for, and reported
(`Apply`), and `ScanAll` returns after all reports. An outcome says something of the
measurement it comes with: `complete`, that every file still on disk was counted;
`cancelled`, that the process is ending; `missing` and `root_error`, that nothing was
counted. Counting may go on after a report that is not `complete`, and after the return:
workers of a target that was given up on may be left behind. The mapping
`Promise`, at the end of `ScanCycle`, takes `stage` from `phase`, `measured` from
`counted`, `existing` from the files in `present`, and `returned` from `main`.

### Pipeline

The two joined over the same targets and the same shutdown. `Begin` is `runCycle`: it
reads the tracked paths, takes `ScanAll`'s lock (`SingleFlight`), and starts the engine
afresh on a disk that may have gained and lost files since the last cycle. `Announce`
and `Report` are steps of both: the engine's, and the store's under its mutex, with
`Size` of the files counted as the result. `Count`, `Return` and `Remove` are steps of
the engine alone, `Reload` and `Later` of the store alone. `last` is a history: for each
target its last complete report since it was tracked, with the files that were
counted and the files that were there.

`Size` is any function from sets of files to sizes. In the program it is the sum over
the distinct inodes of the files counted, and that the engine's totals are a function
of that set when the walk is `complete` is `CompleteIsExact`, a theorem about `ScanCycle`.

### Resolver

| variable | in the code |
|---|---|
| `known`, `vanishedAt` | the fields of `Resolver`; a path without an entry has `Never` |
| `passAt`, `left`, `found` | `Resolve`'s locals: the time it read, the paths it has not come to, those it found |
| `usable`, `now` | the disk, which changes while a pass looks at it, and `Options.Now` |
| `log` | history: what each pass found and whether it was applied |

`Begin` reads the clock, `Look(p)` is the expansion and the stat of one path,
`Succeed` and `Refuse` are the two ends of `Resolve`, each with all it does to
`vanishedAt`. `Resolver.mu` admits one pass at a time.

### Reload

`step[c]` is where caller `c` is in `reload`: the timer, the signal watcher and one
goroutine for each request. `Enter` and `Coalesce` are the two results of `TryLock`;
the lock is held in the steps `resolving` and `applying`, so `Free` needs no variable.
The disk is a number that grows with each change, a resolution is the number its pass
saw, some state the disk was in while it ran, and `applied` is the one the store has,
so "older" means less. A state of the disk in `TooMany` is one that the resolver
refuses. `hung` says that a pass never returns. `answer[r]` is what `handleReload` has
written: `AnswerInTime` and `AnswerAccepted` are the branches of its `select`,
`Finish` is the end of its goroutine, which logs a failure. `pending` is the signal
channel of one place, which `SignalSent` fills and `TakeSignal` empties. `server` is
where `application.serve` is:

| code | actions |
|---|---|
| `reload` | `Enter`, `Coalesce`, `Resolve`, `ResolveFails`, `Apply` |
| `refreshLoop`, `watchReloadSignals` | `TimerTicks`, `Subscribe`, `TakeSignal`, `Return`, `Quit` |
| `handleReload` | `Post`, `Finish`, `AnswerInTime`, `AnswerAccepted` |
| `serve`, `Server.Shutdown` | `ListenerFails`, `TurnUnhealthy`, `CloseListener`, `Stop`, `CutShort` |
| the operating system | `DiskChanges`, `MountHangs`, `Shutdown` (SIGTERM), `SignalSent`, `SignalKills` (SIGHUP) |

When `serve` returns the process is gone, and every goroutine with it: after that no
action is enabled but the stutter `Finished`.

### Cycles

| variable | in the code |
|---|---|
| `loop`, `cycle` | where `scanLoop` is, and in which cycle |
| `tracked`, `paths` | the store's targets, and those `runCycle` read |
| `todo`, `waiting`, `next` | `Refresh`'s locals |
| `calls` | goroutines inside `StatFS`, each by its path and the cycle that started it |
| `cache`, `timeouts` | `FilesystemCache.byTarget` and the keys of `timeouts` |
| `charted` | history: the reading that a scrape last showed of a volume |
| `probing`, `begun` | the target whose root `ScanAll` is looking at, and those it has come to |
| `reported`, `cut` | what the sink has been told, and whether a report was of a cancelled walk |
| `crew`, `owed`, `gauge` | `liveWorkers` as the set of workers it counts, the workers `ScanAll`'s `WaitGroup` waits for, `abandonedWorkers` |
| `ready` | `firstCycleComplete` |

`Begin` is the head of `runCycle`; `Query`, `Returns`, `TimesOut` and `Interrupted` are
`statfsWithTimeout`, whose `select` is the choice between the last three; `CutShort`
and `Publish` are the two ends of `Refresh`, each followed by `StartWorkers`, the head of
`ScanAll`; `Probe` and `Probed` are its loop, which looks at one root after the other on
`ScanAll`'s own goroutine, with no timer, and reports those it cannot use; `Scanned` is
the report of a supervisor, `ClosePool` the end of the last of them; `Uncounted`
and `Done` are the two deferred calls of a worker, in their order; `EndScan` is
`drainWorkers`, which samples the gauge whether its workers are back or its timer fired,
and the rest of `runCycle`; `NextCycle` and `Leave` are `scanLoop`; `Scrape` is
`collectFilesystems`, which shows for each volume the reading of one of its targets.
A reading is the cycle in which its call was made, so that a late answer can be told
from a current one, and its turn in that cycle, so that of two readings of one volume
the older can be told: `Refresh` asks for one target after the other, in the order that
the resolver sorts them by (`Rank`).

## 3. What the runs check

Each passing run finishes, and deadlock is checked in all of them: the programs
that end do so in a state that stutters (`Finished`), and the others go on.

| run | instance | question |
|---|---|---|
| `walk` | one target of five directories on two levels below the root and three files, two of them links to one inode and one linked elsewhere, an entry that is passed over, two workers; a file may fail, it or the whole tree may vanish; both timeouts, limiter, a table of one inode, a shared queue of one place | is the latch honest, does it mean the end, and is there always somebody left to close it; does the queue stay within its limit; is `complete` whole and frozen; is any file added twice, and is one counted through two links flagged |
| `shared` | two targets and two workers; the first has a root and a directory with a link each to one inode, the root of the second holds a third link; that root may fail, vanish with its file, or be no directory; hard timeout, a table of one inode for each target | is a size reported `complete` exact, also with links in the other target; does a cycle of targets that share workers and inodes implement `ScanPromise` |
| `hung` | two targets, one hangs after its probe, hard timeout only, fairness | does `ScanAll` return, with every target reported, and who is left behind |
| `wait` | the timeouts, `stale-after`, a platform gate and the path of the file in flags, environment and file, in range, zero, negative and undecodable; back-stop 5, clock to 10 | does the strongest source win; is the wait bounded and the verdict right under every configuration that is accepted, and is no target abandoned before it was told to stop |
| `retention` | `Pipeline`: one path whose tree may hold two files of different sizes, three cycles, each on a disk with other files, which may lose some while it is walked; clock to 4, reloads at any moment, publish-partial off and on | what is shown is what completed scans measured, and whole; a partial reading never becomes a baseline; the engine calls the store as the store is written for |
| `grace` | two paths that come and go at any moment, limit 1, grace period 2, four passes after the first, clock to 5 | are grace periods kept, ended, and started anew, refused passes included |
| `reloads` | timer, signal and one request; the disk changes twice, the first change exceeds the limit; mounts may hang; SIGTERM and SIGHUP at any moment; the listener may fail; fairness | do resolutions move on, is no failure, signal, request or change lost, does SIGTERM end the process |
| `capacity` | two paths on one volume, one worker in each of two cycles, reloads, scrapes and hanging mounts at any moment, workers that may never leave, fairness | are capacities current and do they never go back to an earlier cycle on a scrape, is readiness earned, do cycles end but for a probe that hangs, which calls stay, are all workers left behind in the gauge and none that is not |
| `root_gone`, `hung_probe`, `stale_partial`, `statfs_leak` | | the disagreements of section 6 |

### Why the bounds are enough

*Trees.* A root with two children is the least tree in which a worker donates
one directory and keeps another, so that both ways of receiving work, and the
race of a child with its parent's completion, happen. In `walk` one of these two has
two directories again. With `ShareThreshold` 1 and `QueueLimit` 1 the worker that reads it
has two or three references on its stack and donates one if the queue is empty; if the
directory donated before is still there, it finds no place and keeps them all. So the
donation and the full queue both happen, and the limit is what decides: without it
`QueueIsBounded` fails in this run. Two workers that donate at the same time do not
occur in it; the theorem about the queue covers any number of them. A batch has up to
`BatchSize` entries and may have fewer, as with `ReadSome`, so a directory with two
entries is read in one batch or in two, with a check of the deadline in between.

*Links.* In `walk`, `fa` and `fb` are links to one inode in two directories, so that two
workers come to it in either order, and `f` has a link outside. With a table of one
place either inode may be the one that finds no room: a walk that meets both is flagged
and cannot be `complete`, so exactness is a question for `shared`. There the first
target has two links to one inode and a table with room for it, and the walk that counts
one and spares the other is reported `complete`; the second has a third link, which is
to count there whatever the first has counted. Rotation may take away a link before or
after another was looked at.

*Two workers* suffice for every race the code can have on a target: the counter,
the latch and the totals are each touched by one step of one worker at a time,
and the proofs of section 4 hold for any number.

*Sources.* A setting may be named by none, one, two or all three sources, with
different values, so every pair of sources disagrees in some state. The timeouts
are in all sources; the other settings are in those that make the cross-checks of
`Validate` succeed and fail. The file may be unreadable, name an unknown setting
or name itself.

*Time.* The clock of `wait` runs to 10, past the largest sum of a scan timeout
and a drain (2 + 4) and past the back-stop, so the bounds are reached and not cut
off. In `retention`,
`StaleAfter` is 1 and the clock runs to 4, so a measurement can turn stale and be
replaced twice; three cycles give two deltas, the second with a previous one to
replace. In `grace` the clock runs to 5 and
the grace period is 2, so that one can end, be cut short by a return, and begin
again, and five passes, counting the one at the start, contain a refused one
between two that are applied.

*Callers.* The three callers of `reloads` are one of each kind; a second request
would only be another caller that is turned away. Two changes of the disk, of
which the first cannot be applied, give a resolution that is older than another,
one that fails, and a last one that must be tracked.

*Cycles.* An answer can be mistaken for that of another call only across two
cycles on one path; the second path is there for a list of more than one, for
reloads that exchange paths, and for a volume with two readings. One worker in each
cycle is enough for the gauge: the worker of the first cycle, left behind, meets
that of the second, in each order of leaving, drain and sample.

*Sizes.* Two files of sizes 1 and 2 make four sizes, so sizes grow, shrink and stay,
and two measurements of the same size are of the same files; 0 is also what failed
walks report, so a rule that mistakes a failure for a measurement shows. One path is
enough, as no operation of the store reads the state of one target for another; that
targets do not mix on their way through the engine is a question of `shared`.

*Size of the runs.* `walk` has 1.3 million distinct states, `retention` 1.1 million,
`grace` 960 000, `shared` 780 000, `capacity` 460 000, `wait` 340 000, `reloads` 310 000 and
`hung` 160 000. Those with liveness take longest for their size; every run ends within
three minutes on two workers.

*Types* are left to section 4: `TypeOK` of each module is part of its inductive
invariant and proved for all instances, so no run spends its time on it again.

Workers, and in `grace` the paths, are interchangeable in the specification and
the properties of those runs; symmetry is used in runs without liveness only.

## 4. What is proved

TLAPS proves the theorems for every value of the constants that satisfies the
named assumptions: any trees, any numbers of targets and workers, any queue
limits, timeouts, paths, sizes and histories.

### ScanCycle

`ConstantsAssumption` types the constants, `TreeAssumption` says that a directory
has one parent and a root none, and `ReachAssumption` that every directory hangs
below the root of its target and that removing a directory removes its contents.

`LatchHonest` (`pending[t]` is the number of references outstanding) is not
inductive alone. `ScanCycleProofs` strengthens it to

    IInv == TypeOK /\ Whereabouts /\ LatchHonest /\ LatchMeansDone /\ Supervised

where `Whereabouts` says that a worker at a step that needs a directory holds
exactly one, that reserved and found directories are those of a worker that holds
their parent, and that nothing is found or reserved at other steps. This is what
makes `Reserve` add exactly the children and `Complete` take exactly one
away. Each step then changes `Outstanding(t)` by a known finite set, and the
cardinality facts of `FiniteSetTheorems` do the rest. `Supervised` relates the
phase of a target to its latch and outcome, which gives `LatchMeansDone` and
`CompleteIsFrozen`: from the step `AskScan` that lets a walk go on to its totals, the
latch is closed without an abandonment, so nothing is outstanding and no worker holds
anything to flush.

`CompleteIsWhole` needs more, in `ScanCycleWhole`: a *frontier* invariant. As long
as no error was recorded and the target is not being stopped, every present
entry of a directory that is completed is either counted (a file) or itself on
its way or completed (a directory). When nothing is outstanding the frontier is
empty, and by `ReachAssumption` all directories of the target that are present
have been completed, so all their files have been counted. That is the case at the
step `AskScan` that finds the walk neither out of time nor abandoned: from there on it is
`Final`, whatever the deadline or the signal do before the report, and `FinalIsWhole`
carries what was counted to the report and beyond. This is the argument
that distributed termination detection needs in general, and it is the property
on which the exporter's promise rests.

`CompleteRootsWereRead` draws the line around the finding `root_gone`: a complete walk
has opened its root, or the root is gone, so that a complete walk that has opened
nothing comes from that one race and no other. Its invariant `RootAhead` says that the
root of a clean walk is still on its way, opened, or gone, and `AheadStep` that no
step but `OpenOK`, `OpenVanished` and a failure takes a directory out of the way.

`ScanCyclePromise` proves the refinement (`KeepsItsPromise`): a `Flush` is a `Count`, a
refused root and the end of a supervisor are `Report`s, and most steps stutter. That
the report is one the promise allows rests on the invariants above
(`CompleteIsWhole` for `complete`) and on `Reportable`; that what a worker adds belongs
to the tree of its target rests on `OwnTotals`.

That work is not lost is `WaitsForWork`, and it needs the converse of `LatchMeansDone`:
`Owed`, a target of which nothing is outstanding has its latch closed, so that a
supervisor that waits with its latch open has a directory outstanding. `AtWork` says
where such a directory can be: until shutdown no worker has left, nothing was dropped
by `pool.close`, and no worker is parked with directories on a stack of its own, as it
turns to the shared queue with an empty stack only (`GoShared`). At shutdown all of this
ends, and the supervisor's timers end the wait.

`QueueIsBounded` rests on arithmetic about one donation: `DonationFits` shows for every
stack and every queue length that what `push` moves fits in what is free, and
`QueueStep` that no other step but `prepareRoot`'s adds to the queue.

`AddedOnce` combines three facts: the files in a worker's sums are of the directory it
holds (`OwnTotals`); two workers hold different directories, and a file is in one
directory (`TreeAssumption`), so that their sums are disjoint; and what is still to be
flushed is not yet counted (`Uncounted`), since a file is accounted for in the one
directory's reading that lists it (`Untaken`, below).

Hard links are in the same module. `TwiceIsFlagged` is not inductive alone: `Untaken`
says that the files of a directory are accounted for by the worker that reads it and
in no other step, so that no file is taken twice; `Table` that every file accounted
for is charged through one of its links, in the totals or in a worker's own sums,
and that, as long as there was room, the table has every inode that is charged
through a file with several links. A file that is about to be charged is then either
not in the table, and no link to it was charged, or the flag goes up. With
`CompleteIsWhole`, and `Roomy` (a complete walk had room), this gives
`CompleteIsExact`: each existing file counts, and counts once.

### Startup and Supervisor

`WaitIsBounded` and `VerdictFits` follow from an invariant with one part per
phase. `AwaitInv` says that the clock has not passed a timer the supervisor has
not acted on, `DrainInv` where the drain timer was set, `DecideInv` what each look of
`Decide` leaves known, `History` relates the recorded moments to the latch. `VerdictFits`
makes one exception: a walk that ended in time is reported `timeout` if the signal comes
between the first look and the second (section 6). The theorems are for all values of the timeouts,
disabled ones included; the run `wait` checks those that `Validate` lets through.

For `Startup`, `StrongestSourceWins` needs what the passes have and have not done yet:
`SourcesOK` says what the sources may hold, `AppliedSoFar` which source each setting has
its value from after each pass, `PathStays` that the path of the file does not change
after the file was read by it. `AcceptedIsSound` says that what `Validate` let through
has a hard timeout that is positive, and a scan timeout that is less. `AlwaysGivesUp` and
`WarnedFirst` follow from it and from `RunInv`, `Supervisor`'s invariant for the timeouts
that were launched. The assumption about sources is that durations are integers or
do not parse, and that kingpin refuses a flag that does not parse.

### Store

The invariant `IInv` relates the state of each tracked path to the history of its
completed scans (`Agrees`): the good measurement is the last, the previous good is
the last but one, the counters telescope, and the published size is the last
completed one unless a partial reading replaced it. Each property is a
consequence of it or, for the action properties, of it and one step. `GrowthSeriesStays`
is proved as well; no run repeats it, as `GrowthTelescopes` and `OnlyCompleteMoves` cover
the same code.

`Pipeline` is proved in the same module, from the invariant

    PipelineInv == IInv /\ Linked /\ Measured /\ LastReported

`Linked` ties the two state machines: the store's `queued` and `walking` are the targets
asked for that the engine has not announced, and not reported. With it each step of
`Pipeline` is a step of `Store` or a stutter (`EngineServesTheStore`): in particular the
engine reports only what is `Admissible`, and a new cycle finds the store `AtRest`, for
which `SingleFlight` is needed. `Measured` says that what is counted for a target is of
its tree. `LastReported` carries the meaning of `complete` from the moment of the report,
where `ScanPromise` gives it, into the store's baseline, which outlives it: the good
measurement of a target has the size of the files counted for its last complete report
since it was tracked. `WhatIsShownIsWhole` follows with `Agrees`. As every theorem about
`Store` is about all its behaviours, each holds of the engine and the store together.

### Resolver

An entry of `vanishedAt` is the time of the first pass that missed the path since a
pass last found it, refused passes included: that is `Entries`, and with `Clocked`
(the times passes read do not decrease) and `Judged` (what the last pass, if it was
applied, left known) it makes

    IInv == TypeOK /\ Clocked /\ Entries /\ Judged /\ LimitHolds

inductive. `DropsRespectGrace`, `NothingLingers` and `GraceEndsRefusals` follow: the
first from `Entries` and the step `Succeed`, the others from `Judged` and `Entries`.
`LimitHolds`, which is one of its parts, is a theorem (`LimitAlwaysHolds`) and no run's
question: it is the guard of `Succeed` carried over the steps that leave `known` alone.

### Reload

`IInv` is `TypeOK` and three facts: `Exclusive`, callers inside the lock are one;
`Current`, what a caller inside has seen is not older than the resolution in force;
`Seen`, nothing seen or applied is newer than the disk. `NeverOlder` is then `Current`
at the step `Apply`, for any number of requests. `FailuresAreHeard` follows from
`Heard`, which every step keeps by itself: a request whose goroutine is done with an
error has it in the log, whoever was told what, also while the process is coming to
its end.

### Cycles

`Partition` says that while `Refresh` is at work each target of the cycle is still to
ask, waited for, or learned, and that what is learned is of this cycle; `Idle` that
nobody else waits for a call, which is why a late answer finds no one; `Earned` that
a cycle beyond its start has targets and is cut short by a shutdown only. With
`TypeOK` they make `CapacityIsCurrent` inductive, and give `ReadyIsEarned`.

`OneReading` says that all readings in the map are of one cycle, that no scrape has shown
one of a later cycle, and that what was shown of this cycle is still in the map;
`OldReadings` that what a refresh will replace is of earlier cycles. `CapacityMovesOn` is
then a property of the steps `Publish` and `Scrape`: a scrape that goes back goes from
one reading in the map to another of the same cycle. `Reckoned` says that live workers are of this cycle or of
earlier ones, and that a worker the `WaitGroup` no longer waits for is no longer live.
`LeakIsVisible` follows at `EndScan`, where the gauge is what is left at that moment, and
is kept by all other steps, as those who were left behind can only leave;
`AlarmIsEarned`, that the gauge goes up only when a worker of the cycle has outlived the
drain, follows from both; it is proved only.

### What stays with TLC

Liveness (`ScanAllReturns`, `OnlyStuckWorkersLeak`, `ChangeIsTracked`,
`SignalsAreHeeded`, `EveryRequestAnswered`, `ShutdownEnds`, `CyclesEnd`,
`OnlyHungCallsStay`) is only model-checked: liveness under fairness, and `ENABLED`,
are out of this prover's reach. Every safety property that a passing run checks is a
theorem, the two refinements included. That the fairness of `ScanCycle` carries over
to its promise is not needed: `ScanPromise` is a safety specification, and that a
cycle ends is checked of `ScanCycle` itself. Out of reach is also everything that
would need induction over data; the proofs avoid it by stating reachability (`Below`)
as a least set and the histories by their last elements.

## 5. Fairness

`FairSpec` assumes, for `ScanCycle`:

- each worker's computation and each supervisor is scheduled: the Go scheduler
  runs a runnable goroutine, and supervisor timers are runtime timers, which fire;
- a system call returns, unless it is on a target in `Hung`. Nothing is assumed
  of those, not even that they stay stuck;
- the scan deadline, if there is one, passes;
- the main goroutine goes on, and its worker drain timer fires.

It assumes nothing of shutdown and of log rotation, which may never happen.
`LateHangSpec` adds that `prepareRoot`'s `Lstat` returns, also on hung mounts; the
run `hung` needs it, and the run `hung_probe` shows what happens without it.
For `Reload`, that goroutines are scheduled, the refresh ticker ticks and the timer
of a request fires; a pass over the disk returns unless the mount hangs, which
disables it. Requests, signals, changes and the shutdown may never come. That `serve`
goes on after SIGTERM is assumed, that `shutdownTimeout` fires is not: `ShutdownEnds`
holds without it, as each handler's own timer ends what `Shutdown` waits for.

For `Cycles`, that the loop is scheduled and its timers fire, that a `StatFS` call and
the `Lstat` of a probe return unless their mount hangs, and that a supervisor, once
started, reports its target. Nothing is assumed of a probe on a hung mount, so that the
loop may stay there for ever: `CyclesEnd` says that this is the only way in which a cycle
does not end. Nothing is assumed of workers, which need never leave, nor of scrapes. The
first is what the runtime and the operating system give, the last what `AlwaysGivesUp`
shows of a supervisor's timers and the run `hung` of a target on a hung mount.

Weak fairness is enough everywhere: no action that must be taken is disabled
again and again by others.

## 6. Findings

Each is a run that TLC finds violated, with the line of the repository it
disagrees with in `PROJECT.json`.

| run | what happens |
|---|---|
| `root_gone` | the root vanishes after `prepareRoot`, and the walk is `complete` with size 0, although nothing was read |
| `hung_probe` | a mount that hangs in `prepareRoot` stops the cycle, and with it all later ones, for ever |
| `stale_partial` | a partial reading of a target without any completed scan is never withdrawn |
| `statfs_leak` | each cycle leaves another `StatFS` call behind on a mount that hangs, so the leak grows with the cycles and is not bounded by the number of hung mounts |

Met while modelling, and without a run of their own:

- SIGTERM between the looks that `supervise` takes at the root context
  (`engine.go:321`) and at the scan's (`engine.go:325`) makes a walk that ended in time a
  `timeout`, as the second context is the first or derived from it. The comment at
  `engine.go:322` says of a shutdown that it "says nothing about the directory". The
  process is ending, so the false timeout is seen by a last scrape at most.
  `VerdictFits` allows for it.
- The targets of a volume are read one after the other, and a scrape shows the reading
  of the one that the map yields first (`filesystem.go:134`). So within one cycle the
  figure of a volume may go back and forth between two readings. `CapacityMovesOn` says
  that it goes no further back than that.
- With a scan timeout set, the hard timer starts anew when the deadline passes
  (`engine.go:309`), so a target is abandoned at the sum of both. `WaitIsBounded`
  states the bound that holds.
- A target that two reloads drop and bring back during its walk shows
  `scan_in_progress` 0 for the rest of the walk (`store.go:244`); `InProgressExact`
  speaks of walks whose target stayed tracked.
- `Resolve` reads the clock before it looks at the disk (`resolver.go:102`), so an
  absence noticed by a slow pass is dated too early by at most the length of that
  pass. `DropsRespectGrace` is stated in these terms.
- A reload that finds another one running answers "reloaded" although the running
  one may have looked at the disk before the change in question (`main.go:321`).
  `ChangeIsTracked` holds because the refresh timer comes again.
- For `config.file` alone, an explicitly empty flag gives way to the environment
  (`registry.go:267`), as the code does not ask whether the flag was set.
  `StrongestSourceWins` leaves this setting out.
- When nothing is tracked any more, `runCycle` returns before `Refresh`
  (`main.go:276`), and the capacity series of the last targets stay.
- When one of two links is removed after it was counted and before the other is looked
  at, the other has `Nlink` 1 and counts again (`target.go:180`). `TwiceIsFlagged` speaks of
  files that still exist.
- `abandoned_scan_workers` at or above `--scan.concurrency` is described as a dead pool
  (`README.md:131`, `README.md:203`), but each cycle starts workers of its own
  (`engine.go:237`, `ARCHITECTURE.md:115`): the gauge grows by the workers each cycle
  leaves behind, while scanning goes on. `LeakIsVisible` and `AlarmIsEarned` say what
  the gauge does mean.
- `shutdownTimeout` (10 s) is shorter than the time a reload request may wait (20 s), so
  a request whose reload hangs may be cut off by the shutdown instead of being answered
  (`CutShort`). `EveryRequestAnswered` allows for it.
- SIGHUP ends the process when it comes before the watcher has subscribed to it, or
  after it has gone at shutdown (`signal_unix.go`, `main.go:340`): `SignalKills`.
- Health is taken back in the same breath in which the listener is closed
  (`main.go:240`), so a probe that comes at intervals seldom sees it down.

## 7. Abstractions, and what is not modelled

- *Errors* are one flag per target. The classes of errors matter to labels only.
- *Byte totals* are the set of files counted, less those another link stands for.
  Apparent size against disk use is left out. Entries on other filesystems are among
  those in `Skipped`, which count for nothing; which ones they are does not change.
- *The order of stacks* is left out: any reference on a worker's stack may be
  next, which includes the code's order.
- *Contexts.* The end of the root context reaches the contexts derived from it in the
  same step; in the program this is one call of the runtime, under its locks.
- *A root that is no directory* is one of the targets in `NoDirectory`; whether it was
  one before is left open, as only `prepareRoot` asks.
- *The rate limiter* only matters when it refuses, which it does at shutdown.
- *Cost and error counters* of the store only add up and are left out.
- *`ScanAll`'s single-flight flag* is a guard of `Pipeline`'s `Begin`, and `Store`
  takes from it that it is `AtRest`; in `Cycles` there is one loop and the flag never
  refuses it.
- *`Pipeline`* has no order between what is left of one cycle and the next: workers left
  behind add to the totals of their own cycle, which nobody reads any more, so `Begin`
  may take the totals as new.
- *`Cycles`* has capacities enabled, keeps each path on one volume, as `Refresh` is
  otherwise not called. The counters in
  `timeouts` only add up; what is kept of them is for which targets there are any.
- *`Resolver`* leaves out which pattern found a path, symbolic links, overlap marks
  and warnings. `SetPatterns` is called by nothing but tests.
- *`Reload`* takes what a pass saw to be some state the disk was in between its
  beginning and its end; a mixture of several is left to `Resolver`. The server's write
  deadline is left out, and so are the pages that serve no reload.
- *`Startup`* leaves out the settings nothing else here depends on, whose checks are
  one comparison each, and how values are written. Durations are numbers: that
  `2 * scan.timeout` overflows beyond 146 years is left out. The sources are
  forgotten at `Launch`, as nobody reads them afterwards. The target is one, and
  its supervisor starts at once.
- *Files and directories appearing* during a walk are not modelled: whether the
  walk sees them is up to the operating system, and `CompleteIsWhole` speaks of
  what was there when the walk began.
- `fsstat` wraps system calls and `schedprio` sets priorities: neither has state.
  Their results are choices of the model's actions. `progress.go` and
  `summary.go` only read counters.

- `isUnder` and `markOverlaps` of the resolver compare paths for a label and a log
  line; nothing else depends on them.
- The embedded page, flags' help texts, the audit log of the configuration, TLS and the
  registration of metrics are text and wiring.

Components with status `partly` in `PROJECT.json` have their state and control
modelled; what is left of them is of these kinds, and named in their notes.

## 8. Plan

In order of importance to what a user of the exporter sees:

1. `ScanCycle`: the engine's cycle, with its proofs. *Done.*
2. `Supervisor`: the timeouts on a clock, with its proofs. *Done.*
3. `Store`: retention and what a scrape shows, with its proofs. *Done.*
4. `ScanPromise`: the refinement, model-checked and proved. *Done.*
5. `Resolver`: grace periods and the limit, with its proofs. *Done.*
6. `Reload`: concurrent reloads and the reload handler. *Done*; its safety is proved.
7. `Cycles`: the scan loop, capacities and readiness. *Done*; its safety is proved.
8. `Startup`: the sources of the configuration, its cross-checks and the derived
   hard timeout, composed with `Supervisor`, with its proofs. *Done.*
9. Hard links: `shouldCount` and its cap, in `ScanCycle`, with proofs. *Done.*
10. Successive cycles on a hung mount: the workers left behind, in `Cycles`, with
    proofs. *Done.*
11. The end of the process, in `Reload`, and scrapes of shared volumes, in `Cycles`.
    *Done*; their safety is proved.
12. `Pipeline`: the engine's promise and the store in one specification, refined to
    `Store`, with proofs; in `ScanCycle`, that no work is lost, that the queue is bounded,
    and that files are added once, with proofs. *Done.*

What could follow: a `Supervision` between `ScanCycle` and `Supervisor`, so that the
second is a refinement of the first's supervisors with time added; and a `Resolver` whose
passes overlap reloads that `Reload` lets through, which would replace the numbers that
stand for the disk there by sets of paths.
