--------------------------- MODULE ScanCyclePromise ----------------------------
(***************************************************************************)
(* The proof that a cycle keeps its promise to the Sink: ScanCycle         *)
(* implements ScanPromise.  A worker's Flush is a Count, a refused root    *)
(* and the end of a supervisor are Reports, and most steps stutter.        *)
(*                                                                         *)
(* Then the proof that what a complete outcome reports is exact where      *)
(* files are hard-linked: the table of inodes of a target has an entry for *)
(* every inode that is charged through a file with several links.          *)
(***************************************************************************)
EXTENDS ScanCycleWhole

USE DEF supervision, counters, stops, totals, links, refs, local, disk, Emptied

\* The totals of a worker are files of the directory it holds.
OwnTotals ==
    \A w \in Worker, d \in Dir : Holds(w, d) => sums[w] \subseteq Contents[d] \cap File

\* A target whose root was refused has nothing in the pool and nothing counted.
Refused(t) ==
    /\ phase[t] = "reported" /\ counted[t] = {}
    /\ \A d \in Dir : Owner[d] = t => at[d] = "unseen"

\* What the report of a target says is so, and ScanAll ends after all reports.
Reportable ==
    \A t \in Target :
        /\ phase[t] \in {"report", "reported"} => outcome[t] # "none"
        /\ outcome[t] = "cancelled" => cancelled
        /\ outcome[t] \in {"missing", "root_error"} => Refused(t)
        /\ phase[t] \in {"idle", "probing"} => counted[t] = {}
        /\ main # "loop" => phase[t] = "reported"

-------------------------------------------------------------------------------
LEMMA OwnTotalsStep ==
  TypeOK /\ OneHeld /\ IdleEmpty /\ OwnTotals /\ [Next]_vars => OwnTotals'
<1> SUFFICES ASSUME TypeOK, OneHeld, IdleEmpty, OwnTotals, [Next]_vars PROVE OwnTotals'
  OBVIOUS
<1> USE ConstantsAssumption DEF OwnTotals, Holds, Goto, Move
<1>1. ASSUME NEW w \in Worker, Computation(w) PROVE OwnTotals'
  <2>1. CASE LeaveClosed(w) \/ GoShared(w) \/ LeaveParked(w) \/ After(w)
    BY <2>1 DEF LeaveClosed, GoShared, LeaveParked, After
  <2>2. ASSUME NEW d \in Dir, PopLocal(w, d) \/ PopShared(w, d) PROVE OwnTotals'
    <3>1. sums[w] = {}
      BY <2>2 DEF PopLocal, PopShared, IdleEmpty
    <3> QED
      BY <2>2, <3>1 DEF PopLocal, PopShared, TypeOK
  <2>3. ASSUME NEW d \in Dir, Discard(w, d) \/ Complete(w, d) PROVE OwnTotals'
    BY <2>3 DEF Discard, Complete, CompleteDir, TypeOK
  <2>4. ASSUME NEW d \in Dir, Dispatch(w, d) \/ CheckStop(w, d) PROVE OwnTotals'
    BY <2>4 DEF Dispatch, CheckStop
  <2>5. ASSUME NEW d \in Dir, Flush(w, d) PROVE OwnTotals'
    BY <2>5 DEF Flush, TypeOK
  <2>6. ASSUME NEW d \in Dir, Reserve(w, d) PROVE OwnTotals'
    BY <2>6 DEF Reserve, TypeOK
  <2>7. ASSUME NEW d \in Dir, Push(w, d) PROVE OwnTotals'
    BY <2>7 DEF Push, TypeOK
  <2> QED
    BY <1>1, <2>1, <2>2, <2>3, <2>4, <2>5, <2>6, <2>7 DEF Computation
<1>2. ASSUME NEW w \in Worker, NEW d \in Dir, Syscall(w, d) PROVE OwnTotals'
  <2>1. CASE ReadBatch(w, d)
    <3>1. PICK batch \in SUBSET (Contents[d] \ listed[w]) :
            \E bad \in SUBSET (batch \cap present \cap Flaky) :
              /\ sums' = [sums EXCEPT ![w] = @ \cup Countable((batch \cap present) \ bad)]
              /\ Move(((batch \cap present) \ bad) \cap Dir, "found", w)
      <4> HIDE DEF Move
      <4> QED
        BY <2>1, BatchRead
    <3>2. PICK bad \in SUBSET (batch \cap present \cap Flaky) :
              /\ sums' = [sums EXCEPT ![w] = @ \cup Countable((batch \cap present) \ bad)]
              /\ Move(((batch \cap present) \ bad) \cap Dir, "found", w)
      BY <3>1
    <3>3. sums'[w] \subseteq sums[w] \cup (Contents[d] \cap File)
      BY <3>2 DEF Countable, TypeOK
    <3>4. \A v \in Worker : v # w => sums'[v] = sums[v]
      BY <3>2 DEF TypeOK
    <3>5. \A v \in Worker, e \in Dir : Holds(v, e)' => Holds(v, e)
      BY <3>2 DEF TypeOK
    <3>6. Holds(w, d) /\ \A e \in Dir : Holds(w, e) => e = d
      BY <2>1 DEF ReadBatch, OneHeld
    <3> HIDE DEF Holds
    <3> QED
      BY <3>3, <3>4, <3>5, <3>6
  <2> QED
    BY <1>2, <2>1 DEF Syscall, OpenOK, OpenVanished, OpenFails, EndOfDir, ReadFails, LimiterStops
<1>3. ASSUME NEW t \in Target, StartTarget(t) \/ Probe(t) \/ Supervise(t) PROVE OwnTotals'
  <2>1. CASE ProbeOK(t)
    BY <2>1 DEF ProbeOK, TypeOK
  <2> QED
    BY <1>3, <2>1 DEF StartTarget, Probe, ProbeRefused, Supervise, WalkDone, DeadlineSeen,
       GiveUp, Decide, Report
<1>4. CASE ClosePool
  BY <1>4 DEF ClosePool, TypeOK
<1>5. CASE DrainDone \/ DrainTimer \/ Environment \/ Finished \/ UNCHANGED vars
  BY <1>5 DEF DrainDone, DrainTimer, Environment, Expire, Shutdown, Vanish, Finished, vars
<1> QED
  BY <1>1, <1>2, <1>3, <1>4, <1>5 DEF Next

\* What a worker holds belongs to a target that has started and was not refused.
LEMMA HeldIsWalked ==
  ASSUME TypeOK, NotStarted, Supervised, Reportable, NEW w \in Worker, NEW d \in Dir, Holds(w, d)
  PROVE  /\ Owner[d] \in Target
         /\ phase[Owner[d]] \notin {"idle", "probing"}
         /\ outcome[Owner[d]] \notin {"missing", "root_error"}
<1>1. Owner[d] \in Target /\ at[d] = "held"
  BY ConstantsAssumption DEF Holds, ConstantsAssumption
<1> QED
  BY <1>1 DEF NotStarted, Reportable, Refused

\* A started target keeps its unseen directories unseen unless it is walked.
Untouched ==
    \A t \in Target : Refused(t) => \A d \in Dir : Owner[d] = t => at'[d] = "unseen"

LEMMA UntouchedStep ==
  TypeOK /\ Whereabouts /\ [Next]_vars => Untouched
<1> SUFFICES ASSUME TypeOK, Whereabouts, [Next]_vars PROVE Untouched
  OBVIOUS
<1> USE ConstantsAssumption DEF Untouched, Refused, Holds, Goto, Move
<1>0. OneHeld /\ Handoff /\ Fresh
  BY DEF Whereabouts
<1>1. ASSUME NEW w \in Worker, Computation(w) PROVE Untouched
  <2>1. CASE LeaveClosed(w) \/ GoShared(w) \/ LeaveParked(w) \/ After(w)
    BY <2>1 DEF LeaveClosed, GoShared, LeaveParked, After
  <2>2. ASSUME NEW d \in Dir, PopLocal(w, d) \/ PopShared(w, d) PROVE Untouched
    BY <2>2 DEF PopLocal, PopShared, Having, Deque
  <2>3. ASSUME NEW d \in Dir, Discard(w, d) \/ Complete(w, d) PROVE Untouched
    BY <2>3 DEF Discard, Complete, CompleteDir
  <2>4. ASSUME NEW d \in Dir, Dispatch(w, d) \/ CheckStop(w, d) \/ Flush(w, d) PROVE Untouched
    BY <2>4 DEF Dispatch, CheckStop, Flush
  <2>5. ASSUME NEW d \in Dir, Reserve(w, d) PROVE Untouched
    BY <2>5 DEF Reserve, Having
  <2>6. ASSUME NEW d \in Dir, Push(w, d) PROVE Untouched
    BY <2>6 DEF Push, Having
  <2> QED
    BY <1>1, <2>1, <2>2, <2>3, <2>4, <2>5, <2>6 DEF Computation
<1>2. ASSUME NEW w \in Worker, NEW d \in Dir, Syscall(w, d) PROVE Untouched
  <2>1. CASE ReadBatch(w, d)
    <3>1. PICK new \in SUBSET (Contents[d] \cap Dir) : Move(new, "found", w)
      <4> HIDE DEF Move
      <4> QED
        BY <1>0, <2>1, FoundChildren
    <3>2. at[d] = "held" /\ \A c \in new : Owner[c] = Owner[d]
      BY <2>1 DEF ReadBatch, ConstantsAssumption
    <3> QED
      BY <3>1, <3>2
  <2> QED
    BY <1>2, <2>1 DEF Syscall, OpenOK, OpenVanished, OpenFails, EndOfDir, ReadFails, LimiterStops
<1>3. ASSUME NEW t \in Target, StartTarget(t) \/ Probe(t) \/ Supervise(t) PROVE Untouched
  <2>1. CASE ProbeOK(t)
    BY <2>1 DEF ProbeOK, ConstantsAssumption
  <2> QED
    BY <1>3, <2>1 DEF StartTarget, Probe, ProbeRefused, Supervise, WalkDone, DeadlineSeen,
       GiveUp, Decide, Report
<1>4. CASE ClosePool
  BY <1>4 DEF ClosePool, Deque
<1>5. CASE DrainDone \/ DrainTimer \/ Environment \/ Finished \/ UNCHANGED vars
  BY <1>5 DEF DrainDone, DrainTimer, Environment, Expire, Shutdown, Vanish, Finished, vars
<1> QED
  BY <1>1, <1>2, <1>3, <1>4, <1>5 DEF Next

\* Files are added to the totals of a target by a worker that holds one of its
\* directories, and by nothing else.
LEMMA CountedBy ==
  ASSUME TypeOK, [Next]_vars, NEW t \in Target, counted'[t] # counted[t]
  PROVE  \E w \in Worker, d \in Dir : Flush(w, d) /\ Owner[d] = t
<1>1. ASSUME NEW w \in Worker, Computation(w)
      PROVE  \E d \in Dir : Flush(w, d) /\ Owner[d] = t
  <2>1. ASSUME NEW d \in Dir, Flush(w, d) PROVE Owner[d] = t
    BY <2>1 DEF Flush, TypeOK
  <2> QED
    BY <1>1, <2>1 DEF Computation, LeaveClosed, GoShared, LeaveParked, After, PopLocal,
       PopShared, Discard, Dispatch, CheckStop, Reserve, Push, Complete
<1>2. ASSUME NEW w \in Worker, NEW d \in Dir, Syscall(w, d) PROVE FALSE
  BY <1>2 DEF Syscall, OpenOK, OpenVanished, OpenFails, ReadBatch, EndOfDir, ReadFails,
     LimiterStops
<1>3. ASSUME NEW u \in Target, StartTarget(u) \/ Probe(u) \/ Supervise(u) PROVE FALSE
  BY <1>3 DEF StartTarget, Probe, ProbeOK, ProbeRefused, Supervise, WalkDone, DeadlineSeen,
     GiveUp, Decide, Report
<1>4. CASE ClosePool \/ DrainDone \/ DrainTimer \/ Environment \/ Finished \/ UNCHANGED vars
  BY <1>4 DEF ClosePool, DrainDone, DrainTimer, Environment, Expire, Shutdown, Vanish,
     Finished, vars
<1> QED
  BY <1>1, <1>2, <1>3, <1>4 DEF Next

\* A refused target stays as it is: no worker holds anything of it.
LEMMA RefusedStays ==
  ASSUME TypeOK, Whereabouts, Supervised, Reportable, [Next]_vars,
         NEW t \in Target, Refused(t), outcome[t] \in {"missing", "root_error"}
  PROVE  counted'[t] = {} /\ \A d \in Dir : Owner[d] = t => at'[d] = "unseen"
<1>1. \A d \in Dir : Owner[d] = t => at'[d] = "unseen"
  BY UntouchedStep DEF Untouched
<1>2. counted'[t] = counted[t]
  <2>1. SUFFICES ASSUME counted'[t] # counted[t] PROVE FALSE
    OBVIOUS
  <2>2. PICK w \in Worker, d \in Dir : Flush(w, d) /\ Owner[d] = t
    BY <2>1, CountedBy
  <2> QED
    BY <2>2 DEF Flush, Holds, Refused
<1> QED
  BY <1>1, <1>2 DEF Refused

\* What is counted for a target that has not started stays nothing.
LEMMA IdleUncounted ==
  ASSUME TypeOK, Whereabouts, Supervised, Reportable, [Next]_vars,
         NEW t \in Target, phase[t] \in {"idle", "probing"}
  PROVE  counted'[t] = {}
<1>1. SUFFICES ASSUME counted'[t] # counted[t] PROVE FALSE
  BY DEF Reportable
<1>2. PICK w \in Worker, d \in Dir : Flush(w, d) /\ Owner[d] = t
  BY <1>1, CountedBy
<1> QED
  BY <1>2 DEF Flush, Holds, Whereabouts, NotStarted

LEMMA ReportableStep ==
  TypeOK /\ Whereabouts /\ Supervised /\ Reportable /\ [Next]_vars => Reportable'
<1> SUFFICES ASSUME TypeOK, Whereabouts, Supervised, Reportable, [Next]_vars, NEW t \in Target
             PROVE  /\ phase'[t] \in {"report", "reported"} => outcome'[t] # "none"
                    /\ outcome'[t] = "cancelled" => cancelled'
                    /\ outcome'[t] \in {"missing", "root_error"} => Refused(t)'
                    /\ phase'[t] \in {"idle", "probing"} => counted'[t] = {}
                    /\ main' # "loop" => phase'[t] = "reported"
  BY DEF Reportable
<1> DEFINE Goal == /\ phase'[t] \in {"report", "reported"} => outcome'[t] # "none"
                   /\ outcome'[t] = "cancelled" => cancelled'
                   /\ outcome'[t] \in {"missing", "root_error"} => Refused(t)'
                   /\ phase'[t] \in {"idle", "probing"} => counted'[t] = {}
                   /\ main' # "loop" => phase'[t] = "reported"
<1>0. /\ phase[t] \in {"report", "reported"} => outcome[t] # "none"
      /\ outcome[t] = "cancelled" => cancelled
      /\ outcome[t] \in {"missing", "root_error"} => Refused(t)
      /\ main # "loop" => phase[t] = "reported"
      /\ phase[t] \notin {"report", "reported"} => outcome[t] = "none"
      /\ phase[t] \in Phases
  BY DEF Reportable, Supervised, TypeOK
\* It is enough to look at the phase, the outcome, the signal and main.
<1>1. ASSUME phase'[t] = phase[t], outcome'[t] = outcome[t], cancelled => cancelled',
             main' # "loop" => main # "loop" \/ phase[t] = "reported"
      PROVE  Goal
  <2>1. outcome'[t] \in {"missing", "root_error"} => Refused(t)'
    BY <1>0, <1>1, RefusedStays DEF Refused
  <2>2. phase'[t] \in {"idle", "probing"} => counted'[t] = {}
    BY <1>1, IdleUncounted
  <2> QED
    BY <1>0, <1>1, <2>1, <2>2
<1>2. ASSUME NEW w \in Worker, Computation(w) \/ \E d \in Dir : Syscall(w, d) PROVE Goal
  BY <1>1, <1>2, WorkerFrame
<1>3. ASSUME NEW u \in Target, StartTarget(u) \/ Probe(u) \/ Supervise(u), u # t PROVE Goal
  <2>1. phase'[t] = phase[t] /\ outcome'[t] = outcome[t] /\ UNCHANGED <<cancelled, main>>
    <3>1. CASE ProbeRefused(u)
      BY <1>3, <3>1 DEF ProbeRefused, TypeOK
    <3>2. CASE Decide(u)
      BY <1>3, <3>2 DEF Decide, AskRoot, AskScan, AskTotals, Conclude, GoOn, TypeOK
    <3> QED
      BY <1>3, <3>1, <3>2 DEF TypeOK, StartTarget, Probe, ProbeOK, Supervise, WalkDone,
         DeadlineSeen, GiveUp, Report
  <2> QED
    BY <1>1, <2>1
<1>4. ASSUME StartTarget(t) \/ Probe(t) \/ Supervise(t) PROVE Goal
  <2>1. CASE StartTarget(t)
    <3>1. /\ phase'[t] = "probing" /\ outcome'[t] = "none" /\ main' = "loop"
          /\ phase[t] = "idle"
      BY <1>0, <2>1 DEF StartTarget, TypeOK
    <3> QED
      BY <3>1, IdleUncounted
  <2>2. CASE ProbeOK(t)
    <3>1. phase'[t] = "await" /\ outcome'[t] = "none" /\ main' = "loop"
      BY <1>0, <2>2 DEF ProbeOK, TypeOK
    <3> QED
      BY <3>1
  <2>3. CASE ProbeRefused(t)
    <3>1. /\ phase'[t] = "reported" /\ outcome'[t] \in {"missing", "root_error"}
          /\ phase[t] = "probing" /\ UNCHANGED at
      BY <2>3 DEF ProbeRefused, TypeOK
    <3>2. counted'[t] = {}
      BY <3>1, IdleUncounted
    <3>3. Refused(t)'
      BY <3>1, <3>2 DEF Refused, Whereabouts, NotStarted
    <3> QED
      BY <3>1, <3>3
  <2>4. CASE WalkDone(t) \/ DeadlineSeen(t) \/ GiveUp(t)
    <3>1. phase'[t] \in {"decide", "draining"} /\ outcome'[t] = "none" /\ main' = "loop"
      BY <1>0, <2>4 DEF WalkDone, DeadlineSeen, GiveUp, TypeOK
    <3> QED
      BY <3>1
  <2>5. CASE Decide(t)
    <3>1. main' = "loop" /\ cancelled' = cancelled /\ phase[t] \in Deciding
      BY <1>0, <2>5 DEF Decide, AskRoot, AskScan, AskTotals, Deciding
    <3>2. \/ phase'[t] \in {"judge", "tally"} /\ outcome'[t] = outcome[t]
          \/ /\ phase'[t] = "report" /\ outcome'[t] \notin {"none", "missing", "root_error"}
             /\ outcome'[t] = "cancelled" => cancelled
      BY <2>5 DEF Decide, AskRoot, AskScan, AskTotals, Conclude, GoOn, TypeOK
    <3>3. outcome[t] = "none"
      BY <1>0, <3>1 DEF Deciding
    <3> QED
      BY <3>1, <3>2, <3>3
  <2>6. CASE Report(t)
    <3>1. /\ phase'[t] = "reported" /\ outcome'[t] = outcome[t] /\ cancelled' = cancelled
          /\ phase[t] = "report"
      BY <2>6 DEF Report, TypeOK
    <3>2. outcome[t] \notin {"missing", "root_error"}
      BY <1>0, <3>1 DEF Refused
    <3> QED
      BY <1>0, <3>1, <3>2
  <2> QED
    BY <1>4, <2>1, <2>2, <2>3, <2>4, <2>5, <2>6 DEF Probe, Supervise
<1>5. CASE ClosePool \/ DrainDone \/ DrainTimer
  <2>1. UNCHANGED <<phase, outcome, cancelled>> /\ (main # "loop" \/ phase[t] = "reported")
    BY <1>5 DEF ClosePool, Awaited, DrainDone, DrainTimer
  <2> QED
    BY <1>1, <2>1
<1>6. CASE Environment \/ Finished \/ UNCHANGED vars
  <2>1. UNCHANGED <<phase, outcome, main>> /\ (cancelled => cancelled')
    BY <1>6 DEF Environment, Expire, Shutdown, Vanish, Finished, vars
  <2> QED
    BY <1>1, <2>1
<1> QED
  BY <1>2, <1>3, <1>4, <1>5, <1>6 DEF Next

-------------------------------------------------------------------------------
(* The simulation.                                                         *)

PromiseInv == WholeInv /\ OwnTotals /\ Reportable

LEMMA PromiseInvInit == Init => PromiseInv
<1> SUFFICES ASSUME Init PROVE PromiseInv
  OBVIOUS
<1>1. WholeInv
  BY WholeInit
<1>2. OwnTotals /\ Reportable
  BY DEF Init, OwnTotals, Reportable, Holds
<1> QED
  BY <1>1, <1>2 DEF PromiseInv

LEMMA PromiseInvStep == PromiseInv /\ [Next]_vars => PromiseInv'
<1> SUFFICES ASSUME PromiseInv, [Next]_vars PROVE PromiseInv'
  OBVIOUS
<1>1. /\ WholeInv /\ TypeOK /\ Whereabouts /\ OneHeld /\ Supervised /\ IdleEmpty
      /\ OwnTotals /\ Reportable
  BY DEF PromiseInv, WholeInv, IInv, Whereabouts
<1> QED
  BY <1>1, WholeNext, OwnTotalsStep, ReportableStep DEF PromiseInv

\* Nothing has been announced, counted or reported when ScanAll begins.
LEMMA InitIsPromised == Init => Promise!Init
<1> SUFFICES ASSUME Init PROVE Promise!Init
  OBVIOUS
<1>1. \A t \in Target : Stage(t) = "waiting" /\ phase[t] # "reported"
  BY DEF Init, Stage
<1>2. /\ counted = [t \in Target |-> {}] /\ present \cap File \in SUBSET File
      /\ cancelled \in BOOLEAN /\ main # "returned"
  BY DEF Init, Entry
<1> QED
  BY <1>1, <1>2 DEF Promise!Init

\* Announcing and reporting depend on the phase and the outcome only.
LEMMA StageFrame ==
  ASSUME UNCHANGED <<phase, outcome>>
  PROVE  /\ [t \in Target |-> Stage(t)]' = [t \in Target |-> Stage(t)]
         /\ [t \in Target |-> IF phase[t] = "reported" THEN outcome[t] ELSE "none"]' =
            [t \in Target |-> IF phase[t] = "reported" THEN outcome[t] ELSE "none"]
BY DEF Stage

\* What a worker does is counting, or cannot be seen from outside.
LEMMA WorkersCount ==
  ASSUME PromiseInv, NEW w \in Worker, Computation(w) \/ \E d \in Dir : Syscall(w, d)
  PROVE  [Promise!Next]_(Promise!vars)
<1>1. UNCHANGED <<main, phase, outcome, cancelled, present>>
  BY WorkerFrame
<1>2. /\ TypeOK /\ NotStarted /\ LatchMeansDone /\ Supervised /\ Reportable /\ OwnTotals
      /\ [Next]_vars
  BY DEF PromiseInv, WholeInv, IInv, Whereabouts, Next
<1>3. CASE UNCHANGED counted
  BY <1>1, <1>3, StageFrame DEF Promise!vars
<1>4. CASE counted' # counted
  <2>1. PICK t \in Target : counted'[t] # counted[t]
    <3>1. counted \in [Target -> SUBSET File] /\ counted' \in [Target -> SUBSET File]
      BY <1>2, TypeStep DEF TypeOK
    <3> QED
      BY <1>4, <3>1
  <2>2. PICK v \in Worker, d \in Dir : Flush(v, d) /\ Owner[d] = t
    BY <1>2, <2>1, CountedBy
  <2>3. Holds(v, d) /\ counted' = [counted EXCEPT ![t] = @ \cup sums[v]]
    BY <2>2 DEF Flush
  <2>4. /\ phase[t] \notin {"idle", "probing"}
        /\ outcome[t] \notin {"complete", "missing", "root_error"}
    <3>1. d \in Outstanding(t)
      BY <2>2, <2>3 DEF Outstanding, Holds
    <3>2. outcome[t] # "complete"
      BY <1>2, <3>1 DEF LatchMeansDone, Supervised
    <3> QED
      BY <1>2, <2>2, <2>3, <3>2, HeldIsWalked
  <2>5. sums[v] \subseteq FilesOf(t)
    BY <1>2, <2>2, <2>3 DEF OwnTotals, FilesOf
  <2>6. Promise!Count(t)
    BY <1>1, <2>3, <2>4, <2>5, StageFrame DEF Promise!Count, Stage
  <2> QED
    BY <2>6 DEF Promise!Next
<1> QED
  BY <1>3, <1>4

\* Each step of a target's supervisor, or of the goroutine that starts it, is an
\* announcement, a report, or cannot be seen.
LEMMA SupervisorsReport ==
  ASSUME PromiseInv, NEW t \in Target, StartTarget(t) \/ Probe(t) \/ Supervise(t)
  PROVE  [Promise!Next]_(Promise!vars)
<1> DEFINE stage == [u \in Target |-> Stage(u)]
           verdict == [u \in Target |-> IF phase[u] = "reported" THEN outcome[u] ELSE "none"]
<1>1. /\ TypeOK /\ Supervised /\ Reportable /\ FinalIsWhole
      /\ main # "loop" => phase[t] = "reported"
  BY DEF PromiseInv, WholeInv, IInv, Reportable
<1>2. UNCHANGED <<counted, present, cancelled, main>>
  BY DEF StartTarget, Probe, ProbeOK, ProbeRefused, Supervise, WalkDone, DeadlineSeen, GiveUp,
     Decide, Report
<1>3. \A u \in Target : u # t => phase'[u] = phase[u] /\ outcome'[u] = outcome[u]
  <2>1. CASE ProbeRefused(t)
    BY <1>1, <2>1 DEF ProbeRefused, TypeOK
  <2>2. CASE Decide(t)
    BY <1>1, <2>2 DEF Decide, AskRoot, AskScan, AskTotals, Conclude, GoOn, TypeOK
  <2> QED
    BY <1>1, <2>1, <2>2 DEF TypeOK, StartTarget, Probe, ProbeOK, Supervise, WalkDone,
       DeadlineSeen, GiveUp, Report
<1>4. \A u \in Target : u # t => stage'[u] = stage[u] /\ verdict'[u] = verdict[u]
  BY <1>3 DEF Stage
<1>5. CASE StartTarget(t)
  <2>1. phase[t] = "idle" /\ phase'[t] = "probing" /\ main = "loop"
    BY <1>1, <1>5 DEF StartTarget, TypeOK
  <2>2. stage[t] = "waiting" /\ stage'[t] = "walking" /\ verdict'[t] = verdict[t]
    BY <2>1 DEF Stage
  <2>3. stage' = [stage EXCEPT ![t] = "walking"] /\ verdict' = verdict
    BY <1>4, <2>2
  <2>4. Promise!Announce(t)
    BY <1>2, <2>1, <2>2, <2>3 DEF Promise!Announce
  <2> QED
    BY <2>4 DEF Promise!Next
<1>6. CASE ProbeOK(t) \/ WalkDone(t) \/ DeadlineSeen(t) \/ GiveUp(t) \/ Decide(t)
  <2>1. phase[t] \notin {"idle", "reported"} /\ phase'[t] \notin {"idle", "reported"}
    BY <1>1, <1>6 DEF ProbeOK, WalkDone, DeadlineSeen, GiveUp, Decide, AskRoot, AskScan,
       AskTotals, Conclude, GoOn, TypeOK
  <2>2. stage'[t] = stage[t] /\ verdict'[t] = verdict[t]
    BY <2>1 DEF Stage
  <2>3. stage' = stage /\ verdict' = verdict
    BY <1>4, <2>2
  <2> QED
    BY <1>2, <2>3 DEF Promise!vars
<1>7. CASE ProbeRefused(t) \/ Report(t)
  <2>1. /\ phase[t] \in {"probing", "report"} /\ phase'[t] = "reported"
        /\ main = "loop"
    BY <1>1, <1>7 DEF ProbeRefused, Report, TypeOK
  <2>2. /\ outcome'[t] \in Outcomes \ {"none"}
        /\ outcome'[t] \in {"missing", "root_error"} => counted[t] = {}
        /\ outcome'[t] = "cancelled" => cancelled
        /\ outcome'[t] = "complete" => FilesOf(t) \cap present \subseteq counted[t]
    <3>1. CASE ProbeRefused(t)
      <4>1. outcome'[t] \in {"missing", "root_error"} /\ counted[t] = {}
        BY <1>1, <3>1 DEF ProbeRefused, TypeOK, Reportable
      <4> QED
        BY <4>1 DEF Outcomes
    <3>2. CASE Report(t)
      <4>1. outcome'[t] = outcome[t] /\ outcome[t] # "none" /\ outcome[t] \in Outcomes
        BY <1>1, <3>2 DEF Report, TypeOK, Reportable
      <4> QED
        BY <1>1, <4>1 DEF Reportable, Refused, FinalIsWhole, Final
    <3> QED
      BY <1>7, <3>1, <3>2
  <2>3. stage[t] = "walking" /\ stage'[t] = "reported" /\ verdict'[t] = outcome'[t]
    BY <2>1 DEF Stage
  <2>4. /\ stage' = [stage EXCEPT ![t] = "reported"]
        /\ verdict' = [verdict EXCEPT ![t] = outcome'[t]]
    BY <1>4, <2>3
  <2>5. outcome'[t] \in Promise!Outcomes /\ Promise!Means(t, outcome'[t])
    BY <2>2 DEF Promise!Outcomes, Promise!Means, Outcomes, FilesOf
  <2>6. Promise!Report(t)
    BY <1>2, <2>1, <2>3, <2>4, <2>5 DEF Promise!Report
  <2> QED
    BY <2>6 DEF Promise!Next
<1> QED
  BY <1>5, <1>6, <1>7 DEF Probe, Supervise

LEMMA StepIsPromised == PromiseInv /\ [Next]_vars => [Promise!Next]_(Promise!vars)
<1> SUFFICES ASSUME PromiseInv, [Next]_vars PROVE [Promise!Next]_(Promise!vars)
  OBVIOUS
<1>1. ASSUME NEW w \in Worker, Computation(w) \/ \E d \in Dir : Syscall(w, d)
      PROVE  [Promise!Next]_(Promise!vars)
  BY <1>1, WorkersCount
<1>2. ASSUME NEW t \in Target, StartTarget(t) \/ Probe(t) \/ Supervise(t)
      PROVE  [Promise!Next]_(Promise!vars)
  BY <1>2, SupervisorsReport
<1>3. CASE ClosePool
  <2>1. main = "loop" /\ main' = "drain" /\ UNCHANGED <<phase, outcome, counted, present, cancelled>>
    BY <1>3 DEF ClosePool
  <2> QED
    BY <2>1, StageFrame DEF Promise!vars
<1>4. CASE DrainDone \/ DrainTimer
  <2>1. /\ main = "drain" /\ main' = "returned"
        /\ UNCHANGED <<phase, outcome, counted, present, cancelled>>
    BY <1>4 DEF DrainDone, DrainTimer
  <2>2. \A t \in Target : Stage(t) = "reported"
    BY <2>1 DEF PromiseInv, Reportable, Stage
  <2>3. Promise!Return
    BY <2>1, <2>2, StageFrame DEF Promise!Return
  <2> QED
    BY <2>3 DEF Promise!Next
<1>5. CASE Environment
  <2>1. UNCHANGED <<main, phase, outcome, counted>>
    BY <1>5 DEF Environment, Expire, Shutdown, Vanish
  <2>2. CASE Shutdown
    <3>1. cancelled' = TRUE /\ UNCHANGED present
      BY <2>2 DEF Shutdown
    <3>2. Promise!Shutdown
      BY <2>1, <3>1, StageFrame DEF Promise!Shutdown
    <3> QED
      BY <3>2 DEF Promise!Next
  <2>3. ASSUME NEW t \in Target, Expire(t) PROVE UNCHANGED Promise!vars
    BY <2>1, <2>3, StageFrame DEF Expire, Promise!vars
  <2>4. ASSUME NEW gone \in Rotations, Vanish(gone) PROVE Promise!Remove
    <3>1. present' \cap File \in SUBSET (present \cap File) /\ UNCHANGED cancelled
      BY <2>4 DEF Vanish
    <3> QED
      BY <2>1, <3>1, StageFrame DEF Promise!Remove
  <2> QED
    BY <1>5, <2>2, <2>3, <2>4 DEF Environment, Promise!Next
<1>6. CASE Finished \/ UNCHANGED vars
  BY <1>6, StageFrame DEF Finished, vars, Promise!vars
<1> QED
  BY <1>1, <1>2, <1>3, <1>4, <1>5, <1>6 DEF Next

\* ScanCycle implements ScanPromise: whatever the trees, the workers, the errors
\* and the timeouts, the Sink sees each target announced and reported once, with
\* an outcome that is true of what was measured, before ScanAll returns.
THEOREM CyclesKeepTheirPromise == Spec => KeepsItsPromise
<1>1. Init => PromiseInv /\ Promise!Init
  BY PromiseInvInit, InitIsPromised
<1>2. PromiseInv /\ [Next]_vars => PromiseInv' /\ [Promise!Next]_(Promise!vars)
  BY PromiseInvStep, StepIsPromised
<1> QED
  BY <1>1, <1>2, PTL DEF Spec, KeepsItsPromise, Promise!Spec

-------------------------------------------------------------------------------
(* Hard links: what is in the table of inodes, and what was left out for it. *)

\* The files of a directory are accounted for after it has been opened, and no
\* sooner than ReadSome returns them.
Untaken ==
    \A d \in Dir :
        /\ \/ at[d] \notin {"held", "done"}
           \/ \E w \in Worker : Holds(w, d) /\ pc[w] \in {"dispatch", "open"}
           => Contents[d] \cap Taken(Owner[d]) = {}
        /\ \A w \in Worker : Holds(w, d) /\ pc[w] \in {"check", "read"} =>
                Contents[d] \cap Taken(Owner[d]) \subseteq listed[w]

\* Files are accounted for in the totals of their own target only.
OwnTaken ==
    /\ \A t \in Target : Taken(t) \subseteq FilesOf(t)
    /\ \A f \in spared : \E t \in Target : f \in Taken(t)

\* The inodes in the table and the files accounted for are charged through one of
\* their links; while there is room, the table has every inode that is charged
\* through a file with several, and none is charged through two.
Table(t) ==
    /\ \A i \in inodes[t] : \E g \in Charged(t) : Inode[g] = i
    /\ \A f \in Taken(t) : \E g \in Charged(t) : Inode[g] = Inode[f]
    /\ DedupHardlinks /\ ~exhausted[t] =>
         /\ \A f \in Charged(t) \cap present : Linked(f) => Inode[f] \in inodes[t]
         /\ NoneTwice(Charged(t))

LinkInv == Untaken /\ OwnTaken /\ \A t \in Target : Table(t)

\* What every step but a ReadBatch does: nothing is taken, and a worker comes to
\* read a directory only by opening it.
Advance ==
    /\ \A t \in Target : Taken(t)' = Taken(t)
    /\ UNCHANGED links /\ present' \subseteq present
    /\ \A d \in Dir : at'[d] \notin {"held", "done"} => at[d] \notin {"held", "done"}
    /\ \A w \in Worker, d \in Dir : Holds(w, d)' =>
         /\ pc'[w] \in {"dispatch", "open"} =>
              \/ at[d] \notin {"held", "done"}
              \/ Holds(w, d) /\ pc[w] \in {"dispatch", "open"}
         /\ pc'[w] \in {"check", "read"} =>
              /\ Holds(w, d)
              /\ pc[w] \in {"open", "check", "read"}
              /\ pc[w] # "open" => listed'[w] = listed[w]

LEMMA AdvanceStep ==
  ASSUME TypeOK, OneHeld, Handoff, NotStarted, IdleEmpty, [Next]_vars,
         \A w \in Worker, d \in Dir : ~ReadBatch(w, d)
  PROVE  Advance
<1> USE ConstantsAssumption DEF Advance, Taken, Holds, Goto, Move
<1>1. ASSUME NEW w \in Worker, Computation(w) PROVE Advance
  <2>1. CASE LeaveClosed(w) \/ GoShared(w) \/ LeaveParked(w) \/ After(w)
    BY <2>1 DEF LeaveClosed, GoShared, LeaveParked, After, TypeOK
  <2>2. ASSUME NEW d \in Dir, PopLocal(w, d) \/ PopShared(w, d) PROVE Advance
    <3>1. sums[w] = {} /\ at[d] \in {"local", "deque"}
      BY <2>2 DEF PopLocal, PopShared, Having, Deque, IdleEmpty
    <3>2. /\ pc' = [pc EXCEPT ![w] = "dispatch"]
          /\ at' = [e \in Dir |-> IF e = d THEN "held" ELSE at[e]]
          /\ by' = [e \in Dir |-> IF e = d THEN w ELSE by[e]]
          /\ UNCHANGED <<counted, links, listed, sums, present>>
      BY <2>2 DEF PopLocal, PopShared
    <3>3. \A v \in Worker, e \in Dir : Holds(v, e)' <=> Holds(v, e) \/ (v = w /\ e = d)
      BY <3>1, <3>2
    <3>4. ASSUME NEW t \in Target PROVE Taken(t)' = Taken(t)
      <4> HIDE DEF Holds
      <4>1. \A f \in File :
              (\E v \in Worker, e \in Dir : Holds(v, e)' /\ Owner[e] = t /\ f \in sums'[v])
              <=> (\E v \in Worker, e \in Dir : Holds(v, e) /\ Owner[e] = t /\ f \in sums[v])
        BY <3>1, <3>2, <3>3
      <4> QED
        BY <3>2, <4>1
    <3>5. \A e \in Dir : at'[e] \notin {"held", "done"} => at[e] \notin {"held", "done"}
      BY <3>2
    <3>6. pc'[w] = "dispatch" /\ \A v \in Worker : v # w => pc'[v] = pc[v]
      BY <3>2 DEF TypeOK
    <3>7. \A e \in Dir : ~Holds(w, e)
      <4> HIDE DEF Holds
      <4> QED
        BY <2>2 DEF PopLocal, PopShared, OneHeld
    <3>8. UNCHANGED <<links, listed, present>>
      BY <3>2
    <3>9. ASSUME NEW v \in Worker, NEW e \in Dir, Holds(v, e)'
          PROVE  /\ pc'[v] \in {"dispatch", "open"} =>
                      \/ at[e] \notin {"held", "done"}
                      \/ Holds(v, e) /\ pc[v] \in {"dispatch", "open"}
                 /\ pc'[v] \in {"check", "read"} =>
                      Holds(v, e) /\ pc[v] \in {"check", "read"} /\ listed'[v] = listed[v]
      <4>1. CASE v = w
        <5>1. e = d
          <6> HIDE DEF Holds
          <6> QED
            BY <3>3, <3>7, <3>9, <4>1
        <5> QED
          BY <3>1, <3>6, <4>1, <5>1
      <4>2. CASE v # w
        <5>1. Holds(v, e)
          <6> HIDE DEF Holds
          <6> QED
            BY <3>3, <3>9, <4>2
        <5> QED
          BY <3>6, <3>8, <4>2, <5>1
      <4> QED
        BY <4>1, <4>2
    <3> HIDE DEF Holds, Taken
    <3> QED
      BY <3>4, <3>5, <3>8, <3>9
  <2>3. ASSUME NEW d \in Dir, Discard(w, d) \/ Complete(w, d) PROVE Advance
    <3>1. /\ sums[w] = {} /\ Holds(w, d) /\ pc[w] \in {"dispatch", "complete"}
          /\ pc' = [pc EXCEPT ![w] = pc'[w]] /\ pc'[w] \in {"next", "after"}
          /\ UNCHANGED <<counted, links, listed, sums, present>>
      BY <2>3 DEF Discard, Complete, IdleEmpty, TypeOK
    <3>2. /\ at' = [e \in Dir |-> IF e = d THEN "done" ELSE at[e]]
          /\ by' = [e \in Dir |-> IF e = d THEN NoWorker ELSE by[e]]
      BY <2>3 DEF Discard, Complete, CompleteDir
    <3>3. \A v \in Worker, e \in Dir : Holds(v, e)' <=> Holds(v, e) /\ e # d
      BY <3>1, <3>2
    <3>4. ASSUME NEW t \in Target PROVE Taken(t)' = Taken(t)
      <4>1. \A v \in Worker : Holds(v, d) => sums[v] = {}
        BY <3>1
      <4> HIDE DEF Holds
      <4>2. \A f \in File :
              (\E v \in Worker, e \in Dir : Holds(v, e)' /\ Owner[e] = t /\ f \in sums'[v])
              <=> (\E v \in Worker, e \in Dir : Holds(v, e) /\ Owner[e] = t /\ f \in sums[v])
        BY <3>1, <3>3, <4>1
      <4> QED
        BY <3>1, <4>2
    <3>5. \A e \in Dir : at'[e] \notin {"held", "done"} => at[e] \notin {"held", "done"}
      BY <3>2
    <3>6. \A v \in Worker : v # w => pc'[v] = pc[v]
      BY <3>1 DEF TypeOK
    <3>7. /\ pc'[w] \in {"next", "after"}
          /\ UNCHANGED <<links, listed, present>>
      BY <3>1
    <3>8. ASSUME NEW v \in Worker, NEW e \in Dir, Holds(v, e)'
          PROVE  /\ pc'[v] \in {"dispatch", "open"} => Holds(v, e) /\ pc[v] \in {"dispatch", "open"}
                 /\ pc'[v] \in {"check", "read"} =>
                      Holds(v, e) /\ pc[v] \in {"check", "read"} /\ listed'[v] = listed[v]
      <4> HIDE DEF Holds
      <4> QED
        BY <3>3, <3>6, <3>7, <3>8
    <3> HIDE DEF Holds, Taken
    <3> QED
      BY <3>4, <3>5, <3>7, <3>8
  <2>4. ASSUME NEW d \in Dir, Dispatch(w, d) \/ CheckStop(w, d) PROVE Advance
    BY <2>4 DEF Dispatch, CheckStop, TypeOK
  <2>5. ASSUME NEW d \in Dir, Flush(w, d) PROVE Advance
    <3>1. /\ Holds(w, d) /\ \A e \in Dir : Holds(w, e) => e = d
          /\ Owner[d] \in Target
      BY <2>5 DEF Flush, OneHeld, ConstantsAssumption
    <3>2. /\ counted' = [counted EXCEPT ![Owner[d]] = @ \cup sums[w]]
          /\ sums' = [sums EXCEPT ![w] = {}] /\ listed' = [listed EXCEPT ![w] = {}]
          /\ pc' = [pc EXCEPT ![w] = pc'[w]] /\ pc'[w] \in {"complete", "reserve"}
          /\ UNCHANGED <<links, refs, present>>
      BY <2>5 DEF Flush, TypeOK
    <3>3. ASSUME NEW t \in Target PROVE Taken(t)' = Taken(t)
      <4>1. counted'[t] = IF t = Owner[d] THEN counted[t] \cup sums[w] ELSE counted[t]
        BY <3>2 DEF TypeOK
      <4>2. \A v \in Worker : sums'[v] = IF v = w THEN {} ELSE sums[v]
        BY <3>2 DEF TypeOK
      <4>3. \A v \in Worker, e \in Dir : Holds(v, e)' <=> Holds(v, e)
        BY <3>2
      <4> HIDE DEF Holds
      <4>4. \A f \in File :
              (\/ f \in counted'[t]
               \/ \E v \in Worker, e \in Dir : Holds(v, e)' /\ Owner[e] = t /\ f \in sums'[v])
              <=> (\/ f \in counted[t]
                   \/ \E v \in Worker, e \in Dir : Holds(v, e) /\ Owner[e] = t /\ f \in sums[v])
        BY <3>1, <4>1, <4>2, <4>3
      <4> QED
        BY <4>4
    <3>4. \A v \in Worker : v # w => pc'[v] = pc[v] /\ listed'[v] = listed[v]
      BY <3>2 DEF TypeOK
    <3>5. \A v \in Worker, e \in Dir : Holds(v, e)' <=> Holds(v, e)
      BY <3>2
    <3> HIDE DEF Holds, Taken
    <3> QED
      BY <3>2, <3>3, <3>4, <3>5
  <2>6. ASSUME NEW d \in Dir, Reserve(w, d) PROVE Advance
    BY <2>6 DEF Reserve, Having, TypeOK
  <2>7. ASSUME NEW d \in Dir, Push(w, d) PROVE Advance
    BY <2>7 DEF Push, Having, TypeOK
  <2> QED
    BY <1>1, <2>1, <2>2, <2>3, <2>4, <2>5, <2>6, <2>7 DEF Computation
<1>2. ASSUME NEW w \in Worker, NEW d \in Dir, Syscall(w, d) PROVE Advance
  <2>1. CASE OpenOK(w, d) \/ OpenVanished(w, d) \/ OpenFails(w, d)
    BY <2>1 DEF OpenOK, OpenVanished, OpenFails, TypeOK
  <2>2. CASE EndOfDir(w, d) \/ ReadFails(w, d) \/ LimiterStops(w, d)
    BY <2>2 DEF EndOfDir, ReadFails, LimiterStops, TypeOK
  <2> QED
    BY <1>2, <2>1, <2>2 DEF Syscall
<1>3. ASSUME NEW t \in Target, StartTarget(t) \/ Probe(t) \/ Supervise(t) PROVE Advance
  <2>1. CASE ProbeOK(t)
    <3>1. at[Root[t]] = "unseen" /\ Root[t] \in Dir
      BY <2>1 DEF ProbeOK, NotStarted, ConstantsAssumption
    <3> QED
      BY <2>1, <3>1 DEF ProbeOK, TypeOK
  <2> QED
    BY <1>3, <2>1 DEF StartTarget, Probe, ProbeRefused, Supervise, WalkDone, DeadlineSeen,
       GiveUp, Decide, Report
<1>4. CASE ClosePool
  BY <1>4 DEF ClosePool, Deque, TypeOK
<1>5. CASE DrainDone \/ DrainTimer \/ Environment \/ Finished \/ UNCHANGED vars
  BY <1>5 DEF DrainDone, DrainTimer, Environment, Expire, Shutdown, Vanish, Finished, vars
<1> QED
  BY <1>1, <1>2, <1>3, <1>4, <1>5 DEF Next

\* What a ReadBatch takes: files of the directory that were not taken before.
LEMMA BatchTakes ==
  ASSUME TypeOK, OneHeld, Fresh, Untaken, OwnTaken, NEW w \in Worker, NEW d \in Dir,
         ReadBatch(w, d)
  PROVE  \E files \in SUBSET (Contents[d] \cap File) :
           /\ ShouldCount(Owner[d], files)
           /\ files \cap Taken(Owner[d]) = {} /\ files \subseteq listed'[w]
           /\ Taken(Owner[d])' = Taken(Owner[d]) \cup files
           /\ \A t \in Target : t # Owner[d] => Taken(t)' = Taken(t)
           /\ \A v \in Worker, e \in Dir : Holds(v, e)' <=> Holds(v, e)
           /\ \A e \in Dir : at'[e] \notin {"held", "done"} => at[e] \notin {"held", "done"}
           /\ \A v \in Worker : v # w => listed'[v] = listed[v] /\ pc'[v] = pc[v]
<1> USE ConstantsAssumption
<1>1. PICK batch \in SUBSET (Contents[d] \ listed[w]) :
        \E bad \in SUBSET (batch \cap present \cap Flaky) :
          /\ listed' = [listed EXCEPT ![w] = @ \cup batch]
          /\ sums' = [sums EXCEPT ![w] = @ \cup Countable((batch \cap present) \ bad)]
          /\ Move(((batch \cap present) \ bad) \cap Dir, "found", w)
          /\ ShouldCount(Owner[d], ((batch \cap present) \ bad) \cap File)
  BY DEF ReadBatch
<1>2. PICK bad \in SUBSET (batch \cap present \cap Flaky) :
          /\ listed' = [listed EXCEPT ![w] = @ \cup batch]
          /\ sums' = [sums EXCEPT ![w] = @ \cup Countable((batch \cap present) \ bad)]
          /\ Move(((batch \cap present) \ bad) \cap Dir, "found", w)
          /\ ShouldCount(Owner[d], ((batch \cap present) \ bad) \cap File)
  BY <1>1
<1> DEFINE files == ((batch \cap present) \ bad) \cap File
           new == ((batch \cap present) \ bad) \cap Dir
<1>3. /\ Holds(w, d) /\ pc[w] = "read" /\ pc' = [pc EXCEPT ![w] = "check"]
      /\ UNCHANGED <<counted, present>> /\ Owner[d] \in Target
  BY DEF ReadBatch, Goto, ConstantsAssumption
<1>4. files \in SUBSET (Contents[d] \cap File) /\ ShouldCount(Owner[d], files)
  BY <1>2
<1>5. files \cap Taken(Owner[d]) = {}
  BY <1>3 DEF Untaken
<1>6. /\ listed'[w] = listed[w] \cup batch /\ sums'[w] = sums[w] \cup files
      /\ \A v \in Worker : v # w => listed'[v] = listed[v] /\ pc'[v] = pc[v] /\ sums'[v] = sums[v]
  BY <1>2, <1>3 DEF TypeOK, Countable
<1>7. \A c \in new : at[c] = "unseen"
  BY <1>3 DEF Fresh, Holds
<1>8. /\ at' = [e \in Dir |-> IF e \in new THEN "found" ELSE at[e]]
      /\ by' = [e \in Dir |-> IF e \in new THEN w ELSE by[e]]
  BY <1>2 DEF Move
<1> HIDE DEF files, new
<1>9. /\ \A v \in Worker, e \in Dir : Holds(v, e)' <=> Holds(v, e)
      /\ \A e \in Dir : at'[e] \notin {"held", "done"} => at[e] \notin {"held", "done"}
  BY <1>7, <1>8 DEF Holds
<1>10. \A e \in Dir : Holds(w, e) => e = d
  BY <1>3 DEF OneHeld
<1>11. ASSUME NEW t \in Target
       PROVE  Taken(t)' = IF t = Owner[d] THEN Taken(t) \cup files ELSE Taken(t)
  <2>1. files \subseteq File
    BY <1>4
  <2>2. \A f \in File :
          (\E v \in Worker, e \in Dir : Holds(v, e)' /\ Owner[e] = t /\ f \in sums'[v])
          <=> \/ \E v \in Worker, e \in Dir : Holds(v, e) /\ Owner[e] = t /\ f \in sums[v]
              \/ t = Owner[d] /\ f \in files
    BY <1>3, <1>6, <1>9, <1>10
  <2> QED
    BY <1>3, <2>1, <2>2 DEF Taken
<1> QED
  <2>1. files \subseteq listed'[w]
    BY <1>6 DEF files
  <2> QED
    BY <1>3, <1>4, <1>5, <1>6, <1>9, <1>11, <2>1

\* A file is directly in one directory, so what is taken of one directory is of
\* no other.
LEMMA OneParent ==
  ASSUME NEW d \in Dir, NEW e \in Dir, NEW f, f \in Contents[d], f \in Contents[e]
  PROVE  d = e
BY TreeAssumption DEF TreeAssumption

\* A file belongs to the target that owns its directory and to no other.
LEMMA OneOwner ==
  ASSUME NEW t \in Target, NEW u \in Target, NEW f, f \in FilesOf(t), f \in FilesOf(u)
  PROVE  t = u
<1>1. PICK d \in Dir : Owner[d] = t /\ f \in Contents[d]
  BY DEF FilesOf
<1>2. PICK e \in Dir : Owner[e] = u /\ f \in Contents[e]
  BY DEF FilesOf
<1> QED
  BY <1>1, <1>2, OneParent

LEMMA UntakenStep ==
  ASSUME TypeOK, OneHeld, Handoff, Fresh, NotStarted, IdleEmpty, Untaken, OwnTaken, [Next]_vars
  PROVE  Untaken' /\ OwnTaken'
<1> USE ConstantsAssumption
<1>1. CASE \A w \in Worker, d \in Dir : ~ReadBatch(w, d)
  <2>1. Advance
    BY <1>1, AdvanceStep
  <2>2. OwnTaken'
    BY <2>1 DEF Advance, OwnTaken, FilesOf
  <2>3. ASSUME NEW d \in Dir PROVE Taken(Owner[d])' = Taken(Owner[d])
    BY <2>1 DEF Advance, ConstantsAssumption
  <2>4. ASSUME NEW d \in Dir,
               \/ at'[d] \notin {"held", "done"}
               \/ \E w \in Worker : Holds(w, d)' /\ pc'[w] \in {"dispatch", "open"}
        PROVE  Contents[d] \cap Taken(Owner[d])' = {}
    BY <2>1, <2>3, <2>4 DEF Advance, Untaken
  <2>5. ASSUME NEW d \in Dir, NEW w \in Worker, Holds(w, d)', pc'[w] \in {"check", "read"}
        PROVE  Contents[d] \cap Taken(Owner[d])' \subseteq listed'[w]
    BY <2>1, <2>3, <2>5 DEF Advance, Untaken
  <2> QED
    BY <2>2, <2>4, <2>5 DEF Untaken
<1>2. ASSUME NEW w \in Worker, NEW d \in Dir, ReadBatch(w, d) PROVE Untaken' /\ OwnTaken'
  <2>1. PICK files \in SUBSET (Contents[d] \cap File) :
           /\ ShouldCount(Owner[d], files)
           /\ files \cap Taken(Owner[d]) = {} /\ files \subseteq listed'[w]
           /\ Taken(Owner[d])' = Taken(Owner[d]) \cup files
           /\ \A t \in Target : t # Owner[d] => Taken(t)' = Taken(t)
           /\ \A v \in Worker, e \in Dir : Holds(v, e)' <=> Holds(v, e)
           /\ \A e \in Dir : at'[e] \notin {"held", "done"} => at[e] \notin {"held", "done"}
           /\ \A v \in Worker : v # w => listed'[v] = listed[v] /\ pc'[v] = pc[v]
    BY <1>2, BatchTakes
  <2>2. Holds(w, d) /\ pc[w] = "read" /\ pc'[w] = "check" /\ listed[w] \subseteq listed'[w]
    BY <1>2 DEF ReadBatch, Goto, TypeOK
  <2>3. ASSUME NEW e \in Dir
        PROVE  Contents[e] \cap Taken(Owner[e])' =
                 (Contents[e] \cap Taken(Owner[e])) \cup (IF e = d THEN files ELSE {})
    <3>1. Owner[e] \in Target /\ Owner[d] \in Target
      BY DEF ConstantsAssumption
    <3>2. CASE e = d
      BY <2>1, <3>2
    <3>3. CASE e # d
      <4>1. Contents[e] \cap files = {}
        BY <2>1, <3>3, OneParent
      <4> QED
        BY <2>1, <3>1, <3>3, <4>1
    <3> QED
      BY <3>2, <3>3
  <2>4. ASSUME NEW e \in Dir,
               \/ at'[e] \notin {"held", "done"}
               \/ \E v \in Worker : Holds(v, e)' /\ pc'[v] \in {"dispatch", "open"}
        PROVE  Contents[e] \cap Taken(Owner[e])' = {}
    <3>1. e # d
      BY <2>1, <2>2, <2>4 DEF Holds
    <3>2. \/ at[e] \notin {"held", "done"}
          \/ \E v \in Worker : Holds(v, e) /\ pc[v] \in {"dispatch", "open"}
      BY <2>1, <2>2, <2>4
    <3> QED
      BY <2>3, <3>1, <3>2 DEF Untaken
  <2>5. ASSUME NEW e \in Dir, NEW v \in Worker, Holds(v, e)', pc'[v] \in {"check", "read"}
        PROVE  Contents[e] \cap Taken(Owner[e])' \subseteq listed'[v]
    <3>1. CASE v = w
      <4>1. e = d
        BY <2>1, <2>2, <2>5, <3>1 DEF OneHeld
      <4> QED
        BY <2>1, <2>2, <2>3, <3>1, <4>1 DEF Untaken
    <3>2. CASE v # w
      <4>1. e # d /\ Holds(v, e) /\ pc[v] \in {"check", "read"} /\ listed'[v] = listed[v]
        BY <2>1, <2>2, <2>5, <3>2 DEF Holds
      <4> QED
        BY <2>3, <4>1 DEF Untaken
    <3> QED
      BY <3>1, <3>2
  <2>6. OwnTaken'
    <3>1. Owner[d] \in Target /\ files \subseteq FilesOf(Owner[d])
      BY DEF ConstantsAssumption, FilesOf
    <3>2. spared' \subseteq spared \cup files
      BY <2>1 DEF ShouldCount
    <3>3. \A t \in Target : FilesOf(t)' = FilesOf(t)
      BY DEF FilesOf
    <3>4. \A t \in Target : Taken(t) \subseteq Taken(t)'
      BY <2>1
    <3> QED
      BY <2>1, <3>1, <3>2, <3>3, <3>4 DEF OwnTaken
  <2> QED
    BY <2>4, <2>5, <2>6 DEF Untaken
<1> QED
  BY <1>1, <1>2

\* The table entry of a batch: its files are charged, or another link of theirs is.
LEMMA BatchTable ==
  ASSUME TypeOK, OwnTaken, NEW t \in Target, Table(t),
         NEW files \in SUBSET (FilesOf(t) \cap File), ShouldCount(t, files),
         files \cap Taken(t) = {}, Taken(t)' = Taken(t) \cup files, present' = present
  PROVE  Table(t)'
<1> DEFINE several == {f \in files : DedupHardlinks /\ Linked(f)}
           unseen  == {f \in several : Inode[f] \notin inodes[t]}
<1>1. PICK first \in SUBSET unseen :
        LET table == inodes[t] \cup {Inode[f] : f \in first} IN
        /\ \A f, g \in first : Inode[f] = Inode[g] => f = g
        /\ inodes' = [inodes EXCEPT ![t] = table]
        /\ exhausted' = [exhausted EXCEPT ![t] = @ \/ Missed(unseen, table) # {}]
        /\ spared' = spared \cup ({f \in several : Inode[f] \in table} \ first)
  BY DEF ShouldCount, Tracked
<1> DEFINE table == inodes[t] \cup {Inode[f] : f \in first}
           left  == {f \in several : Inode[f] \in table} \ first
<1>2. /\ inodes'[t] = table /\ spared' = spared \cup left
      /\ exhausted'[t] <=> exhausted[t] \/ Missed(unseen, table) # {}
      /\ \A f, g \in first : Inode[f] = Inode[g] => f = g
  BY <1>1 DEF TypeOK, LinksOK
<1>3. files \cap spared = {}
  <2>1. ASSUME NEW f \in files, f \in spared PROVE FALSE
    <3>1. PICK u \in Target : f \in Taken(u)
      BY <2>1 DEF OwnTaken
    <3>2. f \in FilesOf(u) /\ f \in FilesOf(t)
      BY <3>1 DEF OwnTaken
    <3>3. u = t
      BY <3>2, OneOwner
    <3> QED
      BY <2>1, <3>1, <3>3
  <2> QED
    BY <2>1
<1>4. /\ several \subseteq files /\ unseen \subseteq several /\ first \subseteq unseen
      /\ left \subseteq several /\ first \cap left = {}
      /\ \A f \in several : Inode[f] \in table => f \in first \/ f \in left
      /\ \A f \in several : f \in unseen \/ Inode[f] \in inodes[t]
      /\ \A f \in unseen : Inode[f] \notin inodes[t]
      /\ \A f \in left : Inode[f] \in table
      /\ \A f \in files : DedupHardlinks /\ Linked(f) => f \in several
      /\ \A i \in table : i \in inodes[t] \/ \E f \in first : i = Inode[f]
      /\ inodes[t] \subseteq table /\ \A f \in first : Inode[f] \in table
  OBVIOUS
<1>5. Charged(t)' = Charged(t) \cup (files \ left)
  BY <1>2, <1>3, <1>4 DEF Charged
<1>6. \A f \in File : Linked(f)' <=> Linked(f)
  BY DEF Linked
<1>7. Missed(unseen, table) = {} => \A f \in unseen : Inode[f] \in table
  BY DEF Missed
<1> HIDE DEF several, unseen, table, left
<1>8. ASSUME NEW i \in inodes'[t] PROVE \E g \in Charged(t)' : Inode[g] = i
  <2>1. CASE i \in inodes[t]
    BY <1>5, <2>1 DEF Table
  <2>2. ASSUME NEW f \in first, i = Inode[f] PROVE \E g \in Charged(t)' : Inode[g] = i
    BY <1>4, <1>5, <2>2
  <2> QED
    BY <1>2, <1>4, <1>8, <2>1, <2>2
<1>9. ASSUME NEW f \in Taken(t)' PROVE \E g \in Charged(t)' : Inode[g] = Inode[f]
  <2>1. CASE f \in Taken(t)
    BY <1>5, <2>1 DEF Table
  <2>2. CASE f \in files \ left
    BY <1>5, <2>2
  <2>3. CASE f \in left
    BY <1>2, <1>4, <1>8, <2>3
  <2> QED
    BY <2>1, <2>2, <2>3
<1>10. ASSUME DedupHardlinks, ~exhausted'[t]
       PROVE  /\ \A f \in Charged(t)' \cap present' : Linked(f)' => Inode[f] \in inodes'[t]
              /\ NoneTwice(Charged(t))'
  <2>1. /\ \A f \in unseen : Inode[f] \in table
        /\ \A f \in Charged(t) \cap present : Linked(f) => Inode[f] \in inodes[t]
        /\ NoneTwice(Charged(t))
    BY <1>2, <1>7, <1>10 DEF Table
  <2>2. Charged(t)' \subseteq File /\ files \subseteq File
    BY <1>5 DEF Charged, Taken
  <2>3. ASSUME NEW f \in Charged(t)' \cap present', Linked(f)' PROVE Inode[f] \in inodes'[t]
    BY <1>2, <1>4, <1>5, <1>6, <1>10, <2>1, <2>2, <2>3
  <2>4. ASSUME NEW f \in Charged(t)' \cap present', NEW g \in Charged(t)' \cap present',
               Inode[f] = Inode[g], f # g
        PROVE  FALSE
    <3>1. Linked(f) /\ Linked(g) /\ f \in present /\ g \in present
      BY <2>2, <2>4 DEF Linked
    <3>2. f \in files \ left => f \in first
      BY <1>4, <1>10, <2>1, <3>1
    <3>3. g \in files \ left => g \in first
      BY <1>4, <1>10, <2>1, <3>1
    <3>4. CASE f \in Charged(t) /\ g \in Charged(t)
      BY <2>1, <2>4, <3>1, <3>4 DEF NoneTwice
    <3>5. CASE f \in Charged(t) /\ g \in files \ left
      BY <1>4, <2>1, <2>4, <3>1, <3>3, <3>5
    <3>6. CASE g \in Charged(t) /\ f \in files \ left
      BY <1>4, <2>1, <2>4, <3>1, <3>2, <3>6
    <3>7. CASE f \in files \ left /\ g \in files \ left
      BY <1>2, <2>4, <3>2, <3>3, <3>7
    <3> QED
      BY <1>5, <2>4, <3>4, <3>5, <3>6, <3>7
  <2> QED
    BY <2>3, <2>4 DEF NoneTwice
<1> QED
  BY <1>8, <1>9, <1>10 DEF Table

LEMMA TableStep ==
  ASSUME TypeOK, OneHeld, Handoff, Fresh, NotStarted, IdleEmpty, Untaken, OwnTaken,
         NEW t \in Target, Table(t), [Next]_vars
  PROVE  Table(t)'
<1>1. CASE \A w \in Worker, d \in Dir : ~ReadBatch(w, d)
  <2>1. /\ Taken(t)' = Taken(t) /\ UNCHANGED <<inodes, exhausted, spared>>
        /\ present' \subseteq present
    BY <1>1, AdvanceStep DEF Advance
  <2>2. Charged(t)' = Charged(t)
    BY <2>1 DEF Charged
  <2>3. \A f \in File : Linked(f)' => Linked(f)
    BY <2>1 DEF Linked
  <2>4. Charged(t) \subseteq File
    BY DEF Charged, Taken
  <2>5. NoneTwice(Charged(t)) => NoneTwice(Charged(t))'
    BY <2>1, <2>2 DEF NoneTwice
  <2> QED
    BY <2>1, <2>2, <2>3, <2>4, <2>5 DEF Table
<1>2. ASSUME NEW w \in Worker, NEW d \in Dir, ReadBatch(w, d) PROVE Table(t)'
  <2>1. PICK files \in SUBSET (Contents[d] \cap File) :
           /\ ShouldCount(Owner[d], files)
           /\ files \cap Taken(Owner[d]) = {}
           /\ Taken(Owner[d])' = Taken(Owner[d]) \cup files
           /\ \A u \in Target : u # Owner[d] => Taken(u)' = Taken(u)
    BY <1>2, BatchTakes
  <2>2. /\ Owner[d] \in Target /\ present' = present
        /\ files \in SUBSET (FilesOf(Owner[d]) \cap File)
    BY <1>2, ConstantsAssumption DEF ReadBatch, ConstantsAssumption, FilesOf
  <2>3. CASE t = Owner[d]
    BY <2>1, <2>2, <2>3, BatchTable
  <2>4. CASE t # Owner[d]
    <3>1. /\ spared \subseteq spared' /\ spared' \subseteq spared \cup files
          /\ inodes'[t] = inodes[t] /\ exhausted'[t] = exhausted[t]
      BY <2>1, <2>4 DEF ShouldCount, TypeOK, LinksOK
    <3>2. files \cap Taken(t) = {}
      BY <2>2, <2>4, OneOwner DEF OwnTaken
    <3>3. Charged(t)' = Charged(t)
      BY <2>1, <2>4, <3>1, <3>2 DEF Charged
    <3>4. Taken(t)' = Taken(t) /\ \A f \in File : Linked(f)' <=> Linked(f)
      BY <2>1, <2>2, <2>4 DEF Linked
    <3>5. Charged(t) \subseteq File /\ (NoneTwice(Charged(t)) => NoneTwice(Charged(t))')
      BY <2>2, <3>3 DEF Charged, Taken, NoneTwice
    <3> QED
      BY <2>2, <3>1, <3>3, <3>4, <3>5 DEF Table
  <2> QED
    BY <2>3, <2>4
<1> QED
  BY <1>1, <1>2

\* A walk found complete had room for every inode it met.
Roomy == \A t \in Target : outcome[t] = "complete" => ~exhausted[t]

LEMMA RoomyStep ==
  ASSUME IInv, IdleEmpty, Roomy, [Next]_vars
  PROVE  Roomy'
<1> SUFFICES ASSUME NEW t \in Target, outcome'[t] = "complete" PROVE ~exhausted'[t]
  BY DEF Roomy
<1>1. TypeOK /\ LatchMeansDone /\ Supervised /\ Whereabouts
  BY DEF IInv
<1>2. ~exhausted[t]
  <2>1. CASE outcome[t] = "complete"
    BY <2>1 DEF Roomy
  <2>2. CASE outcome[t] # "complete"
    <3> QED
      BY <1>1, <2>2, SupervisorSteps DEF Flawed
  <2> QED
    BY <2>1, <2>2
<1>3. CASE \A w \in Worker, d \in Dir : ~ReadBatch(w, d)
  BY <1>1, <1>2, <1>3, AdvanceStep DEF Advance, Whereabouts
<1>4. ASSUME NEW w \in Worker, NEW d \in Dir, ReadBatch(w, d), exhausted'[t] # exhausted[t]
      PROVE  FALSE
  <2>1. /\ Owner[d] = t /\ at[d] = "held" /\ outcome'[t] = outcome[t]
    BY <1>1, <1>4 DEF ReadBatch, ShouldCount, Holds, TypeOK, LinksOK
  <2>2. Outstanding(t) = {}
    BY <1>1, <2>1 DEF Supervised, LatchMeansDone
  <2> QED
    BY <2>1, <2>2 DEF Outstanding
<1> QED
  BY <1>2, <1>3, <1>4

-------------------------------------------------------------------------------
LinkedInv == WholeInv /\ LinkInv /\ Roomy

LEMMA LinkedInit == Init => LinkedInv
<1> SUFFICES ASSUME Init PROVE LinkedInv
  OBVIOUS
<1>1. \A t \in Target : Taken(t) = {}
  BY DEF Init, Taken, Holds
<1>2. Untaken
  BY <1>1, ConstantsAssumption DEF Untaken, Init, ConstantsAssumption
<1>3. spared = {} /\ \A t \in Target : inodes[t] = {} /\ exhausted[t] = FALSE
  BY DEF Init
<1>4. OwnTaken /\ \A t \in Target : Table(t)
  BY <1>1, <1>3 DEF OwnTaken, Table, Charged, NoneTwice
<1>5. Roomy
  BY <1>3 DEF Roomy
<1> QED
  BY <1>2, <1>4, <1>5, WholeInit DEF LinkedInv, LinkInv

LEMMA LinkedNext == LinkedInv /\ [Next]_vars => LinkedInv'
<1> SUFFICES ASSUME LinkedInv, [Next]_vars PROVE LinkedInv'
  OBVIOUS
<1>1. /\ WholeInv /\ IInv /\ IdleEmpty /\ TypeOK /\ Roomy /\ Untaken /\ OwnTaken
      /\ OneHeld /\ Handoff /\ Fresh /\ NotStarted /\ \A t \in Target : Table(t)
  BY DEF LinkedInv, LinkInv, WholeInv, IInv, Whereabouts
<1>2. WholeInv' /\ Roomy'
  BY <1>1, WholeNext, RoomyStep
<1>3. Untaken' /\ OwnTaken'
  BY <1>1, UntakenStep
<1>4. \A t \in Target : Table(t)'
  BY <1>1, TableStep
<1> QED
  BY <1>2, <1>3, <1>4 DEF LinkedInv, LinkInv

\* For any trees, links, cap and workers: as long as a target is not marked as
\* having run out of room for inodes, no hard-linked file is in it twice.
THEOREM LinksCountOnce == Spec => []TwiceIsFlagged
<1>1. LinkedInv => TwiceIsFlagged
  BY DEF LinkedInv, LinkInv, Table, TwiceIsFlagged
<1> QED
  BY <1>1, LinkedInit, LinkedNext, PTL DEF Spec

\* When the walk of t is complete nobody has anything of it in hand.
LEMMA CompleteIsTaken ==
  ASSUME IInv, NEW t \in Target, outcome[t] = "complete"
  PROVE  Taken(t) = counted[t]
<1>1. Outstanding(t) = {} /\ counted[t] \subseteq File
  BY DEF IInv, Supervised, LatchMeansDone, TypeOK
<1> QED
  BY <1>1 DEF Outstanding, Taken, Holds

\* A size reported complete has every existing file of its target once, by one of
\* its links, for any trees, links, workers and cap on tracked inodes.
THEOREM CompleteSizesAreExact == Spec => []CompleteIsExact
<1>1. ASSUME LinkedInv, NEW t \in Target, outcome[t] = "complete"
      PROVE  /\ \A f \in FilesOf(t) \cap present : \E g \in counted[t] \ spared : Inode[g] = Inode[f]
             /\ DedupHardlinks => NoneTwice(counted[t] \ spared)
  <2>1. IInv /\ FinalIsWhole /\ Roomy /\ Table(t)
    BY <1>1 DEF LinkedInv, LinkInv, WholeInv
  <2>2. Taken(t) = counted[t] /\ Charged(t) = counted[t] \ spared
    BY <1>1, <2>1, CompleteIsTaken DEF Charged
  <2>3. ~exhausted[t] /\ FilesOf(t) \cap present \subseteq counted[t]
    BY <1>1, <2>1 DEF Roomy, FinalIsWhole, Final
  <2> QED
    BY <2>1, <2>2, <2>3 DEF Table
<1>2. LinkedInv => CompleteIsExact
  BY <1>1 DEF CompleteIsExact
<1> QED
  BY <1>2, LinkedInit, LinkedNext, PTL DEF Spec

-------------------------------------------------------------------------------
(* Nobody waits for work that is not there.                                *)

\* What a worker holds, reserved or keeps on its own stack is with that worker,
\* and until the end of the cycle no worker leaves, none parks on a stack of its
\* own, and nothing is dropped.
AtWork ==
    /\ \A d \in Dir : at[d] \in {"held", "reserved", "local"} => by[d] \in Worker
    /\ main = "loop" /\ ~cancelled =>
         /\ \A w \in Worker : pc[w] # "exited"
         /\ \A d \in Dir : at[d] # "dropped" /\ (at[d] = "local" => pc[by[d]] # "wait")

\* A walk of which nothing is left has its latch closed.
Owed ==
    \A t \in Target : phase[t] \in {"await", "draining"} /\ Outstanding(t) = {} => latch[t]

LEMMA AtWorkStep ==
  TypeOK /\ OneHeld /\ Handoff /\ AtWork /\ [Next]_vars => AtWork'
<1> SUFFICES ASSUME TypeOK, OneHeld, Handoff, AtWork, [Next]_vars PROVE AtWork'
  OBVIOUS
<1> USE ConstantsAssumption DEF AtWork, OneHeld, Holds, Goto, Move, TypeOK, closed
<1>1. ASSUME NEW w \in Worker, Computation(w) PROVE AtWork'
  <2>1. CASE LeaveClosed(w) \/ LeaveParked(w)
    BY <2>1 DEF LeaveClosed, LeaveParked, WokenByClose
  <2>2. CASE GoShared(w)
    BY <2>2 DEF GoShared, Having
  <2>3. CASE After(w)
    BY <2>3 DEF After
  <2>4. ASSUME NEW d \in Dir, PopLocal(w, d) PROVE AtWork'
    BY <2>4 DEF PopLocal
  <2>5. ASSUME NEW d \in Dir, PopShared(w, d) PROVE AtWork'
    BY <2>5 DEF PopShared
  <2>6. ASSUME NEW d \in Dir, Discard(w, d) PROVE AtWork'
    BY <2>6 DEF Discard, CompleteDir
  <2>7. ASSUME NEW d \in Dir, Dispatch(w, d) \/ CheckStop(w, d) PROVE AtWork'
    BY <2>7 DEF Dispatch, CheckStop
  <2>8. ASSUME NEW d \in Dir, Flush(w, d) PROVE AtWork'
    BY <2>8 DEF Flush
  <2>9. ASSUME NEW d \in Dir, Reserve(w, d) PROVE AtWork'
    BY <2>9 DEF Reserve, Having
  <2>10. ASSUME NEW d \in Dir, Push(w, d) PROVE AtWork'
    BY <2>10 DEF Push, Having
  <2>11. ASSUME NEW d \in Dir, Complete(w, d) PROVE AtWork'
    BY <2>11 DEF Complete, CompleteDir
  <2> QED
    BY <1>1, <2>1, <2>2, <2>3, <2>4, <2>5, <2>6, <2>7, <2>8, <2>9, <2>10, <2>11 DEF Computation
<1>2. ASSUME NEW w \in Worker, NEW d \in Dir, Syscall(w, d) PROVE AtWork'
  <2>1. CASE OpenOK(w, d) \/ OpenVanished(w, d) \/ OpenFails(w, d)
    BY <2>1 DEF OpenOK, OpenVanished, OpenFails
  <2>2. CASE ReadBatch(w, d)
    <3>1. PICK found \in SUBSET Dir : Move(found, "found", w)
      <4> HIDE DEF Move
      <4> QED
        BY <2>2 DEF ReadBatch
    <3> QED
      BY <2>2, <3>1 DEF ReadBatch
  <2>3. CASE EndOfDir(w, d) \/ ReadFails(w, d) \/ LimiterStops(w, d)
    BY <2>3 DEF EndOfDir, ReadFails, LimiterStops
  <2> QED
    BY <1>2, <2>1, <2>2, <2>3 DEF Syscall
<1>3. ASSUME NEW t \in Target, StartTarget(t) \/ Probe(t) \/ Supervise(t) PROVE AtWork'
  <2>1. CASE ProbeOK(t)
    BY <2>1 DEF ProbeOK
  <2> QED
    BY <1>3, <2>1 DEF StartTarget, Probe, ProbeRefused, Supervise, WalkDone, DeadlineSeen,
       GiveUp, Decide, Report
<1>4. CASE ClosePool
  BY <1>4 DEF ClosePool
<1>5. CASE DrainDone \/ DrainTimer
  BY <1>5 DEF DrainDone, DrainTimer
<1>6. CASE Environment \/ Finished \/ UNCHANGED vars
  BY <1>6 DEF Environment, Expire, Shutdown, Vanish, Finished, vars
<1> QED
  BY <1>1, <1>2, <1>3, <1>4, <1>5, <1>6 DEF Next

\* A latch that was closed is never opened again, and a target begins to be
\* waited for when its root is queued.
LEMMA WaitBegins ==
  ASSUME TypeOK, [Next]_vars, NEW t \in Target
  PROVE  /\ latch[t] => latch'[t]
         /\ phase'[t] \in {"await", "draining"} =>
               phase[t] \in {"await", "draining"} \/ ProbeOK(t)
<1> USE DEF TypeOK
<1>1. ASSUME NEW w \in Worker, Computation(w) \/ \E d \in Dir : Syscall(w, d)
      PROVE  UNCHANGED phase /\ (latch[t] => latch'[t])
  <2>1. UNCHANGED phase
    BY <1>1, WorkerFrame
  <2>2. latch[t] => latch'[t]
    BY <1>1 DEF Computation, LeaveClosed, GoShared, LeaveParked, After, PopLocal, PopShared,
       Discard, Dispatch, CheckStop, Flush, Reserve, Push, Complete, CompleteDir,
       Syscall, OpenOK, OpenVanished, OpenFails, ReadBatch, EndOfDir, ReadFails, LimiterStops
  <2> QED
    BY <2>1, <2>2
<1>2. ASSUME NEW u \in Target, StartTarget(u) \/ Probe(u) \/ Supervise(u)
      PROVE  /\ latch[t] => latch'[t]
             /\ phase'[t] \in {"await", "draining"} =>
                   phase[t] \in {"await", "draining"} \/ ProbeOK(t)
  <2>1. CASE Decide(u)
    <3>1. latch' = latch /\ \E p \in {"judge", "tally", "report"} : phase' = [phase EXCEPT ![u] = p]
      BY <2>1 DEF Decide, AskRoot, AskScan, AskTotals, Conclude, GoOn
    <3> QED
      BY <3>1
  <2> QED
    BY <1>2, <2>1 DEF StartTarget, Probe, ProbeOK, ProbeRefused, Supervise, WalkDone,
       DeadlineSeen, GiveUp, Abandon, Report
<1>3. CASE ClosePool \/ DrainDone \/ DrainTimer \/ Environment \/ Finished \/ UNCHANGED vars
  BY <1>3 DEF ClosePool, DrainDone, DrainTimer, Environment, Expire, Shutdown, Vanish,
     Finished, vars
<1> QED
  BY <1>1, <1>2, <1>3 DEF Next

\* The step that completes the last directory of a target closes its latch.
LEMMA OwedStep ==
  ASSUME IInv, Owed, [Next]_vars
  PROVE  Owed'
<1> SUFFICES ASSUME NEW t \in Target, phase'[t] \in {"await", "draining"},
                    Outstanding(t)' = {}
             PROVE  latch'[t]
  BY DEF Owed
<1>1. TypeOK /\ Whereabouts /\ NotStarted /\ pending[t] = Cardinality(Outstanding(t))
  BY DEF IInv, Whereabouts, LatchHonest
<1>2. /\ latch[t] => latch'[t]
      /\ phase[t] \in {"await", "draining"} \/ ProbeOK(t)
      /\ Unmoved(t) \/ Completed(t) \/ Enlarged(t)
  BY <1>1, WaitBegins, AccountStep DEF Accounted
<1>3. ~ProbeOK(t)
  <2>1. SUFFICES ASSUME ProbeOK(t) PROVE Root[t] \in Outstanding(t)'
    OBVIOUS
  <2>2. Root[t] \in Dir /\ Owner[Root[t]] = t
    BY ConstantsAssumption DEF ConstantsAssumption
  <2> QED
    BY <2>1, <2>2 DEF ProbeOK, Move, Outstanding
<1>4. CASE Outstanding(t) = {}
  BY <1>2, <1>3, <1>4 DEF Owed
<1>5. CASE Outstanding(t) # {}
  <2>1. Completed(t)
    BY <1>2, <1>5 DEF Unmoved, Enlarged
  <2>2. PICK d \in Outstanding(t) : Outstanding(t)' = Outstanding(t) \ {d}
    BY <2>1 DEF Completed
  <2>3. Outstanding(t) = {d}
    BY <2>2
  <2>4. pending[t] = 1
    BY <1>1, <2>3, FS_Singleton
  <2> QED
    BY <2>1, <2>4 DEF Completed
<1> QED
  BY <1>4, <1>5

\* A supervisor that waits has outstanding work, and such work is within reach.
LEMMA WorkIsInReach ==
  ASSUME TypeOK, OneHeld, Handoff, Reportable, AtWork, Owed
  PROVE  WaitsForWork
<1> SUFFICES ASSUME NEW t \in Target, phase[t] \in {"await", "draining"}, ~latch[t], ~cancelled
             PROVE  /\ \E d \in Dir : Owner[d] = t /\ InReach(d)
                    /\ \A w \in Worker : pc[w] # "exited"
  BY DEF WaitsForWork
<1>1. main = "loop"
  BY DEF Reportable
<1>2. PICK d \in Dir : Owner[d] = t /\ at[d] \in {"reserved", "local", "deque", "held", "dropped"}
  BY DEF Owed, Outstanding
<1>3. InReach(d)
  <2>1. at[d] # "dropped" /\ \A w \in Worker : pc[w] # "exited"
    BY <1>1 DEF AtWork
  <2>2. CASE at[d] = "held"
    BY <2>2 DEF AtWork, OneHeld, Holds, InReach
  <2>3. CASE at[d] = "reserved"
    BY <2>3 DEF AtWork, Handoff, InReach
  <2>4. CASE at[d] = "local"
    BY <1>1, <2>1, <2>4 DEF AtWork, InReach
  <2> QED
    BY <1>2, <2>1, <2>2, <2>3, <2>4 DEF InReach
<1> QED
  BY <1>1, <1>2, <1>3 DEF AtWork

WorkInv == PromiseInv /\ AtWork /\ Owed

\* For any trees, workers, targets and limits: until shutdown no supervisor waits
\* for a latch that nobody is left to close.
THEOREM SupervisorsWaitForWork == Spec => []WaitsForWork
<1>1. Init => WorkInv
  BY PromiseInvInit DEF WorkInv, AtWork, Owed, Init
<1>2. WorkInv /\ [Next]_vars => WorkInv'
  BY PromiseInvStep, AtWorkStep, OwedStep DEF WorkInv, PromiseInv, WholeInv, IInv, Whereabouts
<1>3. WorkInv => WaitsForWork
  BY WorkIsInReach DEF WorkInv, PromiseInv, WholeInv, IInv, Whereabouts
<1> QED
  BY <1>1, <1>2, <1>3, PTL DEF Spec

-------------------------------------------------------------------------------
(* The shared queue and its limit.                                         *)

\* What a worker donates is no more than the queue has room for.
LEMMA DonationFits ==
  ASSUME NEW n \in Nat, NEW share \in SUBSET Dir, Cardinality(share) = Donation(n)
  PROVE  \/ share = {}
         \/ Cardinality(Deque \cup share) <= QueueLimit
<1>1. /\ IsFiniteSet(Deque) /\ Cardinality(Deque) \in Nat
      /\ IsFiniteSet(share) /\ Cardinality(share) \in Nat
      /\ QueueLimit \in Nat
  BY DirsFinite, ConstantsAssumption DEF Deque, ConstantsAssumption
<1>2. Cardinality(share) = 0 \/ Cardinality(share) <= QueueLimit - Cardinality(Deque)
  BY <1>1 DEF Donation
<1>3. CASE Cardinality(share) = 0
  BY <1>1, <1>3, FS_EmptySet
<1>4. CASE Cardinality(share) <= QueueLimit - Cardinality(Deque)
  <2>1. /\ Cardinality(Deque \cup share) =
              Cardinality(Deque) + Cardinality(share) - Cardinality(Deque \cap share)
        /\ Cardinality(Deque \cap share) \in Nat
    BY <1>1, FS_Union, DirsFinite DEF Deque
  <2> QED
    BY <1>1, <1>4, <2>1
<1> QED
  BY <1>2, <1>3, <1>4

\* A set of directories within another is no larger.
LEMMA Fewer ==
  ASSUME NEW S \in SUBSET Dir, NEW T \in SUBSET S
  PROVE  Cardinality(T) \in Nat /\ Cardinality(S) \in Nat /\ Cardinality(T) <= Cardinality(S)
BY DirsFinite, FS_Subset

\* Every step but a Push adds nothing but roots to the shared queue.
LEMMA QueueStep ==
  ASSUME TypeOK, [Next]_vars, \A w \in Worker, d \in Dir : ~Push(w, d)
  PROVE  (Deque \ Roots)' \subseteq Deque \ Roots
<1> USE ConstantsAssumption DEF Deque, Roots, Move, TypeOK
<1>1. ASSUME NEW w \in Worker, Computation(w) PROVE (Deque \ Roots)' \subseteq Deque \ Roots
  <2>1. CASE LeaveClosed(w) \/ GoShared(w) \/ LeaveParked(w) \/ After(w)
    BY <2>1 DEF LeaveClosed, GoShared, LeaveParked, After
  <2>2. ASSUME NEW d \in Dir, PopLocal(w, d) \/ PopShared(w, d)
        PROVE  (Deque \ Roots)' \subseteq Deque \ Roots
    BY <2>2 DEF PopLocal, PopShared
  <2>3. ASSUME NEW d \in Dir, Discard(w, d) \/ Complete(w, d)
        PROVE  (Deque \ Roots)' \subseteq Deque \ Roots
    BY <2>3 DEF Discard, Complete, CompleteDir
  <2>4. ASSUME NEW d \in Dir, Dispatch(w, d) \/ CheckStop(w, d) \/ Flush(w, d) \/ Reserve(w, d)
        PROVE  (Deque \ Roots)' \subseteq Deque \ Roots
    BY <2>4 DEF Dispatch, CheckStop, Flush, Reserve
  <2> QED
    BY <1>1, <2>1, <2>2, <2>3, <2>4 DEF Computation
<1>2. ASSUME NEW w \in Worker, NEW d \in Dir, Syscall(w, d)
      PROVE  (Deque \ Roots)' \subseteq Deque \ Roots
  <2>1. CASE ReadBatch(w, d)
    <3>1. PICK found \in SUBSET Dir : Move(found, "found", w)
      <4> HIDE DEF Move
      <4> QED
        BY <2>1 DEF ReadBatch
    <3> QED
      BY <3>1
  <2> QED
    BY <1>2, <2>1 DEF Syscall, OpenOK, OpenVanished, OpenFails, EndOfDir, ReadFails, LimiterStops
<1>3. ASSUME NEW t \in Target, StartTarget(t) \/ Probe(t) \/ Supervise(t)
      PROVE  (Deque \ Roots)' \subseteq Deque \ Roots
  BY <1>3 DEF StartTarget, Probe, ProbeOK, ProbeRefused, Supervise, WalkDone, DeadlineSeen,
     GiveUp, Decide, Report
<1>4. CASE ClosePool \/ DrainDone \/ DrainTimer \/ Environment \/ Finished \/ UNCHANGED vars
  BY <1>4 DEF ClosePool, DrainDone, DrainTimer, Environment, Expire, Shutdown, Vanish,
     Finished, vars
<1> QED
  BY <1>1, <1>2, <1>3, <1>4 DEF Next

LEMMA QueueBoundStep == TypeOK /\ QueueIsBounded /\ [Next]_vars => QueueIsBounded'
<1> SUFFICES ASSUME TypeOK, QueueIsBounded, [Next]_vars PROVE QueueIsBounded'
  OBVIOUS
<1>0. /\ QueueLimit \in Nat /\ Deque \in SUBSET Dir /\ Deque' \in SUBSET Dir
      /\ Roots' = Roots
  BY ConstantsAssumption DEF ConstantsAssumption, Deque, Roots
<1>1. CASE \A w \in Worker, d \in Dir : ~Push(w, d)
  <2>1. (Deque \ Roots)' \subseteq Deque \ Roots
    BY <1>1, QueueStep
  <2>2. /\ Cardinality(Deque' \ Roots) \in Nat /\ Cardinality(Deque \ Roots) \in Nat
        /\ Cardinality(Deque' \ Roots) <= Cardinality(Deque \ Roots)
    BY <1>0, <2>1, Fewer
  <2> QED
    BY <1>0, <2>2 DEF QueueIsBounded
<1>2. ASSUME NEW w \in Worker, NEW d \in Dir, Push(w, d) PROVE QueueIsBounded'
  <2> DEFINE stack == Having(w, "local") \cup Having(w, "reserved")
  <2>1. PICK share \in SUBSET stack :
          /\ Cardinality(share) = Donation(Cardinality(stack))
          /\ at' = [c \in Dir |-> IF c \in share THEN "deque"
                                  ELSE IF c \in stack THEN "local" ELSE at[c]]
    BY <1>2 DEF Push
  <2>2. stack \in SUBSET Dir /\ Cardinality(stack) \in Nat
    BY DirsFinite DEF Having
  <2>3. Deque' = Deque \cup share
    BY <2>1, <2>2 DEF Deque, Having
  <2>4. share = {} \/ Cardinality(Deque') <= QueueLimit
    BY <2>1, <2>2, <2>3, DonationFits
  <2>5. CASE share = {}
    BY <1>0, <2>3, <2>5 DEF QueueIsBounded
  <2>6. CASE Cardinality(Deque') <= QueueLimit
    <3>1. /\ Cardinality(Deque' \ Roots) \in Nat /\ Cardinality(Deque') \in Nat
          /\ Cardinality(Deque' \ Roots) <= Cardinality(Deque')
      BY <1>0, Fewer
    <3> QED
      BY <1>0, <2>6, <3>1 DEF QueueIsBounded
  <2> QED
    BY <2>4, <2>5, <2>6
<1> QED
  BY <1>1, <1>2

\* However many workers find however many directories, what they donate never
\* fills the shared queue beyond its limit.
THEOREM QueueStaysBounded == Spec => []QueueIsBounded
<1>1. Init => QueueIsBounded
  <2> SUFFICES ASSUME Init PROVE QueueIsBounded
    OBVIOUS
  <2>1. Deque \ Roots = {}
    BY DEF Init, Deque
  <2>2. Cardinality(Deque \ Roots) = 0
    BY <2>1, FS_EmptySet
  <2>3. QueueLimit \in Nat
    BY ConstantsAssumption DEF ConstantsAssumption
  <2> QED
    BY <2>2, <2>3 DEF QueueIsBounded
<1> QED
  BY <1>1, TypeInit, TypeStep, QueueBoundStep, PTL DEF Spec

-------------------------------------------------------------------------------
(* No file is added twice.                                                 *)

\* What a worker has yet to flush is not in the totals of the target.
Uncounted ==
    \A w \in Worker, d \in Dir : Holds(w, d) => sums[w] \cap counted[Owner[d]] = {}

\* What two workers have yet to flush is of two directories.
LEMMA SumsDisjoint ==
  ASSUME OwnTotals, NEW v \in Worker, NEW w \in Worker, v # w, NEW d \in Dir, NEW e \in Dir,
         Holds(w, d), Holds(v, e)
  PROVE  sums[v] \cap sums[w] = {}
<1>1. d # e
  BY DEF Holds
<1> QED
  BY <1>1, OneParent DEF OwnTotals

\* But for reading and flushing, a step leaves the sums and the totals alone, and
\* who picks up a directory has empty sums.
LEMMA SumsKept ==
  ASSUME TypeOK, IdleEmpty, [Next]_vars,
         \A w \in Worker, d \in Dir : ~ReadBatch(w, d) /\ ~Flush(w, d)
  PROVE  /\ UNCHANGED <<sums, counted>>
         /\ \A w \in Worker, d \in Dir : Holds(w, d)' => Holds(w, d) \/ sums[w] = {}
<1> DEFINE Goal == /\ UNCHANGED <<sums, counted>>
                   /\ \A w \in Worker, d \in Dir : Holds(w, d)' => Holds(w, d) \/ sums[w] = {}
<1> USE ConstantsAssumption DEF Holds, Move, TypeOK
<1>1. ASSUME NEW w \in Worker, Computation(w) PROVE Goal
  <2>1. CASE LeaveClosed(w) \/ GoShared(w) \/ LeaveParked(w) \/ After(w)
    BY <2>1 DEF LeaveClosed, GoShared, LeaveParked, After
  <2>2. ASSUME NEW d \in Dir, PopLocal(w, d) \/ PopShared(w, d) PROVE Goal
    <3>1. sums[w] = {} /\ UNCHANGED <<sums, counted>>
      BY <2>2 DEF PopLocal, PopShared, IdleEmpty
    <3>2. \A v \in Worker, e \in Dir : Holds(v, e)' => Holds(v, e) \/ v = w
      BY <2>2 DEF PopLocal, PopShared
    <3> QED
      BY <3>1, <3>2
  <2>3. ASSUME NEW d \in Dir, Discard(w, d) \/ Complete(w, d) PROVE Goal
    BY <2>3 DEF Discard, Complete, CompleteDir
  <2>4. ASSUME NEW d \in Dir, Dispatch(w, d) \/ CheckStop(w, d) PROVE Goal
    BY <2>4 DEF Dispatch, CheckStop
  <2>5. ASSUME NEW d \in Dir, Reserve(w, d) \/ Push(w, d) PROVE Goal
    <3>1. UNCHANGED <<sums, counted>>
      BY <2>5 DEF Reserve, Push
    <3>2. CASE Reserve(w, d)
      BY <3>1, <3>2 DEF Reserve, Having
    <3>3. CASE Push(w, d)
      BY <3>1, <3>3 DEF Push, Having
    <3> QED
      BY <2>5, <3>2, <3>3
  <2> QED
    BY <1>1, <2>1, <2>2, <2>3, <2>4, <2>5 DEF Computation
<1>2. ASSUME NEW w \in Worker, NEW d \in Dir, Syscall(w, d) PROVE Goal
  BY <1>2 DEF Syscall, OpenOK, OpenVanished, OpenFails, EndOfDir, ReadFails, LimiterStops
<1>3. ASSUME NEW t \in Target, StartTarget(t) \/ Probe(t) \/ Supervise(t) PROVE Goal
  BY <1>3 DEF StartTarget, Probe, ProbeOK, ProbeRefused, Supervise, WalkDone, DeadlineSeen,
     GiveUp, Decide, Report
<1>4. CASE ClosePool \/ DrainDone \/ DrainTimer \/ Environment \/ Finished \/ UNCHANGED vars
  BY <1>4 DEF ClosePool, DrainDone, DrainTimer, Environment, Expire, Shutdown, Vanish,
     Finished, vars
<1> QED
  BY <1>1, <1>2, <1>3, <1>4 DEF Next

LEMMA UncountedStep ==
  ASSUME TypeOK, OneHeld, Fresh, IdleEmpty, OwnTotals, Untaken, OwnTaken, Uncounted, [Next]_vars
  PROVE  Uncounted'
<1> USE ConstantsAssumption
<1>1. CASE \A w \in Worker, d \in Dir : ~ReadBatch(w, d) /\ ~Flush(w, d)
  <2>1. /\ UNCHANGED <<sums, counted>>
        /\ \A w \in Worker, d \in Dir : Holds(w, d)' => Holds(w, d) \/ sums[w] = {}
    BY <1>1, SumsKept
  <2> QED
    BY <2>1 DEF Uncounted
<1>2. ASSUME NEW w \in Worker, NEW d \in Dir, ReadBatch(w, d) PROVE Uncounted'
  <2>1. PICK batch \in SUBSET (Contents[d] \ listed[w]) :
          \E bad \in SUBSET (batch \cap present \cap Flaky) :
            sums' = [sums EXCEPT ![w] = @ \cup Countable((batch \cap present) \ bad)]
    BY <1>2 DEF ReadBatch
  <2>2. PICK files \in SUBSET ((Contents[d] \ listed[w]) \cap File) :
          sums' = [sums EXCEPT ![w] = @ \cup files]
    BY <2>1 DEF Countable
  <2>3. /\ Holds(w, d) /\ pc[w] = "read" /\ UNCHANGED counted
        /\ \A v \in Worker, e \in Dir : Holds(v, e)' <=> Holds(v, e)
    BY <1>2, BatchTakes DEF ReadBatch
  <2>4. files \cap counted[Owner[d]] = {}
    BY <2>3 DEF Untaken, Taken
  <2>5. \A e \in Dir : Holds(w, e) => e = d
    BY <2>3 DEF OneHeld
  <2>6. \A v \in Worker : sums'[v] = IF v = w THEN sums[w] \cup files ELSE sums[v]
    BY <2>2 DEF TypeOK
  <2> QED
    BY <2>3, <2>4, <2>5, <2>6 DEF Uncounted
<1>3. ASSUME NEW w \in Worker, NEW d \in Dir, Flush(w, d) PROVE Uncounted'
  <2>1. /\ Holds(w, d) /\ Owner[d] \in Target
        /\ \A v \in Worker, e \in Dir : Holds(v, e)' <=> Holds(v, e)
    BY <1>3 DEF Flush, Holds, ConstantsAssumption
  <2>2. /\ \A v \in Worker : sums'[v] = IF v = w THEN {} ELSE sums[v]
        /\ \A t \in Target : counted'[t] = IF t = Owner[d] THEN counted[t] \cup sums[w]
                                           ELSE counted[t]
    <3>1. /\ sums' = [sums EXCEPT ![w] = {}]
          /\ counted' = [counted EXCEPT ![Owner[d]] = @ \cup sums[w]]
      BY <1>3 DEF Flush
    <3>2. DOMAIN sums = Worker /\ DOMAIN counted = Target
      BY DEF TypeOK
    <3>3. \A v \in Worker : sums'[v] = IF v = w THEN {} ELSE sums[v]
      BY <3>1, <3>2
    <3>4. \A t \in Target : counted'[t] = IF t = Owner[d] THEN counted[t] \cup sums[w]
                                          ELSE counted[t]
      BY <3>1, <3>2
    <3> QED
      BY <3>3, <3>4
  <2> SUFFICES ASSUME NEW v \in Worker, NEW e \in Dir, Holds(v, e)'
               PROVE  sums'[v] \cap counted'[Owner[e]] = {}
    BY DEF Uncounted
  <2>3. CASE v = w
    BY <2>2, <2>3
  <2>4. CASE v # w
    <3>1. sums[v] \cap sums[w] = {}
      BY <2>1, <2>4, SumsDisjoint
    <3>2. sums[v] \cap counted[Owner[e]] = {} /\ Owner[e] \in Target
      BY <2>1 DEF Uncounted, ConstantsAssumption
    <3> QED
      BY <2>2, <2>4, <3>1, <3>2
  <2> QED
    BY <2>3, <2>4
<1> QED
  BY <1>1, <1>2, <1>3

AddedInv == PromiseInv /\ LinkedInv /\ Uncounted

\* Whatever workers read at once and whatever they read next, no file is added to
\* the totals of its target twice.
THEOREM FilesAreAddedOnce == Spec => []AddedOnce
<1>1. Init => AddedInv
  BY PromiseInvInit, LinkedInit DEF AddedInv, Uncounted, Init, Holds
<1>2. AddedInv /\ [Next]_vars => AddedInv'
  BY PromiseInvStep, LinkedNext, UncountedStep
     DEF AddedInv, PromiseInv, LinkedInv, LinkInv, WholeInv, IInv, Whereabouts
<1>3. AddedInv => AddedOnce
  BY SumsDisjoint DEF AddedInv, PromiseInv, Uncounted, AddedOnce
<1> QED
  BY <1>1, <1>2, <1>3, PTL DEF Spec
===============================================================================
