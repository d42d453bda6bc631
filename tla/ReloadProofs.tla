------------------------------ MODULE ReloadProofs ------------------------------
(***************************************************************************)
(* Proofs about Reload: one caller at a time is between resolving and      *)
(* applying, and what it is about to apply is no older than what is; and a *)
(* request that is done with a failed reload has logged it.                *)
(***************************************************************************)
EXTENDS Reload, TLAPS

Inside == {"resolving", "applying"}

\* reloadMu excludes: callers inside the lock are one.
Exclusive == \A c, d \in Caller : step[c] \in Inside /\ step[d] \in Inside => c = d

\* What a caller inside has seen is not older than the resolution in force.
Current == \A c \in Caller : step[c] \in Inside => applied <= view[c]

\* Nothing that was seen or applied is newer than the disk.
Seen == applied <= disk /\ \A c \in Caller : view[c] <= disk

IInv == TypeOK /\ Exclusive /\ Current /\ Seen

USE ConstantsAssumption DEF Alive

LEMMA TypeInit == Init => TypeOK
<1> SUFFICES ASSUME Init PROVE TypeOK
  OBVIOUS
<1>1. /\ disk \in Nat /\ applied \in Nat /\ view \in [Caller -> Nat]
      /\ step \in [Caller -> {"starting", "idle", "called", "resolving", "applying", "returned",
                             "done", "gone"}]
  BY DEF Init
<1>2. hung \in BOOLEAN /\ cancelled \in BOOLEAN /\ pending \in BOOLEAN /\ asked \in BOOLEAN
  BY DEF Init
<1>3. /\ result \in [Caller -> {"none", "ok", "error"}] /\ logged \subseteq Request
      /\ answer \in [Request -> {"none", "waiting", "reloaded", "failed", "accepted"}]
      /\ server \in Listening \cup {"draining"} \cup Over
  BY DEF Init, Listening
<1> QED
  BY <1>1, <1>2, <1>3 DEF TypeOK

\* What a step of reload does to the caller's own progress, and to the others'.
LEMMA TypeReloading == ASSUME TypeOK, NEW c \in Caller, Reloading(c) PROVE TypeOK'
<1>1. CASE Enter(c)
  BY <1>1 DEF Enter, Goto, TypeOK, world, signals, requests
<1>2. CASE Coalesce(c)
  BY <1>2 DEF Coalesce, Goto, TypeOK, world, signals, requests
<1>3. CASE Resolve(c)
  BY <1>3 DEF Resolve, Goto, TypeOK, world, signals, requests
<1>4. CASE ResolveFails(c)
  BY <1>4 DEF ResolveFails, Goto, TypeOK, world, signals, requests
<1>5. CASE Apply(c)
  BY <1>5 DEF Apply, Goto, TypeOK, world, signals, requests
<1> QED
  BY <1>1, <1>2, <1>3, <1>4, <1>5 DEF Reloading

LEMMA TypeLoops ==
  ASSUME TypeOK, RefreshLoop \/ Watcher
  PROVE  TypeOK'
<1> {"timer", "signal"} \subseteq Caller /\ Loops \subseteq Caller
  BY DEF Caller, Loops
<1>1. CASE TimerTicks
  BY <1>1 DEF TimerTicks, Goto, TypeOK, world, signals, requests
<1>2. CASE TakeSignal
  BY <1>2 DEF TakeSignal, Goto, TypeOK, world, signals, requests
<1>3. CASE Subscribe
  BY <1>3 DEF Subscribe, Goto, TypeOK, world, signals, requests
<1>4. ASSUME NEW c \in Loops, Return(c) PROVE TypeOK'
  BY <1>4 DEF Return, AfterReload, Goto, TypeOK, world, signals, requests
<1>5. ASSUME NEW c \in Loops, Quit(c) PROVE TypeOK'
  BY <1>5 DEF Quit, Goto, TypeOK, world, signals, requests
<1> QED
  BY <1>1, <1>2, <1>3, <1>4, <1>5 DEF RefreshLoop, Watcher, Loops

LEMMA TypeRequests ==
  ASSUME TypeOK, NEW r \in Request, Post(r) \/ Handling(r)
  PROVE  TypeOK'
<1> r \in Caller
  BY DEF Caller
<1>1. CASE Post(r)
  BY <1>1 DEF Post, Goto, TypeOK, world, signals, requests
<1>2. CASE Finish(r)
  BY <1>2 DEF Finish, Goto, TypeOK, world, signals, requests
<1>3. CASE AnswerInTime(r) \/ AnswerAccepted(r)
  BY <1>3 DEF AnswerInTime, AnswerAccepted, TypeOK, world, signals
<1> QED
  BY <1>1, <1>2, <1>3 DEF Handling

\* The steps of serve change only how far the process is.
LEMMA ServeSteps ==
  ASSUME Ending \/ ListenerFails \/ CutShort
  PROVE  /\ UNCHANGED <<world, applied, step, view, result, signals, requests>>
         /\ server' \in Listening \cup {"draining"} \cup Over
BY DEF Ending, TurnUnhealthy, CloseListener, Stop, ListenerFails, CutShort, Listening, Over

LEMMA TypeStep == TypeOK /\ [Next]_vars => TypeOK'
<1> SUFFICES ASSUME TypeOK, [Next]_vars PROVE TypeOK'
  OBVIOUS
<1>1. CASE DiskChanges
  BY <1>1 DEF DiskChanges, TypeOK, signals, requests
<1>2. CASE MountHangs \/ Shutdown
  BY <1>2 DEF MountHangs, Shutdown, TypeOK, signals, requests
<1>3. CASE SignalSent
  BY <1>3 DEF SignalSent, Delivered, TypeOK, world, requests
<1>4. CASE SignalKills
  BY <1>4 DEF SignalKills, Over, TypeOK, world, signals, requests
<1>5. CASE Ending \/ ListenerFails \/ CutShort
  BY <1>5, ServeSteps DEF TypeOK, world, signals, requests
<1>6. CASE Finished \/ UNCHANGED vars
  BY <1>6 DEF Finished, vars, TypeOK, world, signals, requests
<1> QED
  BY <1>1, <1>2, <1>3, <1>4, <1>5, <1>6, TypeReloading, TypeLoops, TypeRequests
     DEF Next, Environment

\* One step of reload: entering needs the lock to be free, applying holds it.
LEMMA ReloadingStep ==
  ASSUME IInv, TypeOK', NEW c \in Caller, Reloading(c)
  PROVE  IInv' /\ applied' >= applied
<1> USE DEF IInv
<1>1. CASE Enter(c)
  <2>1. step' = [step EXCEPT ![c] = "resolving"] /\ \A d \in Caller : step[d] \notin Inside
    BY <1>1 DEF Enter, Free, Goto, Inside
  <2>2. view' = [view EXCEPT ![c] = disk] /\ UNCHANGED <<disk, applied>>
    BY <1>1 DEF Enter, world
  <2>3. Exclusive'
    BY <2>1 DEF Exclusive, TypeOK
  <2>4. Current'
    BY <2>1, <2>2 DEF Current, Seen, TypeOK
  <2>5. Seen'
    BY <2>2 DEF Seen, TypeOK
  <2> QED
    BY <2>2, <2>3, <2>4, <2>5 DEF TypeOK
<1>2. CASE Coalesce(c) \/ ResolveFails(c)
  <2>1. step' = [step EXCEPT ![c] = "returned"] /\ UNCHANGED <<disk, applied, view>>
    BY <1>2 DEF Coalesce, ResolveFails, Goto, world
  <2> QED
    BY <2>1 DEF Exclusive, Current, Seen, Inside, TypeOK
<1>3. CASE Resolve(c)
  <2>1. PICK seen \in view[c]..disk :
           /\ step[c] = "resolving" /\ step' = [step EXCEPT ![c] = "applying"]
           /\ view' = [view EXCEPT ![c] = seen] /\ UNCHANGED <<disk, applied>>
    BY <1>3 DEF Resolve, Goto, world
  <2>2. Exclusive'
    BY <2>1 DEF Exclusive, Inside, TypeOK
  <2>3. Current'
    BY <2>1, <2>2 DEF Current, Exclusive, Inside, TypeOK
  <2>4. Seen'
    BY <2>1 DEF Seen, TypeOK
  <2> QED
    BY <2>1, <2>2, <2>3, <2>4 DEF TypeOK
<1>4. CASE Apply(c)
  <2>1. /\ step[c] = "applying" /\ step' = [step EXCEPT ![c] = "returned"]
        /\ applied' = view[c] /\ UNCHANGED <<disk, view>>
    BY <1>4 DEF Apply, Goto, world
  <2>2. \A d \in Caller : step'[d] \notin Inside
    BY <2>1 DEF Exclusive, Inside, TypeOK
  <2>3. Exclusive'
    BY <2>1 DEF Exclusive, Inside, TypeOK
  <2>4. applied <= view[c] /\ view[c] <= disk
    BY <2>1 DEF Current, Seen, Inside
  <2> QED
    BY <2>1, <2>2, <2>3, <2>4 DEF Current, Seen, TypeOK
<1> QED
  BY <1>1, <1>2, <1>3, <1>4 DEF Reloading

\* Any other step leaves the callers inside the lock, and what they hold, alone.
LEMMA OtherStep ==
  ASSUME IInv, TypeOK',
         UNCHANGED <<applied, view>>, disk' \in {disk, disk + 1},
         \A c \in Caller : step'[c] \in Inside => step'[c] = step[c]
  PROVE  IInv' /\ applied' >= applied
<1>1. Exclusive'
  BY DEF IInv, Exclusive
<1>2. Current'
  BY DEF IInv, Current, Inside
<1>3. Seen'
  BY DEF IInv, Seen, TypeOK
<1> QED
  BY <1>1, <1>2, <1>3 DEF IInv, TypeOK

LEMMA StepIInv == IInv /\ [Next]_vars => IInv' /\ applied' >= applied
<1> SUFFICES ASSUME IInv, [Next]_vars PROVE IInv' /\ applied' >= applied
  OBVIOUS
<1>1. TypeOK /\ TypeOK'
  BY TypeStep DEF IInv
<1>2. ASSUME NEW c \in Caller, Reloading(c) PROVE IInv' /\ applied' >= applied
  BY <1>1, <1>2, ReloadingStep
<1>3. CASE ~ \E c \in Caller : Reloading(c)
  <2>1. UNCHANGED <<applied, view>> /\ disk' \in {disk, disk + 1}
    BY <1>3, ServeSteps DEF Next, RefreshLoop, Watcher, TimerTicks, Subscribe, TakeSignal,
         Return, Quit, Post, Handling, Finish, AnswerInTime, AnswerAccepted, Environment,
         DiskChanges, MountHangs, Shutdown, SignalSent, SignalKills, Finished, vars, world
  <2>2. \/ step' = step
        \/ \E c \in Caller, s \in {"called", "idle", "gone", "done"} :
              step' = [step EXCEPT ![c] = s]
    BY <1>3, ServeSteps DEF Next, RefreshLoop, Watcher, TimerTicks, Subscribe, TakeSignal,
         Return, AfterReload, Quit, Post, Handling, Finish, AnswerInTime, AnswerAccepted,
         Environment, DiskChanges, MountHangs, Shutdown, SignalSent, SignalKills, Finished,
         vars, Goto, Caller, Loops
  <2>3. \A c \in Caller : step'[c] \in Inside => step'[c] = step[c]
    BY <1>1, <2>2 DEF TypeOK, Inside
  <2> QED
    BY <1>1, <2>1, <2>3, OtherStep
<1> QED
  BY <1>2, <1>3

LEMMA InitIInv == Init => IInv
  BY TypeInit DEF Init, IInv, Exclusive, Current, Seen, Inside

\* A request that is done with an error has logged it.
Heard == \A r \in Request : step[r] = "done" /\ result[r] = "error" => r \in logged

LEMMA HeardStep == TypeOK /\ Heard /\ [Next]_vars => Heard'
<1> SUFFICES ASSUME TypeOK, Heard, [Next]_vars PROVE Heard'
  OBVIOUS
<1> USE DEF Heard, TypeOK, Goto, requests
<1>0. Loops \cap Request = {} /\ Request \subseteq Caller
  BY DEF Loops, Caller
<1>1. ASSUME NEW c \in Caller, Reloading(c) PROVE Heard'
  <2>1. /\ step'[c] # "done" /\ logged' = logged
        /\ \A r \in Request : r # c => step'[r] = step[r] /\ result'[r] = result[r]
    BY <1>0, <1>1 DEF Reloading, Enter, Coalesce, Resolve, ResolveFails, Apply
  <2> QED
    BY <1>0, <2>1
<1>2. CASE RefreshLoop \/ Watcher
  <2>1. logged' = logged /\ \A r \in Request : step'[r] = step[r] /\ result'[r] = result[r]
    BY <1>0, <1>2 DEF RefreshLoop, Watcher, Loops, TimerTicks, Subscribe, TakeSignal, Return,
       AfterReload, Quit
  <2> QED
    BY <2>1
<1>3. ASSUME NEW r \in Request, Post(r) \/ Handling(r) PROVE Heard'
  <2>1. CASE Post(r)
    BY <1>0, <2>1 DEF Post
  <2>2. CASE Finish(r)
    BY <1>0, <2>2 DEF Finish, Logs
  <2>3. CASE AnswerInTime(r) \/ AnswerAccepted(r)
    BY <2>3 DEF AnswerInTime, AnswerAccepted
  <2> QED
    BY <1>3, <2>1, <2>2, <2>3 DEF Handling
<1>4. CASE Ending \/ ListenerFails \/ CutShort
  BY <1>4, ServeSteps
<1>5. CASE Environment
  BY <1>5 DEF Environment, DiskChanges, MountHangs, Shutdown, SignalSent, SignalKills
<1>6. CASE Finished \/ UNCHANGED vars
  BY <1>6 DEF Finished, vars
<1> QED
  BY <1>1, <1>2, <1>3, <1>4, <1>5, <1>6 DEF Next

-------------------------------------------------------------------------------
\* What the reloads keep has its type, whoever calls them.
THEOREM TypeCorrect == Spec => []TypeOK
BY TypeInit, TypeStep, PTL DEF Spec

\* A resolution is never replaced by an older one.
THEOREM ResolutionsMoveOn == Spec => NeverOlder
BY InitIInv, StepIInv, PTL DEF Spec, NeverOlder

\* A reload that fails after its caller was answered is in the log, for any number
\* of requests and whenever the process is told to stop.
THEOREM FailuresAreLogged == Spec => []FailuresAreHeard
<1>1. Init => TypeOK /\ Heard
  <2>1. Init => Heard
    BY DEF Init, Heard, Caller, Loops
  <2> QED
    BY <2>1, TypeInit
<1>2. Heard => FailuresAreHeard
  BY DEF Heard, FailuresAreHeard
<1> QED
  BY <1>1, <1>2, TypeStep, HeardStep, PTL DEF Spec
===============================================================================
