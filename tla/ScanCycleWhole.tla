---------------------------- MODULE ScanCycleWhole -----------------------------
(***************************************************************************)
(* The proof that a walk reported complete is whole (CompleteIsWhole), and *)
(* has read its root unless the root is gone (CompleteReadOrGone).         *)
(*                                                                         *)
(* The argument is a frontier: as long as nothing has stopped or failed    *)
(* for a target, each of its files that still exists has been counted, or  *)
(* lies below a reference on its way through the pool, or is in the hands  *)
(* of the worker that is reading its directory.  When the latch closes     *)
(* there are no references and no hands left, so every file is counted.    *)
(***************************************************************************)
EXTENDS ScanCycleProofs

USE DEF supervision, counters, stops, totals, links, refs, local, disk, Emptied

\* Removing directories never leaves their contents behind.
PresentClosed == \A d \in Dir : d \notin present => Contents[d] \cap present = {}

\* A worker that is not reading a directory has empty totals.
IdleEmpty ==
    \A w \in Worker : pc[w] \notin {"check", "read", "flush"} =>
        listed[w] = {} /\ sums[w] = {} /\ ~failed[w]

\* The root of t was accepted, and nothing has stopped, failed or been given up on
\* in its walk.
Clean(t) ==
    /\ phase[t] \notin {"idle", "probing"} /\ outcome[t] \notin {"missing", "root_error"}
    /\ ~Stopping(t) /\ ~faulty[t]
    /\ \A w \in Worker, d \in Dir : Holds(w, d) /\ Owner[d] = t => ~failed[w]

\* Everything below d is still to be read.
Unread(d) ==
    \/ at[d] \in {"found", "reserved", "local", "deque", "dropped"}
    \/ at[d] = "held" /\ by[d] \in Worker /\ pc[by[d]] \in {"dispatch", "open"}

\* The worker that holds d has f in its totals, or is yet to list the entry of
\* d that f is below.
InHand(d, f) ==
    /\ at[d] = "held" /\ by[d] \in Worker
    /\ \/ pc[by[d]] \in {"check", "read", "flush"} /\ f \in sums[by[d]]
       \/ /\ pc[by[d]] \in {"check", "read"}
          /\ \E c \in Contents[d] \ listed[by[d]] : f \in Below(c)

Covered(t, f) ==
    \/ f \in counted[t]
    \/ \E d \in Dir : /\ Owner[d] = t
                     /\ \/ Unread(d) /\ f \in Below(d)
                        \/ InHand(d, f)

Coverage == \A t \in Target : Clean(t) => \A f \in FilesOf(t) \cap present : Covered(t, f)

-------------------------------------------------------------------------------
(* Facts about Below.                                                      *)

\* An entry is at or below itself.
LEMMA BelowSelf == \A d \in Entry : d \in Below(d)
BY DEF Below

\* What is below d is closed under the contents of directories.
LEMMA BelowClosed ==
  ASSUME NEW d \in Entry, NEW x \in Below(d), x \in Dir
  PROVE  Contents[x] \subseteq Below(d)
<1> SUFFICES ASSUME NEW e \in Contents[x], NEW S \in SUBSET Entry,
                    d \in S, \A y \in S \cap Dir : Contents[y] \subseteq S
             PROVE  e \in S
  BY ConstantsAssumption DEF Below, ConstantsAssumption
<1>1. x \in S
  BY DEF Below
<1> QED
  BY <1>1

\* What is below a directory is the directory or below one of its entries.
LEMMA BelowSplit ==
  ASSUME NEW d \in Dir, NEW e \in Below(d), e # d
  PROVE  \E c \in Contents[d] : e \in Below(c)
<1> DEFINE S == {x \in Entry : x = d \/ \E c \in Contents[d] : x \in Below(c)}
<1>1. d \in S /\ S \in SUBSET Entry
  BY DEF Entry
<1>2. ASSUME NEW x \in S \cap Dir PROVE Contents[x] \subseteq S
  <2>1. Contents[x] \subseteq Entry /\ Contents[d] \subseteq Entry
    BY ConstantsAssumption DEF ConstantsAssumption
  <2>2. CASE x = d
    BY <2>1, <2>2, BelowSelf
  <2>3. CASE x # d
    <3>1. PICK c \in Contents[d] : x \in Below(c)
      BY <1>2, <2>3
    <3>2. Contents[x] \subseteq Below(c)
      BY <1>2, <2>1, <3>1, BelowClosed
    <3> QED
      BY <2>1, <3>1, <3>2
  <2> QED
    BY <2>2, <2>3
<1>3. e \in S
  BY <1>1, <1>2 DEF Below
<1> QED
  BY <1>3

\* Nothing is below a file but the file.
LEMMA BelowFile ==
  ASSUME NEW g \in File, NEW e \in Below(g)
  PROVE  e = g
<1>1. {g} \in SUBSET Entry /\ {g} \cap Dir = {}
  BY ConstantsAssumption DEF ConstantsAssumption, Entry
<1> QED
  BY <1>1 DEF Below

\* No file is below an entry that is passed over.
LEMMA BelowSkipped ==
  ASSUME NEW s \in Skipped, NEW f \in File
  PROVE  f \notin Below(s)
<1>1. {s} \in SUBSET Entry /\ {s} \cap Dir = {} /\ f \notin {s}
  BY LinksAssumption DEF LinksAssumption, Entry
<1> QED
  BY <1>1 DEF Below

\* Nothing that exists is below an entry that is gone.
LEMMA BelowGone ==
  ASSUME PresentClosed, NEW d \in Entry, d \notin present
  PROVE  Below(d) \cap present = {}
<1> DEFINE S == Entry \ present
<1>1. d \in S /\ S \in SUBSET Entry
  OBVIOUS
<1>2. \A x \in S \cap Dir : Contents[x] \subseteq S
  BY ConstantsAssumption DEF ConstantsAssumption, PresentClosed
<1> QED
  BY <1>1, <1>2 DEF Below

\* Every file of a target is below its root.
LEMMA FilesBelowRoot ==
  ASSUME NEW t \in Target, NEW f \in FilesOf(t)
  PROVE  f \in Below(Root[t])
<1>1. PICK d \in Dir : Owner[d] = t /\ f \in Contents[d]
  BY DEF FilesOf
<1>2. d \in Below(Root[t]) /\ Root[t] \in Entry
  BY <1>1, ReachAssumption, ConstantsAssumption
     DEF ReachAssumption, ConstantsAssumption, Entry
<1> QED
  BY <1>1, <1>2, BelowClosed

-------------------------------------------------------------------------------

\* Only Vanish changes what exists.
LEMMA PresentClosedStep == PresentClosed /\ [Next]_vars => PresentClosed'
<1> SUFFICES ASSUME PresentClosed, [Next]_vars PROVE PresentClosed'
  OBVIOUS
<1> USE ConstantsAssumption, ReachAssumption
   DEF ConstantsAssumption, ReachAssumption, PresentClosed
<1>1. ASSUME NEW w \in Worker, Computation(w) PROVE PresentClosed'
  <2>1. CASE LeaveClosed(w)
    BY <2>1 DEF LeaveClosed
  <2>2. CASE GoShared(w)
    BY <2>2 DEF GoShared
  <2>3. CASE LeaveParked(w)
    BY <2>3 DEF LeaveParked
  <2>4. CASE After(w)
    BY <2>4 DEF After
  <2>5. ASSUME NEW d \in Dir, PopLocal(w, d) PROVE PresentClosed'
    BY <2>5 DEF PopLocal, Having
  <2>6. ASSUME NEW d \in Dir, PopShared(w, d) PROVE PresentClosed'
    BY <2>6 DEF PopShared, Deque
  <2>7. ASSUME NEW d \in Dir, Discard(w, d) PROVE PresentClosed'
    BY <2>7 DEF Discard, CompleteDir
  <2>8. ASSUME NEW d \in Dir, Dispatch(w, d) PROVE PresentClosed'
    BY <2>8 DEF Dispatch
  <2>9. ASSUME NEW d \in Dir, CheckStop(w, d) PROVE PresentClosed'
    BY <2>9 DEF CheckStop
  <2>10. ASSUME NEW d \in Dir, Flush(w, d) PROVE PresentClosed'
    BY <2>10 DEF Flush, Having
  <2>11. ASSUME NEW d \in Dir, Reserve(w, d) PROVE PresentClosed'
    BY <2>11 DEF Reserve, Having
  <2>12. ASSUME NEW d \in Dir, Push(w, d) PROVE PresentClosed'
    BY <2>12 DEF Push, Having
  <2>13. ASSUME NEW d \in Dir, Complete(w, d) PROVE PresentClosed'
    BY <2>13 DEF Complete, CompleteDir
  <2> QED
    BY <1>1, <2>1, <2>2, <2>3, <2>4, <2>5, <2>6, <2>7, <2>8, <2>9, <2>10, <2>11, <2>12, <2>13
       DEF Computation
<1>2. ASSUME NEW w \in Worker, NEW d \in Dir, Syscall(w, d) PROVE PresentClosed'
  <2>1. CASE OpenOK(w, d)
    BY <2>1 DEF OpenOK
  <2>2. CASE OpenVanished(w, d)
    BY <2>2 DEF OpenVanished
  <2>3. CASE OpenFails(w, d)
    BY <2>3 DEF OpenFails
  <2>4. CASE ReadBatch(w, d)
    BY <2>4 DEF ReadBatch
  <2>5. CASE EndOfDir(w, d)
    BY <2>5 DEF EndOfDir
  <2>6. CASE ReadFails(w, d)
    BY <2>6 DEF ReadFails
  <2>7. CASE LimiterStops(w, d)
    BY <2>7 DEF LimiterStops
  <2> QED
    BY <1>2, <2>1, <2>2, <2>3, <2>4, <2>5, <2>6, <2>7 DEF Syscall
<1>3. ASSUME NEW t \in Target, StartTarget(t) \/ Probe(t) \/ Supervise(t) PROVE PresentClosed'
  <2>1. CASE StartTarget(t)
    BY <2>1 DEF StartTarget
  <2>2. CASE ProbeOK(t)
    BY <2>2 DEF ProbeOK
  <2>3. CASE ProbeRefused(t)
    BY <2>3 DEF ProbeRefused
  <2>4. CASE WalkDone(t)
    BY <2>4 DEF WalkDone
  <2>5. CASE DeadlineSeen(t)
    BY <2>5 DEF DeadlineSeen
  <2>6. CASE GiveUp(t)
    BY <2>6 DEF GiveUp, Abandon
  <2>7. CASE Decide(t)
    BY <2>7 DEF Decide, AskRoot, AskScan, AskTotals, Conclude, GoOn
  <2>8. CASE Report(t)
    BY <2>8 DEF Report
  <2> QED
    BY <1>3, <2>1, <2>2, <2>3, <2>4, <2>5, <2>6, <2>7, <2>8 DEF Probe, Supervise
<1>4. CASE ClosePool
  BY <1>4 DEF ClosePool, Deque
<1>5. CASE DrainDone \/ DrainTimer
  BY <1>5 DEF DrainDone, DrainTimer
<1>6. CASE Environment
  BY <1>6 DEF Environment, Expire, Shutdown, Vanish
<1>7. CASE Finished \/ UNCHANGED vars
  BY <1>7 DEF Finished, vars
<1> QED
  BY <1>1, <1>2, <1>3, <1>4, <1>5, <1>6, <1>7 DEF Next

\* Totals are filled while a directory is read and emptied by Flush.
LEMMA IdleEmptyStep == TypeOK /\ IdleEmpty /\ [Next]_vars => IdleEmpty'
<1> SUFFICES ASSUME TypeOK, IdleEmpty, [Next]_vars PROVE IdleEmpty'
  OBVIOUS
<1> USE ConstantsAssumption DEF IdleEmpty, Steps, Places, Holds, Goto, Move, TypeOK
<1>1. ASSUME NEW w \in Worker, Computation(w) PROVE IdleEmpty'
  <2>1. CASE LeaveClosed(w)
    BY <2>1 DEF LeaveClosed
  <2>2. CASE GoShared(w)
    BY <2>2 DEF GoShared
  <2>3. CASE LeaveParked(w)
    BY <2>3 DEF LeaveParked
  <2>4. CASE After(w)
    BY <2>4 DEF After
  <2>5. ASSUME NEW d \in Dir, PopLocal(w, d) PROVE IdleEmpty'
    BY <2>5 DEF PopLocal, Having
  <2>6. ASSUME NEW d \in Dir, PopShared(w, d) PROVE IdleEmpty'
    BY <2>6 DEF PopShared, Deque
  <2>7. ASSUME NEW d \in Dir, Discard(w, d) PROVE IdleEmpty'
    BY <2>7 DEF Discard, CompleteDir
  <2>8. ASSUME NEW d \in Dir, Dispatch(w, d) PROVE IdleEmpty'
    BY <2>8 DEF Dispatch
  <2>9. ASSUME NEW d \in Dir, CheckStop(w, d) PROVE IdleEmpty'
    BY <2>9 DEF CheckStop
  <2>10. ASSUME NEW d \in Dir, Flush(w, d) PROVE IdleEmpty'
    BY <2>10 DEF Flush, Having
  <2>11. ASSUME NEW d \in Dir, Reserve(w, d) PROVE IdleEmpty'
    BY <2>11 DEF Reserve, Having
  <2>12. ASSUME NEW d \in Dir, Push(w, d) PROVE IdleEmpty'
    BY <2>12 DEF Push, Having
  <2>13. ASSUME NEW d \in Dir, Complete(w, d) PROVE IdleEmpty'
    BY <2>13 DEF Complete, CompleteDir
  <2> QED
    BY <1>1, <2>1, <2>2, <2>3, <2>4, <2>5, <2>6, <2>7, <2>8, <2>9, <2>10, <2>11, <2>12, <2>13
       DEF Computation
<1>2. ASSUME NEW w \in Worker, NEW d \in Dir, Syscall(w, d) PROVE IdleEmpty'
  <2>1. CASE OpenOK(w, d)
    BY <2>1 DEF OpenOK
  <2>2. CASE OpenVanished(w, d)
    BY <2>2 DEF OpenVanished
  <2>3. CASE OpenFails(w, d)
    BY <2>3 DEF OpenFails
  <2>4. CASE ReadBatch(w, d)
    BY <2>4 DEF ReadBatch
  <2>5. CASE EndOfDir(w, d)
    BY <2>5 DEF EndOfDir
  <2>6. CASE ReadFails(w, d)
    BY <2>6 DEF ReadFails
  <2>7. CASE LimiterStops(w, d)
    BY <2>7 DEF LimiterStops
  <2> QED
    BY <1>2, <2>1, <2>2, <2>3, <2>4, <2>5, <2>6, <2>7 DEF Syscall
<1>3. ASSUME NEW t \in Target, StartTarget(t) \/ Probe(t) \/ Supervise(t) PROVE IdleEmpty'
  <2>1. CASE StartTarget(t)
    BY <2>1 DEF StartTarget
  <2>2. CASE ProbeOK(t)
    BY <2>2 DEF ProbeOK
  <2>3. CASE ProbeRefused(t)
    BY <2>3 DEF ProbeRefused
  <2>4. CASE WalkDone(t)
    BY <2>4 DEF WalkDone
  <2>5. CASE DeadlineSeen(t)
    BY <2>5 DEF DeadlineSeen
  <2>6. CASE GiveUp(t)
    BY <2>6 DEF GiveUp, Abandon
  <2>7. CASE Decide(t)
    BY <2>7 DEF Decide, AskRoot, AskScan, AskTotals, Conclude, GoOn
  <2>8. CASE Report(t)
    BY <2>8 DEF Report
  <2> QED
    BY <1>3, <2>1, <2>2, <2>3, <2>4, <2>5, <2>6, <2>7, <2>8 DEF Probe, Supervise
<1>4. CASE ClosePool
  BY <1>4 DEF ClosePool, Deque
<1>5. CASE DrainDone \/ DrainTimer
  BY <1>5 DEF DrainDone, DrainTimer
<1>6. CASE Environment
  BY <1>6 DEF Environment, Expire, Shutdown, Vanish
<1>7. CASE Finished \/ UNCHANGED vars
  BY <1>7 DEF Finished, vars
<1> QED
  BY <1>1, <1>2, <1>3, <1>4, <1>5, <1>6, <1>7 DEF Next


StaysUnclean ==
    \A t \in Target : Clean(t)' /\ phase[t] \notin {"idle", "probing"} => Clean(t)

\* A walk that has stopped or failed is never clean again.
LEMMA CleanStep ==
  TypeOK /\ OneHeld /\ Fresh /\ NotStarted /\ Supervised /\ IdleEmpty /\ [Next]_vars =>
      StaysUnclean
<1> SUFFICES ASSUME TypeOK, OneHeld, Fresh, NotStarted, Supervised, IdleEmpty, [Next]_vars
             PROVE  StaysUnclean
  OBVIOUS
<1> USE ConstantsAssumption
   DEF StaysUnclean, Clean, Stopping, OneHeld, IdleEmpty, Phases, Steps, Places, Holds, Goto,
      Move, TypeOK
<1>1. ASSUME NEW w \in Worker, Computation(w) PROVE StaysUnclean
  <2>1. CASE LeaveClosed(w)
    BY <2>1 DEF LeaveClosed
  <2>2. CASE GoShared(w)
    BY <2>2 DEF GoShared
  <2>3. CASE LeaveParked(w)
    BY <2>3 DEF LeaveParked
  <2>4. CASE After(w)
    BY <2>4 DEF After
  <2>5. ASSUME NEW d \in Dir, PopLocal(w, d) PROVE StaysUnclean
    BY <2>5 DEF PopLocal, Having
  <2>6. ASSUME NEW d \in Dir, PopShared(w, d) PROVE StaysUnclean
    BY <2>6 DEF PopShared, Deque
  <2>7. ASSUME NEW d \in Dir, Discard(w, d) PROVE StaysUnclean
    BY <2>7 DEF Discard, CompleteDir
  <2>8. ASSUME NEW d \in Dir, Dispatch(w, d) PROVE StaysUnclean
    BY <2>8 DEF Dispatch
  <2>9. ASSUME NEW d \in Dir, CheckStop(w, d) PROVE StaysUnclean
    BY <2>9 DEF CheckStop
  <2>10. ASSUME NEW d \in Dir, Flush(w, d) PROVE StaysUnclean
    BY <2>10 DEF Flush, Having
  <2>11. ASSUME NEW d \in Dir, Reserve(w, d) PROVE StaysUnclean
    BY <2>11 DEF Reserve, Having
  <2>12. ASSUME NEW d \in Dir, Push(w, d) PROVE StaysUnclean
    <3>1. /\ UNCHANGED <<phase, outcome, abandoned, expired, cancelled, faulty, failed>>
          /\ \A v \in Worker, e \in Dir : Holds(v, e) => Holds(v, e)'
      BY <2>12 DEF Push, Having
    <3> QED
      BY <3>1
  <2>13. ASSUME NEW d \in Dir, Complete(w, d) PROVE StaysUnclean
    BY <2>13 DEF Complete, CompleteDir
  <2> QED
    BY <1>1, <2>1, <2>2, <2>3, <2>4, <2>5, <2>6, <2>7, <2>8, <2>9, <2>10, <2>11, <2>12, <2>13
       DEF Computation
<1>2. ASSUME NEW w \in Worker, NEW d \in Dir, Syscall(w, d) PROVE StaysUnclean
  <2>1. CASE OpenOK(w, d)
    BY <2>1 DEF OpenOK
  <2>2. CASE OpenVanished(w, d)
    BY <2>2 DEF OpenVanished
  <2>3. CASE OpenFails(w, d)
    BY <2>3 DEF OpenFails
  <2>4. CASE ReadBatch(w, d)
    <3>1. PICK new \in SUBSET (Contents[d] \cap Dir) :
            /\ Move(new, "found", w)
            /\ \A c \in new : at[c] = "unseen" /\ c \in listed'[w]
            /\ \A v \in Worker : listed[v] \subseteq listed'[v]
      <4> HIDE DEF TypeOK, Move
      <4> QED
        BY <2>4, FoundChildren
    <3>2. \A v \in Worker : failed[v] => failed'[v]
      BY <2>4 DEF ReadBatch
    <3>3. UNCHANGED <<phase, outcome, abandoned, expired, cancelled, faulty>>
      BY <2>4 DEF ReadBatch
    <3>4. \A v \in Worker, e \in Dir : Holds(v, e) => Holds(v, e)'
      BY <3>1
    <3>5. ASSUME NEW t \in Target, Clean(t)' PROVE Clean(t)
      <4> HIDE DEF Holds, TypeOK, Move, Fresh, NotStarted, OneHeld, IdleEmpty
      <4> QED
        BY <3>2, <3>3, <3>4, <3>5
    <3> QED
      BY <3>5
  <2>5. CASE EndOfDir(w, d)
    BY <2>5 DEF EndOfDir
  <2>6. CASE ReadFails(w, d)
    BY <2>6 DEF ReadFails
  <2>7. CASE LimiterStops(w, d)
    BY <2>7 DEF LimiterStops
  <2> QED
    BY <1>2, <2>1, <2>2, <2>3, <2>4, <2>5, <2>6, <2>7 DEF Syscall
<1>3. ASSUME NEW t \in Target, StartTarget(t) \/ Probe(t) \/ Supervise(t) PROVE StaysUnclean
  <2>1. CASE StartTarget(t)
    BY <2>1 DEF StartTarget
  <2>2. CASE ProbeOK(t)
    <3>1. at[Root[t]] = "unseen"
      BY <2>2 DEF ProbeOK, NotStarted, ConstantsAssumption
    <3> QED
      BY <2>2, <3>1 DEF ProbeOK
  <2>3. CASE ProbeRefused(t)
    BY <2>3 DEF ProbeRefused
  <2>4. CASE WalkDone(t)
    BY <2>4 DEF WalkDone
  <2>5. CASE DeadlineSeen(t)
    BY <2>5 DEF DeadlineSeen
  <2>6. CASE GiveUp(t)
    BY <2>6 DEF GiveUp, Abandon
  <2>7. CASE Decide(t)
    <3>1. outcome[t] = "none"
      BY <2>7 DEF Decide, AskRoot, AskScan, AskTotals, Supervised
    <3> QED
      BY <2>7, <3>1 DEF Decide, AskRoot, AskScan, AskTotals, Conclude, GoOn
  <2>8. CASE Report(t)
    BY <2>8 DEF Report
  <2> QED
    BY <1>3, <2>1, <2>2, <2>3, <2>4, <2>5, <2>6, <2>7, <2>8 DEF Probe, Supervise
<1>4. CASE ClosePool
  BY <1>4 DEF ClosePool, Deque
<1>5. CASE DrainDone \/ DrainTimer
  BY <1>5 DEF DrainDone, DrainTimer
<1>6. CASE Environment
  BY <1>6 DEF Environment, Expire, Shutdown, Vanish
<1>7. CASE Finished \/ UNCHANGED vars
  BY <1>7 DEF Finished, vars
<1> QED
  BY <1>1, <1>2, <1>3, <1>4, <1>5, <1>6, <1>7 DEF Next


\* What one ReadSome and the stat calls on its entries do.
LEMMA BatchRead ==
  ASSUME NEW w \in Worker, NEW d \in Dir, ReadBatch(w, d)
  PROVE  \E batch \in SUBSET (Contents[d] \ listed[w]) :
           \E bad \in SUBSET (batch \cap present \cap Flaky) :
             /\ listed' = [listed EXCEPT ![w] = @ \cup batch]
             /\ sums' = [sums EXCEPT ![w] = @ \cup Countable((batch \cap present) \ bad)]
             /\ failed' = [failed EXCEPT ![w] = @ \/ bad # {}]
             /\ Move(((batch \cap present) \ bad) \cap Dir, "found", w)
BY DEF ReadBatch

\* A directory that its parent's reader has not listed yet has no reference.
LEMMA UnlistedUnseen ==
  ASSUME Fresh, NEW w \in Worker, NEW d \in Dir, Holds(w, d), pc[w] = "read",
         NEW c \in (Contents[d] \ listed[w]) \cap Dir
  PROVE  at[c] = "unseen"
BY DEF Fresh, Holds

\* What covers file f through directory e still covers it after the step.
Kept ==
    \A t \in Target, f \in File, e \in Dir :
        /\ Clean(t) /\ Clean(t)' /\ f \in present' /\ Owner[e] = t
        /\ (Unread(e) /\ f \in Below(e)) \/ InHand(e, f)
        => Covered(t, f)'

\* The frontier argument, action by action.
LEMMA KeptStep ==
  TypeOK /\ OneHeld /\ Handoff /\ Fresh /\ NotStarted /\ IdleEmpty /\ PresentClosed /\ [Next]_vars
    => Kept
<1> SUFFICES ASSUME TypeOK, OneHeld, Handoff, Fresh, NotStarted, IdleEmpty, PresentClosed,
      [Next]_vars
             PROVE  Kept
  OBVIOUS
<1> USE ConstantsAssumption
   DEF Kept, Covered, Unread, InHand, OneHeld, Handoff, NotStarted, IdleEmpty, Phases, Steps,
      Places, Holds, Goto, Move, TypeOK
<1>1. ASSUME NEW w \in Worker, Computation(w) PROVE Kept
  <2>1. CASE LeaveClosed(w)
    BY <2>1 DEF LeaveClosed
  <2>2. CASE GoShared(w)
    BY <2>2 DEF GoShared
  <2>3. CASE LeaveParked(w)
    BY <2>3 DEF LeaveParked
  <2>4. CASE After(w)
    BY <2>4 DEF After
  <2>5. ASSUME NEW d \in Dir, PopLocal(w, d) PROVE Kept
    BY <2>5 DEF PopLocal, Having
  <2>6. ASSUME NEW d \in Dir, PopShared(w, d) PROVE Kept
    BY <2>6 DEF PopShared, Deque
  <2>7. ASSUME NEW d \in Dir, Discard(w, d) PROVE Kept
    <3> SUFFICES ASSUME NEW t \in Target, NEW f \in File,
                        Clean(t), Clean(t)', f \in present', NEW e \in Dir, Owner[e] = t,
                        (Unread(e) /\ f \in Below(e)) \/ InHand(e, f)
                 PROVE  Covered(t, f)'
      OBVIOUS
    <3>1. CASE e # d
      BY <2>7, <3>1 DEF Discard, CompleteDir
    <3>2. CASE e = d
      BY <2>7, <3>2 DEF Discard, Clean
    <3> QED
      BY <3>1, <3>2
  <2>8. ASSUME NEW d \in Dir, Dispatch(w, d) PROVE Kept
    BY <2>8 DEF Dispatch
  <2>9. ASSUME NEW d \in Dir, CheckStop(w, d) PROVE Kept
    <3> SUFFICES ASSUME NEW t \in Target, NEW f \in File,
                        Clean(t), Clean(t)', f \in present', NEW e \in Dir, Owner[e] = t,
                        (Unread(e) /\ f \in Below(e)) \/ InHand(e, f)
                 PROVE  Covered(t, f)'
      OBVIOUS
    <3>1. CASE e # d
      BY <2>9, <3>1 DEF CheckStop
    <3>2. CASE e = d
      BY <2>9, <3>2 DEF CheckStop, Clean
    <3> QED
      BY <3>1, <3>2
  <2>10. ASSUME NEW d \in Dir, Flush(w, d) PROVE Kept
    BY <2>10 DEF Flush, Having
  <2>11. ASSUME NEW d \in Dir, Reserve(w, d) PROVE Kept
    BY <2>11 DEF Reserve, Having
  <2>12. ASSUME NEW d \in Dir, Push(w, d) PROVE Kept
    BY <2>12 DEF Push, Having
  <2>13. ASSUME NEW d \in Dir, Complete(w, d) PROVE Kept
    <3> SUFFICES ASSUME NEW t \in Target, NEW f \in File,
                        Clean(t), Clean(t)', f \in present', NEW e \in Dir, Owner[e] = t,
                        (Unread(e) /\ f \in Below(e)) \/ InHand(e, f)
                 PROVE  Covered(t, f)'
      OBVIOUS
    <3>1. CASE e # d
      BY <2>13, <3>1 DEF Complete, CompleteDir
    <3>2. CASE e = d
      BY <2>13, <3>2 DEF Complete
    <3> QED
      BY <3>1, <3>2
  <2> QED
    BY <1>1, <2>1, <2>2, <2>3, <2>4, <2>5, <2>6, <2>7, <2>8, <2>9, <2>10, <2>11, <2>12, <2>13
       DEF Computation
<1>2. ASSUME NEW w \in Worker, NEW d \in Dir, Syscall(w, d) PROVE Kept
  <2>1. CASE OpenOK(w, d)
    <3> SUFFICES ASSUME NEW t \in Target, NEW f \in File,
                        Clean(t), Clean(t)', f \in present', NEW e \in Dir, Owner[e] = t,
                        (Unread(e) /\ f \in Below(e)) \/ InHand(e, f)
                 PROVE  Covered(t, f)'
      OBVIOUS
    <3>1. CASE e # d
      BY <2>1, <3>1 DEF OpenOK
    <3>2. CASE e = d
      <4>1. f \in Below(d) /\ at[d] = "held" /\ by[d] = w
        BY <2>1, <3>2 DEF OpenOK
      <4>2. f # d
        BY ConstantsAssumption DEF ConstantsAssumption
      <4>3. PICK c \in Contents[d] : f \in Below(c)
        BY <4>1, <4>2, BelowSplit
      <4>4. listed'[w] = {} /\ pc'[w] = "check" /\ at'[d] = "held" /\ by'[d] = w
        BY <2>1, <4>1 DEF OpenOK
      <4> QED
        BY <3>2, <4>3, <4>4
    <3> QED
      BY <3>1, <3>2
  <2>2. CASE OpenVanished(w, d)
    <3> SUFFICES ASSUME NEW t \in Target, NEW f \in File,
                        Clean(t), Clean(t)', f \in present', NEW e \in Dir, Owner[e] = t,
                        (Unread(e) /\ f \in Below(e)) \/ InHand(e, f)
                 PROVE  Covered(t, f)'
      OBVIOUS
    <3>1. CASE e # d
      BY <2>2, <3>1 DEF OpenVanished
    <3>2. CASE e = d
      <4>1. f \in Below(d) /\ d \notin present /\ f \in present
        BY <2>2, <3>2 DEF OpenVanished
      <4> QED
        BY <4>1, BelowGone DEF Entry
    <3> QED
      BY <3>1, <3>2
  <2>3. CASE OpenFails(w, d)
    <3> SUFFICES ASSUME NEW t \in Target, NEW f \in File,
                        Clean(t), Clean(t)', f \in present', NEW e \in Dir, Owner[e] = t,
                        (Unread(e) /\ f \in Below(e)) \/ InHand(e, f)
                 PROVE  Covered(t, f)'
      OBVIOUS
    <3>1. CASE e # d
      BY <2>3, <3>1 DEF OpenFails
    <3>2. CASE e = d
      BY <2>3, <3>2 DEF OpenFails, Clean
    <3> QED
      BY <3>1, <3>2
  <2>4. CASE ReadBatch(w, d)
    <3> SUFFICES ASSUME NEW t \in Target, NEW f \in File,
                        Clean(t), Clean(t)', f \in present', NEW e \in Dir, Owner[e] = t,
                        (Unread(e) /\ f \in Below(e)) \/ InHand(e, f)
                 PROVE  Covered(t, f)'
      OBVIOUS
    <3>a. PICK batch \in SUBSET (Contents[d] \ listed[w]) :
            \E bad \in SUBSET (batch \cap present \cap Flaky) :
            /\ listed' = [listed EXCEPT ![w] = @ \cup batch]
            /\ sums' = [sums EXCEPT ![w] = @ \cup Countable((batch \cap present) \ bad)]
            /\ failed' = [failed EXCEPT ![w] = @ \/ bad # {}]
            /\ Move(((batch \cap present) \ bad) \cap Dir, "found", w)
      <4> HIDE DEF TypeOK, Move
      <4> QED
        BY <2>4, BatchRead
    <3>0. PICK bad \in SUBSET (batch \cap present \cap Flaky) :
            /\ listed' = [listed EXCEPT ![w] = @ \cup batch]
            /\ sums' = [sums EXCEPT ![w] = @ \cup Countable((batch \cap present) \ bad)]
            /\ failed' = [failed EXCEPT ![w] = @ \/ bad # {}]
            /\ Move(((batch \cap present) \ bad) \cap Dir, "found", w)
      BY <3>a
    <3> DEFINE new == ((batch \cap present) \ bad) \cap Dir
    <3>3. /\ at[d] = "held" /\ by[d] = w /\ pc[w] = "read"
          /\ pc' = [pc EXCEPT ![w] = "check"]
          /\ UNCHANGED <<counted, present>>
      BY <2>4 DEF ReadBatch
    <3>4. \A c \in new : at[c] = "unseen"
      <4> HIDE DEF Holds
      <4>1. Holds(w, d) /\ pc[w] = "read"
        BY <3>3 DEF Holds
      <4> QED
        BY <4>1, UnlistedUnseen
    <3>5. at'[d] = "held" /\ by'[d] = w
      BY <3>0, <3>3, <3>4
    <3>1. CASE e # d
      <4>1. e \notin new /\ at'[e] = at[e] /\ by'[e] = by[e]
        BY <3>0, <3>4
      <4>2. at[e] = "held" => by[e] # w
        BY <3>1, <3>3
      <4> QED
        BY <3>0, <3>3, <4>1, <4>2
    <3>2. CASE e = d
      <4>1. CASE f \in sums[w]
        BY <3>0, <3>2, <3>3, <3>5, <4>1
      <4>2. CASE f \notin sums[w]
        <5>1. PICK c \in Contents[d] \ listed[w] : f \in Below(c)
          BY <3>2, <3>3, <4>2
        <5>2. CASE c \notin batch
          BY <3>0, <3>2, <3>3, <3>5, <5>1, <5>2
        <5>3. CASE c \in batch /\ c \notin present
          <6>1. c \in Entry /\ f \in present
            BY <3>3, ConstantsAssumption DEF ConstantsAssumption
          <6> QED
            BY <5>1, <5>3, <6>1, BelowGone
        <5>4. CASE c \in bad
          <6>1. failed'[w]
            <7>1. bad # {}
              BY <5>4
            <7>2. failed' = [failed EXCEPT ![w] = TRUE]
              BY <3>0, <7>1
            <7> QED
              BY <7>2
          <6> QED
            BY <3>2, <3>5, <6>1 DEF Clean
        <5>5. CASE c \in (batch \cap present) \ bad /\ c \in File
          <6>1. f = c
            BY <5>1, <5>5, BelowFile
          <6> QED
            BY <3>0, <3>2, <3>3, <3>5, <5>5, <6>1 DEF Countable
        <5>6. CASE c \in new
          <6>1. at'[c] = "found" /\ Owner[c] = t
            BY <3>0, <3>2, <5>1, <5>6 DEF ConstantsAssumption
          <6> QED
            BY <5>1, <5>6, <6>1
        <5>7. c \notin Skipped
          BY <5>1, BelowSkipped
        <5>8. c \in Dir \cup File
          <6>1. c \in Entry
            BY <5>1, ConstantsAssumption DEF ConstantsAssumption
          <6> QED
            BY <5>7, <6>1 DEF Entry
        <5> QED
          BY <5>2, <5>3, <5>4, <5>5, <5>6, <5>8
      <4> QED
        BY <4>1, <4>2
    <3> QED
      BY <3>1, <3>2
  <2>5. CASE EndOfDir(w, d)
    <3> SUFFICES ASSUME NEW t \in Target, NEW f \in File,
                        Clean(t), Clean(t)', f \in present', NEW e \in Dir, Owner[e] = t,
                        (Unread(e) /\ f \in Below(e)) \/ InHand(e, f)
                 PROVE  Covered(t, f)'
      OBVIOUS
    <3>1. CASE e # d
      BY <2>5, <3>1 DEF EndOfDir
    <3>2. CASE e = d
      <4>1. at[d] = "held" /\ by[d] = w /\ pc[w] = "read"
        BY <2>5 DEF EndOfDir
      <4>2. ASSUME NEW c \in Contents[d] \ listed[w], f \in Below(c) PROVE FALSE
        <5>1. c \notin present /\ c \in Entry /\ f \in present
          BY <2>5, <4>2, ConstantsAssumption DEF EndOfDir, ConstantsAssumption
        <5> QED
          BY <4>2, <5>1, BelowGone
      <4>3. f \in sums[w]
        BY <3>2, <4>1, <4>2
      <4> QED
        BY <2>5, <3>2, <4>1, <4>3 DEF EndOfDir
    <3> QED
      BY <3>1, <3>2
  <2>6. CASE ReadFails(w, d)
    <3> SUFFICES ASSUME NEW t \in Target, NEW f \in File,
                        Clean(t), Clean(t)', f \in present', NEW e \in Dir, Owner[e] = t,
                        (Unread(e) /\ f \in Below(e)) \/ InHand(e, f)
                 PROVE  Covered(t, f)'
      OBVIOUS
    <3>1. CASE e # d
      BY <2>6, <3>1 DEF ReadFails
    <3>2. CASE e = d
      BY <2>6, <3>2 DEF ReadFails, Clean
    <3> QED
      BY <3>1, <3>2
  <2>7. CASE LimiterStops(w, d)
    <3> SUFFICES ASSUME NEW t \in Target, NEW f \in File,
                        Clean(t), Clean(t)', f \in present', NEW e \in Dir, Owner[e] = t,
                        (Unread(e) /\ f \in Below(e)) \/ InHand(e, f)
                 PROVE  Covered(t, f)'
      OBVIOUS
    <3>1. CASE e # d
      BY <2>7, <3>1 DEF LimiterStops
    <3>2. CASE e = d
      BY <2>7, <3>2 DEF LimiterStops, Clean, Stopping
    <3> QED
      BY <3>1, <3>2
  <2> QED
    BY <1>2, <2>1, <2>2, <2>3, <2>4, <2>5, <2>6, <2>7 DEF Syscall
<1>3. ASSUME NEW t \in Target, StartTarget(t) \/ Probe(t) \/ Supervise(t) PROVE Kept
  <2>1. CASE StartTarget(t)
    BY <2>1 DEF StartTarget
  <2>2. CASE ProbeOK(t)
    BY <2>2 DEF ProbeOK
  <2>3. CASE ProbeRefused(t)
    BY <2>3 DEF ProbeRefused
  <2>4. CASE WalkDone(t)
    BY <2>4 DEF WalkDone
  <2>5. CASE DeadlineSeen(t)
    BY <2>5 DEF DeadlineSeen
  <2>6. CASE GiveUp(t)
    BY <2>6 DEF GiveUp, Abandon
  <2>7. CASE Decide(t)
    BY <2>7 DEF Decide, AskRoot, AskScan, AskTotals, Conclude, GoOn
  <2>8. CASE Report(t)
    BY <2>8 DEF Report
  <2> QED
    BY <1>3, <2>1, <2>2, <2>3, <2>4, <2>5, <2>6, <2>7, <2>8 DEF Probe, Supervise
<1>4. CASE ClosePool
  BY <1>4 DEF ClosePool, Deque
<1>5. CASE DrainDone \/ DrainTimer
  BY <1>5 DEF DrainDone, DrainTimer
<1>6. CASE Environment
  BY <1>6 DEF Environment, Expire, Shutdown, Vanish
<1>7. CASE Finished \/ UNCHANGED vars
  BY <1>7 DEF Finished, vars
<1> QED
  BY <1>1, <1>2, <1>3, <1>4, <1>5, <1>6, <1>7 DEF Next

\* Workers decide nothing: they leave the supervisors' and the main goroutine's
\* state, the reasons to stop and the disk alone.
LEMMA WorkerFrame ==
  ASSUME NEW w \in Worker, Computation(w) \/ \E d \in Dir : Syscall(w, d)
  PROVE  UNCHANGED <<main, phase, outcome, abandoned, expired, cancelled, present>>
BY DEF Computation, LeaveClosed, GoShared, LeaveParked, After, PopLocal, PopShared, Discard,
       Dispatch, CheckStop, Flush, Reserve, Push, Complete, Syscall, OpenOK, OpenVanished,
       OpenFails, ReadBatch, EndOfDir, ReadFails, LimiterStops

\* What is counted stays counted, and an error stays recorded.
LEMMA TotalsGrow ==
  ASSUME TypeOK, [Next]_vars
  PROVE  \A t \in Target : counted[t] \subseteq counted'[t] /\ (faulty[t] => faulty'[t])
<1> DEFINE Goal ==
      \A t \in Target : counted[t] \subseteq counted'[t] /\ (faulty[t] => faulty'[t])
<1>1. ASSUME NEW w \in Worker, Computation(w) PROVE Goal
  <2>1. ASSUME NEW d \in Dir, Flush(w, d) PROVE Goal
    BY <2>1 DEF Flush, TypeOK
  <2> QED
    BY <1>1, <2>1 DEF Computation, LeaveClosed, GoShared, LeaveParked, After, PopLocal,
       PopShared, Discard, Dispatch, CheckStop, Reserve, Push, Complete
<1>2. ASSUME NEW w \in Worker, NEW d \in Dir, Syscall(w, d) PROVE Goal
  <2>1. CASE OpenFails(w, d)
    BY <2>1 DEF OpenFails, TypeOK
  <2> QED
    BY <1>2, <2>1 DEF Syscall, OpenOK, OpenVanished, ReadBatch, EndOfDir, ReadFails, LimiterStops
<1>3. ASSUME NEW t \in Target, StartTarget(t) \/ Probe(t) \/ Supervise(t) PROVE Goal
  <2>1. CASE ProbeRefused(t)
    <3>1. counted' = counted /\ \E recorded : faulty' = [faulty EXCEPT ![t] = @ \/ recorded]
      BY <2>1 DEF ProbeRefused
    <3> QED
      BY <3>1 DEF TypeOK
  <2> QED
    BY <1>3, <2>1 DEF StartTarget, Probe, ProbeOK, Supervise, WalkDone, DeadlineSeen, GiveUp,
       Decide, Report
<1>4. CASE ClosePool \/ DrainDone \/ DrainTimer \/ Environment \/ Finished \/ UNCHANGED vars
  BY <1>4 DEF ClosePool, DrainDone, DrainTimer, Environment, Expire, Shutdown, Vanish,
     Finished, vars
<1> QED
  BY <1>1, <1>2, <1>3, <1>4 DEF Next

\* The walk of t was found to have ended in time and without an error: the contexts
\* are not asked again, whatever they say by the time the outcome is chosen.
Final(t) == outcome[t] = "complete" \/ (phase[t] = "tally" /\ ~faulty[t])

\* A clean walk begins with the root in the shared queue, only the look at the
\* scan's context makes it final, and only a final walk becomes complete.
LEMMA SupervisorSteps ==
  ASSUME TypeOK, [Next]_vars, NEW t \in Target
  PROVE  /\ phase[t] \in {"idle", "probing"} /\ Clean(t)' => ProbeOK(t)
         /\ ~Final(t) /\ Final(t)' => AskScan(t) /\ Decide(t)
         /\ outcome[t] # "complete" /\ outcome'[t] = "complete" => ~Flawed(t)
         /\ present' \subseteq present
<1> DEFINE Goal == /\ phase[t] \in {"idle", "probing"} /\ Clean(t)' => ProbeOK(t)
                   /\ ~Final(t) /\ Final(t)' => AskScan(t) /\ Decide(t)
                   /\ outcome[t] # "complete" /\ outcome'[t] = "complete" => ~Flawed(t)
                   /\ present' \subseteq present
<1>0. faulty[t] => faulty'[t]
  BY TotalsGrow
<1>1. ASSUME UNCHANGED <<phase, outcome, present>> PROVE Goal
  BY <1>0, <1>1 DEF Clean, Final
<1>2. ASSUME NEW w \in Worker, Computation(w) \/ \E d \in Dir : Syscall(w, d) PROVE Goal
  BY <1>1, <1>2, WorkerFrame
<1>3. ASSUME NEW u \in Target, StartTarget(u) \/ Probe(u) \/ Supervise(u) PROVE Goal
  <2>1. CASE StartTarget(u) \/ WalkDone(u) \/ DeadlineSeen(u) \/ GiveUp(u) \/ Report(u)
    BY <1>0, <2>1 DEF StartTarget, WalkDone, DeadlineSeen, GiveUp, Report, TypeOK, Clean, Final
  <2>2. CASE ProbeOK(u)
    BY <1>0, <2>2 DEF ProbeOK, TypeOK, Clean, Final
  <2>3. CASE ProbeRefused(u)
    <3>1. /\ phase' = [phase EXCEPT ![u] = "reported"] /\ present' = present
          /\ \E refusal \in {"missing", "root_error"} :
                outcome' = [outcome EXCEPT ![u] = refusal]
      BY <2>3 DEF ProbeRefused
    <3>2. u = t => phase'[t] = "reported" /\ outcome'[t] \in {"missing", "root_error"}
      BY <3>1 DEF TypeOK
    <3>3. u # t => phase'[t] = phase[t] /\ outcome'[t] = outcome[t]
      BY <3>1 DEF TypeOK
    <3> QED
      BY <1>0, <3>1, <3>2, <3>3 DEF Clean, Final
  <2>4. CASE Decide(u)
    <3>1. UNCHANGED <<faulty, present>> /\ (AskRoot(u) \/ AskScan(u) \/ AskTotals(u))
      BY <2>4 DEF Decide
    <3>2. u # t => phase'[t] = phase[t] /\ outcome'[t] = outcome[t]
      BY <3>1 DEF AskRoot, AskScan, AskTotals, Conclude, GoOn, TypeOK
    <3>3. CASE u = t /\ AskRoot(t)
      BY <3>1, <3>3 DEF AskRoot, Conclude, GoOn, TypeOK, Clean, Final
    <3>4. CASE u = t /\ AskScan(t)
      BY <2>4, <3>1, <3>4 DEF AskScan, Conclude, GoOn, TypeOK, Clean, Final
    <3>5. CASE u = t /\ AskTotals(t)
      BY <3>1, <3>5 DEF AskTotals, Conclude, Flawed, TypeOK, Clean, Final
    <3> QED
      BY <3>1, <3>2, <3>3, <3>4, <3>5 DEF Clean, Final
  <2> QED
    BY <1>3, <2>1, <2>2, <2>3, <2>4 DEF Probe, Supervise
<1>4. CASE ClosePool \/ DrainDone \/ DrainTimer \/ Finished \/ UNCHANGED vars
  BY <1>1, <1>4 DEF ClosePool, DrainDone, DrainTimer, Finished, vars
<1>5. CASE Environment
  BY <1>0, <1>5 DEF Environment, Expire, Shutdown, Vanish, Clean, Final
<1> QED
  BY <1>2, <1>3, <1>4, <1>5 DEF Next

\* The frontier covers every existing file as long as the walk is clean.
LEMMA CoverageStep ==
  ASSUME TypeOK, Whereabouts, Supervised, IdleEmpty, PresentClosed, Coverage, [Next]_vars
  PROVE  Coverage'
<1> SUFFICES ASSUME NEW t \in Target, Clean(t)', NEW f \in FilesOf(t), f \in present'
             PROVE  Covered(t, f)'
  BY DEF Coverage, FilesOf
<1>1. /\ OneHeld /\ Handoff /\ Fresh /\ NotStarted
      /\ f \in File /\ f \in present
  BY SupervisorSteps DEF Whereabouts, FilesOf
<1>2. CASE phase[t] \in {"idle", "probing"}
  <2>1. ProbeOK(t) /\ f \in Below(Root[t])
    BY <1>2, SupervisorSteps, FilesBelowRoot
  <2>2. at'[Root[t]] = "deque" /\ Root[t] \in Dir /\ Owner[Root[t]] = t
    BY <2>1, ConstantsAssumption DEF ProbeOK, Move, ConstantsAssumption, TypeOK
  <2>3. Unread(Root[t])'
    BY <2>2 DEF Unread
  <2> QED
    BY <2>1, <2>2, <2>3 DEF Covered
<1>3. CASE phase[t] \notin {"idle", "probing"}
  <2>1. Clean(t)
    BY <1>1, <1>3, CleanStep DEF StaysUnclean
  <2>2. Covered(t, f)
    BY <1>1, <2>1 DEF Coverage
  <2>3. CASE f \in counted[t]
    BY <2>3, TotalsGrow DEF Covered
  <2>4. CASE f \notin counted[t]
    <3>1. PICK e \in Dir : Owner[e] = t /\ ((Unread(e) /\ f \in Below(e)) \/ InHand(e, f))
      BY <2>2, <2>4 DEF Covered
    <3> QED
      BY <1>1, <2>1, <3>1, KeptStep DEF Kept
  <2> QED
    BY <2>3, <2>4
<1> QED
  BY <1>2, <1>3

\* The places of a directory that is not done with.
Engaged == {"found", "reserved", "local", "deque", "held", "dropped"}

\* A walk that is found final is clean, and nothing of it is left.
LEMMA Settled ==
  ASSUME IInv, NEW t \in Target, AskScan(t), Decide(t), Final(t)', ~Final(t)
  PROVE  Clean(t) /\ \A d \in Dir : Owner[d] = t => at[d] \notin Engaged
<1>1. /\ TypeOK /\ Handoff /\ LatchMeansDone /\ Supervised /\ phase[t] = "judge"
      /\ latch[t] /\ outcome[t] = "none"
  BY DEF IInv, Whereabouts, AskScan, Supervised, Deciding
<1>2. ~OutOfTime(t) /\ ~faulty[t]
  <2>1. faulty' = faulty
    BY DEF Decide
  <2> QED
    BY <1>1, <2>1 DEF AskScan, Conclude, GoOn, Final, TypeOK
<1>3. ~Stopping(t)
  BY <1>2 DEF OutOfTime, Stopping
<1>4. \A d \in Dir : Owner[d] = t =>
        at[d] \notin {"reserved", "local", "deque", "held", "dropped"}
  <2>1. Outstanding(t) = {}
    BY <1>1, <1>3 DEF LatchMeansDone, Stopping
  <2> QED
    BY <2>1 DEF Outstanding
<1>5. \A d \in Dir : Owner[d] = t => at[d] # "found"
  BY <1>1, <1>4, ConstantsAssumption DEF Handoff, Holds, ConstantsAssumption
<1> QED
  BY <1>1, <1>2, <1>3, <1>4, <1>5 DEF Clean, Holds, Engaged

\* What CompleteIsWhole says holds of every walk that was found final.
FinalIsWhole == \A t \in Target : Final(t) => FilesOf(t) \cap present \subseteq counted[t]

\* When a clean walk is found final, the frontier is empty.
LEMMA WholeStep ==
  ASSUME IInv, Coverage, FinalIsWhole, [Next]_vars
  PROVE  FinalIsWhole'
<1> SUFFICES ASSUME NEW t \in Target, Final(t)',
                    NEW f \in FilesOf(t), f \in present'
             PROVE  f \in counted'[t]
  BY DEF FinalIsWhole, FilesOf
<1>1. TypeOK /\ f \in present /\ counted[t] \subseteq counted'[t]
  BY SupervisorSteps, TotalsGrow DEF IInv
<1>2. CASE Final(t)
  BY <1>1, <1>2 DEF FinalIsWhole
<1>3. CASE ~Final(t)
  <2>1. AskScan(t) /\ Decide(t)
    BY <1>1, <1>3, SupervisorSteps
  <2>2. Clean(t) /\ \A d \in Dir : Owner[d] = t => at[d] \notin Engaged
    BY <1>3, <2>1, Settled
  <2>3. Covered(t, f)
    BY <1>1, <2>2 DEF Coverage
  <2>4. f \in counted[t]
    BY <2>2, <2>3 DEF Covered, Unread, InHand, Engaged
  <2> QED
    BY <1>1, <2>4
<1> QED
  BY <1>2, <1>3

WholeInv == IInv /\ PresentClosed /\ IdleEmpty /\ Coverage /\ FinalIsWhole

\* Nothing is counted, held or decided when ScanAll begins.
LEMMA WholeInit == Init => WholeInv
<1> SUFFICES ASSUME Init PROVE WholeInv
  OBVIOUS
<1>1. PresentClosed /\ IdleEmpty
  <2>1. PresentClosed
    BY DEF Init, PresentClosed, Entry
  <2>2. ASSUME NEW w \in Worker PROVE listed[w] = {} /\ sums[w] = {} /\ failed[w] = FALSE
    BY DEF Init
  <2> QED
    BY <2>1, <2>2 DEF IdleEmpty
<1>2. Coverage /\ FinalIsWhole
  BY DEF Init, Coverage, Clean, FinalIsWhole, Final
<1> QED
  BY <1>1, <1>2, InitIInv DEF WholeInv

LEMMA WholeNext == WholeInv /\ [Next]_vars => WholeInv'
<1> SUFFICES ASSUME WholeInv, [Next]_vars PROVE WholeInv'
  OBVIOUS
<1>1. /\ IInv /\ TypeOK /\ Whereabouts /\ Supervised
      /\ PresentClosed /\ IdleEmpty /\ Coverage /\ FinalIsWhole
  BY DEF WholeInv, IInv
<1>2. IInv'
  BY <1>1, StepIInv
<1>3. PresentClosed' /\ IdleEmpty'
  BY <1>1, PresentClosedStep, IdleEmptyStep
<1>4. Coverage'
  BY <1>1, CoverageStep
<1>5. FinalIsWhole'
  BY <1>1, WholeStep
<1> QED
  BY <1>2, <1>3, <1>4, <1>5 DEF WholeInv

\* A walk that is reported complete has counted every file of its target that
\* still exists, for any number of workers, targets and directories, any tree,
\* and any interleaving with timeouts, errors, rotation and shutdown.
THEOREM CompleteWalksAreWhole == Spec => []CompleteIsWhole
<1>1. WholeInv => CompleteIsWhole
  BY DEF WholeInv, FinalIsWhole, Final, CompleteIsWhole
<1> QED
  BY <1>1, WholeInit, WholeNext, PTL DEF Spec

-------------------------------------------------------------------------------
(* What a complete walk says of its root (CompleteReadOrGone).             *)

\* The root of a clean walk is still to be read, was read, or is gone.
RootAhead ==
    \A t \in Target : Clean(t) =>
        Unread(Root[t]) \/ Root[t] \in opened \/ Root[t] \notin present

\* A directory ahead of a walk stays ahead of it until it is opened or gone.
StaysAhead ==
    \A e \in Dir : Unread(e) /\ Clean(Owner[e]) /\ Clean(Owner[e])' =>
        Unread(e)' \/ e \in opened' \/ e \notin present'

LEMMA AheadStep ==
  TypeOK /\ OneHeld /\ Handoff /\ Fresh /\ [Next]_vars => StaysAhead /\ opened \subseteq opened'
<1> SUFFICES ASSUME TypeOK, OneHeld, Handoff, Fresh, [Next]_vars
             PROVE  StaysAhead /\ opened \subseteq opened'
  OBVIOUS
<1> USE ConstantsAssumption
   DEF StaysAhead, Unread, OneHeld, Handoff, Phases, Steps, Places, Holds, Goto, Move, TypeOK
<1> DEFINE Goal == StaysAhead /\ opened \subseteq opened'
<1>1. ASSUME NEW w \in Worker, Computation(w) PROVE Goal
  <2>1. CASE LeaveClosed(w)
    BY <2>1 DEF LeaveClosed
  <2>2. CASE GoShared(w)
    BY <2>2 DEF GoShared
  <2>3. CASE LeaveParked(w)
    BY <2>3 DEF LeaveParked
  <2>4. CASE After(w)
    BY <2>4 DEF After
  <2>5. ASSUME NEW d \in Dir, PopLocal(w, d) PROVE Goal
    BY <2>5 DEF PopLocal, Having
  <2>6. ASSUME NEW d \in Dir, PopShared(w, d) PROVE Goal
    BY <2>6 DEF PopShared, Deque
  <2>7. ASSUME NEW d \in Dir, Discard(w, d) PROVE Goal
    BY <2>7 DEF Discard, CompleteDir, Clean
  <2>8. ASSUME NEW d \in Dir, Dispatch(w, d) PROVE Goal
    BY <2>8 DEF Dispatch
  <2>9. ASSUME NEW d \in Dir, CheckStop(w, d) PROVE Goal
    BY <2>9 DEF CheckStop
  <2>10. ASSUME NEW d \in Dir, Flush(w, d) PROVE Goal
    BY <2>10 DEF Flush
  <2>11. ASSUME NEW d \in Dir, Reserve(w, d) PROVE Goal
    BY <2>11 DEF Reserve, Having
  <2>12. ASSUME NEW d \in Dir, Push(w, d) PROVE Goal
    BY <2>12 DEF Push, Having
  <2>13. ASSUME NEW d \in Dir, Complete(w, d) PROVE Goal
    BY <2>13 DEF Complete, CompleteDir
  <2> QED
    BY <1>1, <2>1, <2>2, <2>3, <2>4, <2>5, <2>6, <2>7, <2>8, <2>9, <2>10, <2>11, <2>12, <2>13
       DEF Computation
<1>2. ASSUME NEW w \in Worker, NEW d \in Dir, Syscall(w, d) PROVE Goal
  <2>1. CASE OpenOK(w, d)
    BY <2>1 DEF OpenOK
  <2>2. CASE OpenVanished(w, d)
    BY <2>2 DEF OpenVanished
  <2>3. CASE OpenFails(w, d)
    BY <2>3 DEF OpenFails, Clean
  <2>4. CASE ReadBatch(w, d)
    <3>1. PICK new \in SUBSET (Contents[d] \cap Dir) : Move(new, "found", w)
      <4> HIDE DEF TypeOK, Move
      <4> QED
        BY <2>4, FoundChildren
    <3>2. pc' = [pc EXCEPT ![w] = "check"] /\ pc[w] = "read" /\ opened' = opened
      BY <2>4 DEF ReadBatch
    <3> QED
      BY <3>1, <3>2
  <2>5. CASE EndOfDir(w, d)
    BY <2>5 DEF EndOfDir
  <2>6. CASE ReadFails(w, d)
    BY <2>6 DEF ReadFails
  <2>7. CASE LimiterStops(w, d)
    BY <2>7 DEF LimiterStops
  <2> QED
    BY <1>2, <2>1, <2>2, <2>3, <2>4, <2>5, <2>6, <2>7 DEF Syscall
<1>3. ASSUME NEW t \in Target, StartTarget(t) \/ Probe(t) \/ Supervise(t) PROVE Goal
  BY <1>3 DEF StartTarget, Probe, ProbeOK, ProbeRefused, Supervise, WalkDone, DeadlineSeen,
     GiveUp, Decide, Report
<1>4. CASE ClosePool
  BY <1>4 DEF ClosePool, Deque
<1>5. CASE DrainDone \/ DrainTimer \/ Environment
  BY <1>5 DEF DrainDone, DrainTimer, Environment, Expire, Shutdown, Vanish
<1>6. CASE Finished \/ UNCHANGED vars
  BY <1>6 DEF Finished, vars
<1> QED
  BY <1>1, <1>2, <1>3, <1>4, <1>5, <1>6 DEF Next

\* What CompleteReadOrGone says holds of every walk that was found final.
FinalReadOrGone ==
    \A t \in Target : Final(t) => Root[t] \in opened \/ Root[t] \notin present

RootInv == WholeInv /\ RootAhead /\ FinalReadOrGone

LEMMA RootNext == RootInv /\ [Next]_vars => RootInv'
<1> SUFFICES ASSUME RootInv, [Next]_vars PROVE RootInv'
  OBVIOUS
<1> USE DEF RootInv
<1>1. /\ WholeInv' /\ IInv /\ TypeOK /\ OneHeld /\ Handoff /\ Fresh /\ NotStarted /\ IdleEmpty
      /\ Supervised /\ opened \subseteq opened' /\ StaysAhead /\ StaysUnclean
  BY WholeNext, AheadStep, CleanStep DEF WholeInv, IInv, Whereabouts
<1>2. ASSUME NEW t \in Target PROVE /\ Root[t] \in Dir /\ Owner[Root[t]] = t
                                    /\ present' \subseteq present
  BY <1>1, SupervisorSteps, ConstantsAssumption DEF ConstantsAssumption
<1>3. RootAhead'
  <2> SUFFICES ASSUME NEW t \in Target, Clean(t)'
               PROVE  (Unread(Root[t]) \/ Root[t] \in opened \/ Root[t] \notin present)'
    BY DEF RootAhead
  <2>1. CASE phase[t] \in {"idle", "probing"}
    <3>1. at'[Root[t]] = "deque"
      BY <1>1, <1>2, <2>1, SupervisorSteps DEF ProbeOK, Move, TypeOK
    <3> QED
      BY <3>1 DEF Unread
  <2>2. CASE phase[t] \notin {"idle", "probing"}
    <3>1. Clean(t)
      BY <1>1, <2>2 DEF StaysUnclean
    <3> QED
      BY <1>1, <1>2, <3>1 DEF RootAhead, StaysAhead
  <2> QED
    BY <2>1, <2>2
<1>4. FinalReadOrGone'
  <2> SUFFICES ASSUME NEW t \in Target, Final(t)'
               PROVE  (Root[t] \in opened \/ Root[t] \notin present)'
    BY DEF FinalReadOrGone
  <2>1. CASE Final(t)
    BY <1>1, <1>2, <2>1 DEF FinalReadOrGone
  <2>2. CASE ~Final(t)
    <3>1. AskScan(t) /\ Decide(t)
      BY <1>1, <2>2, SupervisorSteps
    <3>2. UNCHANGED <<opened, present>>
      BY <3>1 DEF Decide
    <3>3. Clean(t) /\ ~Unread(Root[t])
      BY <1>1, <1>2, <2>2, <3>1, Settled DEF Unread, Engaged
    <3> QED
      BY <3>2, <3>3 DEF RootAhead
  <2> QED
    BY <2>1, <2>2
<1> QED
  BY <1>1, <1>3, <1>4

\* The exact boundary of "complete": a walk that is reported so has opened its
\* root, unless the root vanished after prepareRoot had seen it, which is the one
\* way to a complete measurement of nothing at all.
THEOREM CompleteRootsWereRead == Spec => []CompleteReadOrGone
<1>1. Init => RootInv
  BY WholeInit DEF Init, RootInv, RootAhead, Clean, FinalReadOrGone, Final
<1>2. RootInv => CompleteReadOrGone
  BY DEF RootInv, FinalReadOrGone, Final, CompleteReadOrGone
<1> QED
  BY <1>1, <1>2, RootNext, PTL DEF Spec
===============================================================================
