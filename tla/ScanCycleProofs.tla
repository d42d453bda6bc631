---------------------------- MODULE ScanCycleProofs ----------------------------
(* Theorems about ScanCycle for every set of targets, workers and trees.   *)
EXTENDS ScanCycle, FiniteSetTheorems, TLAPS

USE DEF supervision, counters, stops, totals, links, refs, local, disk, Emptied

\* The sets of directories whose sizes the counters stand for are finite.
LEMMA DirsFinite ==
  \A S \in SUBSET Dir : IsFiniteSet(S) /\ Cardinality(S) \in Nat
BY FS_Subset, FS_CardinalityType, ConstantsAssumption DEF ConstantsAssumption

\* What shouldCount does to the table of inodes and to what it leaves out.
LEMMA CountTyped ==
  ASSUME LinksOK, NEW t \in Target, NEW files \in SUBSET File, ShouldCount(t, files)
  PROVE  LinksOK'
<1>1. PICK first \in SUBSET files :
        /\ inodes' = [inodes EXCEPT ![t] = inodes[t] \cup {Inode[f] : f \in first}]
        /\ \E mark \in BOOLEAN : exhausted' = [exhausted EXCEPT ![t] = mark]
        /\ spared' \subseteq spared \cup files
  <2>1. PICK several \in SUBSET files, unseen \in SUBSET files, first \in SUBSET files :
          LET table == inodes[t] \cup {Inode[f] : f \in first} IN
          /\ inodes' = [inodes EXCEPT ![t] = table]
          /\ exhausted' = [exhausted EXCEPT ![t] = @ \/ Missed(unseen, table) # {}]
          /\ spared' = spared \cup ({f \in several : Inode[f] \in table} \ first)
    <3> DEFINE several == {f \in files : DedupHardlinks /\ Linked(f)}
               unseen  == {f \in several : Inode[f] \notin inodes[t]}
    <3>1. several \in SUBSET files /\ unseen \in SUBSET files
      OBVIOUS
    <3> QED
      BY <3>1 DEF ShouldCount, Tracked
  <2> DEFINE mark == exhausted[t] \/
                     Missed(unseen, inodes[t] \cup {Inode[f] : f \in first}) # {}
  <2>2. exhausted' = [exhausted EXCEPT ![t] = mark] /\ mark \in BOOLEAN
    BY <2>1 DEF LinksOK
  <2> QED
    BY <2>1, <2>2
<1>2. {Inode[f] : f \in first} \subseteq Inodes
  BY DEF Inodes
<1> QED
  BY <1>1, <1>2 DEF LinksOK

\* Every step keeps the variables in their types: one case per action of
\* ScanAll, the workers, the supervisors and the environment.
LEMMA TypeStep == TypeOK /\ [Next]_vars => TypeOK'
<1> SUFFICES ASSUME TypeOK, [Next]_vars PROVE TypeOK'
  OBVIOUS
<1> USE ConstantsAssumption DEF Goto, Move, LinksOK
<1>1. ASSUME NEW w \in Worker, Computation(w) PROVE TypeOK'
  <2>1. CASE LeaveClosed(w)
    BY <2>1 DEF LeaveClosed, TypeOK, Steps
  <2>2. CASE GoShared(w)
    BY <2>2 DEF GoShared, TypeOK, Steps
  <2>3. CASE LeaveParked(w)
    BY <2>3 DEF LeaveParked, TypeOK, Steps
  <2>4. CASE After(w)
    BY <2>4 DEF After, TypeOK, Steps
  <2>5. ASSUME NEW d \in Dir, PopLocal(w, d) PROVE TypeOK'
    BY <2>5 DEF PopLocal, TypeOK, Steps, Places
  <2>6. ASSUME NEW d \in Dir, PopShared(w, d) PROVE TypeOK'
    BY <2>6 DEF PopShared, TypeOK, Steps, Places
  <2>7. ASSUME NEW d \in Dir, Discard(w, d) PROVE TypeOK'
    BY <2>7 DEF Discard, CompleteDir, LastOne, TypeOK, Steps, Places
  <2>8. ASSUME NEW d \in Dir, Dispatch(w, d) PROVE TypeOK'
    BY <2>8 DEF Dispatch, TypeOK, Steps
  <2>9. ASSUME NEW d \in Dir, CheckStop(w, d) PROVE TypeOK'
    BY <2>9 DEF CheckStop, TypeOK, Steps
  <2>10. ASSUME NEW d \in Dir, Flush(w, d) PROVE TypeOK'
    BY <2>10 DEF Flush, TypeOK, Steps
  <2>11. ASSUME NEW d \in Dir, Reserve(w, d) PROVE TypeOK'
    BY <2>11, DirsFinite DEF Reserve, Reservation, Having, TypeOK, Steps, Places
  <2>12. ASSUME NEW d \in Dir, Push(w, d) PROVE TypeOK'
    BY <2>12 DEF Push, TypeOK, Steps, Places
  <2>13. ASSUME NEW d \in Dir, Complete(w, d) PROVE TypeOK'
    BY <2>13 DEF Complete, CompleteDir, LastOne, TypeOK, Steps, Places
  <2> QED
    BY <1>1, <2>1, <2>2, <2>3, <2>4, <2>5, <2>6, <2>7, <2>8, <2>9, <2>10, <2>11,
       <2>12, <2>13 DEF Computation
<1>2. ASSUME NEW w \in Worker, NEW d \in Dir, Syscall(w, d) PROVE TypeOK'
  <2>1. CASE OpenOK(w, d)
    BY <2>1 DEF OpenOK, TypeOK, Steps
  <2>2. CASE OpenVanished(w, d)
    BY <2>2 DEF OpenVanished, TypeOK, Steps
  <2>3. CASE OpenFails(w, d)
    BY <2>3 DEF OpenFails, TypeOK, Steps
  <2>4. CASE ReadBatch(w, d)
    <3>1. PICK files \in SUBSET File : ShouldCount(Owner[d], files)
      BY <2>4 DEF ReadBatch
    <3>2. LinksOK'
      BY <3>1, CountTyped DEF TypeOK, ConstantsAssumption
    <3> QED
      BY <2>4, <3>2 DEF ReadBatch, Countable, TypeOK, Steps, Places, Entry
  <2>5. CASE EndOfDir(w, d)
    BY <2>5 DEF EndOfDir, TypeOK, Steps
  <2>6. CASE ReadFails(w, d)
    BY <2>6 DEF ReadFails, TypeOK, Steps
  <2>7. CASE LimiterStops(w, d)
    BY <2>7 DEF LimiterStops, TypeOK, Steps
  <2> QED
    BY <1>2, <2>1, <2>2, <2>3, <2>4, <2>5, <2>6, <2>7 DEF Syscall
<1>3. ASSUME NEW t \in Target, StartTarget(t) \/ Probe(t) \/ Supervise(t) PROVE TypeOK'
  <2>1. CASE StartTarget(t)
    BY <2>1 DEF StartTarget, TypeOK, Phases
  <2>2. CASE ProbeOK(t)
    BY <2>2 DEF ProbeOK, TypeOK, Phases, Places
  <2>3. CASE ProbeRefused(t)
    BY <2>3 DEF ProbeRefused, TypeOK, Phases, Outcomes
  <2>4. CASE WalkDone(t)
    BY <2>4 DEF WalkDone, TypeOK, Phases, Deciding
  <2>5. CASE DeadlineSeen(t)
    BY <2>5 DEF DeadlineSeen, TypeOK, Phases
  <2>6. CASE GiveUp(t)
    BY <2>6 DEF GiveUp, Abandon, TypeOK, Phases, Deciding
  <2>7. CASE Decide(t)
    <3>1. UNCHANGED <<main, counters, stops, totals, links, refs, pc, local, disk>>
      BY <2>7 DEF Decide
    <3>2. \/ phase' = [phase EXCEPT ![t] = "judge"] /\ outcome' = outcome
          \/ phase' = [phase EXCEPT ![t] = "tally"] /\ outcome' = outcome
          \/ /\ phase' = [phase EXCEPT ![t] = "report"]
             /\ \E verdict \in Outcomes : outcome' = [outcome EXCEPT ![t] = verdict]
      BY <2>7 DEF Decide, AskRoot, AskScan, AskTotals, Conclude, GoOn, Outcomes
    <3>3. phase' \in [Target -> Phases]
      <4>1. "judge" \in Phases /\ "tally" \in Phases /\ "report" \in Phases
        BY DEF Phases, Deciding
      <4> QED
        BY <3>2, <4>1 DEF TypeOK
    <3>4. outcome' \in [Target -> Outcomes]
      BY <3>2 DEF TypeOK
    <3> QED
      BY <3>1, <3>3, <3>4 DEF TypeOK
  <2>8. CASE Report(t)
    BY <2>8 DEF Report, TypeOK, Phases
  <2> QED
    BY <1>3, <2>1, <2>2, <2>3, <2>4, <2>5, <2>6, <2>7, <2>8 DEF Probe, Supervise
<1>4. CASE ClosePool \/ DrainDone \/ DrainTimer
  BY <1>4 DEF ClosePool, DrainDone, DrainTimer, Deque, TypeOK, Places
<1>5. CASE Environment
  <2>1. ASSUME NEW t \in Target, Expire(t) PROVE TypeOK'
    BY <2>1 DEF Expire, TypeOK
  <2>2. CASE Shutdown
    BY <2>2 DEF Shutdown, TypeOK
  <2>3. ASSUME NEW gone \in Rotations, Vanish(gone) PROVE TypeOK'
    BY <2>3 DEF Vanish, TypeOK
  <2> QED
    BY <1>5, <2>1, <2>2, <2>3 DEF Environment
<1>6. CASE Finished \/ UNCHANGED vars
  BY <1>6 DEF Finished, vars, TypeOK
<1> QED
  BY <1>1, <1>2, <1>3, <1>4, <1>5, <1>6 DEF Next

\* The initial values have their types.
LEMMA TypeInit == Init => TypeOK
<1> SUFFICES ASSUME Init PROVE TypeOK
  OBVIOUS
<1>1. /\ main \in {"loop", "drain", "returned"}
      /\ phase \in [Target -> Phases]
      /\ outcome \in [Target -> Outcomes]
      /\ at \in [Dir -> Places]
      /\ by \in [Dir -> Worker \cup {NoWorker}]
      /\ pc \in [Worker -> Steps]
  BY DEF Init, Phases, Outcomes, Places, Steps
<1>2. /\ pending \in [Target -> Int]
      /\ latch \in [Target -> BOOLEAN]
      /\ abandoned \in [Target -> BOOLEAN]
      /\ expired \in [Target -> BOOLEAN]
      /\ faulty \in [Target -> BOOLEAN]
      /\ failed \in [Worker -> BOOLEAN]
  BY DEF Init
<1>3. /\ counted \in [Target -> SUBSET File]
      /\ listed \in [Worker -> SUBSET Entry]
      /\ sums \in [Worker -> SUBSET File]
      /\ present \in SUBSET Entry
      /\ opened \in SUBSET Dir
      /\ cancelled \in BOOLEAN
  BY DEF Init
<1>4. LinksOK
  BY DEF Init, LinksOK
<1> QED
  BY <1>1, <1>2, <1>3, <1>4 DEF TypeOK

\* TypeOK holds in every reachable state of ScanAll, whatever the constants.
THEOREM TypeCorrect == Spec => []TypeOK
BY TypeInit, TypeStep, PTL DEF Spec

-------------------------------------------------------------------------------
(* The inductive invariant behind LatchHonest.  It says where a reference  *)
(* can be: a worker holds one directory at a time, children on their way   *)
(* to the pool belong to the directory their worker holds, and a directory *)
(* that has not been listed yet has no reference at all.                   *)

\* A worker holds at most one directory, and none between two directories.
OneHeld ==
    \A w \in Worker, d \in Dir : Holds(w, d) =>
        /\ pc[w] \notin {"next", "wait", "after", "exited"}
        /\ \A e \in Dir : Holds(w, e) => e = d

\* Children found or reserved by a worker are children of what it holds.
Handoff ==
    \A c \in Dir : at[c] \in {"found", "reserved"} =>
        /\ by[c] \in Worker
        /\ at[c] = "found" => pc[by[c]] \in {"check", "read", "flush", "reserve"}
        /\ at[c] = "reserved" => pc[by[c]] = "push"
        /\ \E d \in Dir : Holds(by[c], d) /\ c \in Contents[d]

\* Only a directory whose parent has been listed (or a root) has a reference.
Fresh ==
    \A d \in Dir : \A c \in Contents[d] \cap Dir :
        \/ at[c] = "unseen"
        \/ at[d] = "done"
        \/ /\ at[d] = "held" /\ by[d] \in Worker
           /\ c \in listed[by[d]] \/ pc[by[d]] \in {"reserve", "push", "complete"}

\* Nothing of a target is in the pool before prepareRoot has accepted its root.
NotStarted ==
    \A t \in Target : phase[t] \in {"idle", "probing"} =>
        /\ ~latch[t]
        /\ \A d \in Dir : Owner[d] = t => at[d] = "unseen"

Whereabouts == OneHeld /\ Handoff /\ Fresh /\ NotStarted

\* A decided target has its latch closed, and one whose errors are looked at, or
\* that is complete, was not abandoned.
Supervised ==
    \A t \in Target :
        /\ phase[t] \notin {"report", "reported"} => outcome[t] = "none"
        /\ phase[t] \in Deciding => latch[t]
        /\ phase[t] = "tally" => ~abandoned[t]
        /\ outcome[t] = "complete" => latch[t] /\ ~abandoned[t]

\* Listing part of a directory finds only children nobody has a reference to.
LEMMA FoundChildren ==
  ASSUME TypeOK, Fresh, NEW w \in Worker, NEW d \in Dir, ReadBatch(w, d)
  PROVE  \E new \in SUBSET (Contents[d] \cap Dir) :
           /\ Move(new, "found", w)
           /\ \A c \in new : at[c] = "unseen" /\ c \in listed'[w]
           /\ \A v \in Worker : listed[v] \subseteq listed'[v]
<1>1. PICK batch \in SUBSET (Contents[d] \ listed[w]) :
        \E bad \in SUBSET (batch \cap present \cap Flaky) :
          /\ listed' = [listed EXCEPT ![w] = @ \cup batch]
          /\ Move(((batch \cap present) \ bad) \cap Dir, "found", w)
  BY DEF ReadBatch
<1>2. PICK bad \in SUBSET (batch \cap present \cap Flaky) :
          /\ listed' = [listed EXCEPT ![w] = @ \cup batch]
          /\ Move(((batch \cap present) \ bad) \cap Dir, "found", w)
  BY <1>1
<1> DEFINE new == ((batch \cap present) \ bad) \cap Dir
<1>3. at[d] = "held" /\ by[d] = w /\ pc[w] = "read"
  BY DEF ReadBatch, Holds
<1>4. \A c \in new : at[c] = "unseen"
  BY <1>3 DEF Fresh
<1>5. \A v \in Worker : listed[v] \subseteq listed'[v]
  BY <1>2 DEF TypeOK
<1>6. \A c \in new : c \in listed'[w]
  BY <1>2 DEF TypeOK
<1> QED
  BY <1>2, <1>4, <1>5, <1>6

\* Workers pick up a directory only with empty hands.
LEMMA OneHeldStep == TypeOK /\ OneHeld /\ [Next]_vars => OneHeld'
<1> SUFFICES ASSUME TypeOK, OneHeld, [Next]_vars PROVE OneHeld'
  OBVIOUS
<1> USE ConstantsAssumption DEF OneHeld, Steps, Places, Holds, Goto, Move, TypeOK
<1>1. ASSUME NEW w \in Worker, Computation(w) PROVE OneHeld'
  <2>1. CASE LeaveClosed(w)
    BY <2>1 DEF LeaveClosed
  <2>2. CASE GoShared(w)
    BY <2>2 DEF GoShared
  <2>3. CASE LeaveParked(w)
    BY <2>3 DEF LeaveParked
  <2>4. CASE After(w)
    BY <2>4 DEF After
  <2>5. ASSUME NEW d \in Dir, PopLocal(w, d) PROVE OneHeld'
    BY <2>5 DEF PopLocal, Having
  <2>6. ASSUME NEW d \in Dir, PopShared(w, d) PROVE OneHeld'
    BY <2>6 DEF PopShared, Deque
  <2>7. ASSUME NEW d \in Dir, Discard(w, d) PROVE OneHeld'
    BY <2>7 DEF Discard, CompleteDir
  <2>8. ASSUME NEW d \in Dir, Dispatch(w, d) PROVE OneHeld'
    BY <2>8 DEF Dispatch
  <2>9. ASSUME NEW d \in Dir, CheckStop(w, d) PROVE OneHeld'
    BY <2>9 DEF CheckStop
  <2>10. ASSUME NEW d \in Dir, Flush(w, d) PROVE OneHeld'
    BY <2>10 DEF Flush, Having
  <2>11. ASSUME NEW d \in Dir, Reserve(w, d) PROVE OneHeld'
    BY <2>11 DEF Reserve, Having
  <2>12. ASSUME NEW d \in Dir, Push(w, d) PROVE OneHeld'
    BY <2>12 DEF Push, Having
  <2>13. ASSUME NEW d \in Dir, Complete(w, d) PROVE OneHeld'
    BY <2>13 DEF Complete, CompleteDir
  <2> QED
    BY <1>1, <2>1, <2>2, <2>3, <2>4, <2>5, <2>6, <2>7, <2>8, <2>9, <2>10, <2>11, <2>12, <2>13
       DEF Computation
<1>2. ASSUME NEW w \in Worker, NEW d \in Dir, Syscall(w, d) PROVE OneHeld'
  <2>1. CASE OpenOK(w, d)
    BY <2>1 DEF OpenOK
  <2>2. CASE OpenVanished(w, d)
    BY <2>2 DEF OpenVanished
  <2>3. CASE OpenFails(w, d)
    BY <2>3 DEF OpenFails
  <2>4. CASE ReadBatch(w, d)
    BY <2>4 DEF ReadBatch
  <2>5. CASE EndOfDir(w, d)
    BY <2>5 DEF EndOfDir
  <2>6. CASE ReadFails(w, d)
    BY <2>6 DEF ReadFails
  <2>7. CASE LimiterStops(w, d)
    BY <2>7 DEF LimiterStops
  <2> QED
    BY <1>2, <2>1, <2>2, <2>3, <2>4, <2>5, <2>6, <2>7 DEF Syscall
<1>3. ASSUME NEW t \in Target, StartTarget(t) \/ Probe(t) \/ Supervise(t) PROVE OneHeld'
  <2>1. CASE StartTarget(t)
    BY <2>1 DEF StartTarget
  <2>2. CASE ProbeOK(t)
    BY <2>2 DEF ProbeOK
  <2>3. CASE ProbeRefused(t)
    BY <2>3 DEF ProbeRefused
  <2>4. CASE WalkDone(t)
    BY <2>4 DEF WalkDone
  <2>5. CASE DeadlineSeen(t)
    BY <2>5 DEF DeadlineSeen
  <2>6. CASE GiveUp(t)
    BY <2>6 DEF GiveUp, Abandon
  <2>7. CASE Decide(t)
    BY <2>7 DEF Decide, AskRoot, AskScan, AskTotals, Conclude, GoOn
  <2>8. CASE Report(t)
    BY <2>8 DEF Report
  <2> QED
    BY <1>3, <2>1, <2>2, <2>3, <2>4, <2>5, <2>6, <2>7, <2>8 DEF Probe, Supervise
<1>4. CASE ClosePool
  BY <1>4 DEF ClosePool, Deque
<1>5. CASE DrainDone \/ DrainTimer
  BY <1>5 DEF DrainDone, DrainTimer
<1>6. CASE Environment
  BY <1>6 DEF Environment, Expire, Shutdown, Vanish
<1>7. CASE Finished \/ UNCHANGED vars
  BY <1>7 DEF Finished, vars
<1> QED
  BY <1>1, <1>2, <1>3, <1>4, <1>5, <1>6, <1>7 DEF Next

\* Children are found, reserved and pushed by the worker that holds their parent.
LEMMA HandoffStep ==
  TypeOK /\ OneHeld /\ Handoff /\ Fresh /\ NotStarted /\ [Next]_vars => Handoff'
<1> SUFFICES ASSUME TypeOK, OneHeld, Handoff, Fresh, NotStarted, [Next]_vars PROVE Handoff'
  OBVIOUS
<1> USE ConstantsAssumption, TreeAssumption
   DEF ConstantsAssumption, TreeAssumption, OneHeld, Handoff, Fresh, NotStarted, Phases,
      Steps, Places, Holds, Goto, Move, TypeOK
<1>1. ASSUME NEW w \in Worker, Computation(w) PROVE Handoff'
  <2>1. CASE LeaveClosed(w)
    BY <2>1 DEF LeaveClosed
  <2>2. CASE GoShared(w)
    BY <2>2 DEF GoShared
  <2>3. CASE LeaveParked(w)
    BY <2>3 DEF LeaveParked
  <2>4. CASE After(w)
    BY <2>4 DEF After
  <2>5. ASSUME NEW d \in Dir, PopLocal(w, d) PROVE Handoff'
    BY <2>5 DEF PopLocal, Having
  <2>6. ASSUME NEW d \in Dir, PopShared(w, d) PROVE Handoff'
    BY <2>6 DEF PopShared, Deque
  <2>7. ASSUME NEW d \in Dir, Discard(w, d) PROVE Handoff'
    BY <2>7 DEF Discard, CompleteDir
  <2>8. ASSUME NEW d \in Dir, Dispatch(w, d) PROVE Handoff'
    BY <2>8 DEF Dispatch
  <2>9. ASSUME NEW d \in Dir, CheckStop(w, d) PROVE Handoff'
    BY <2>9 DEF CheckStop
  <2>10. ASSUME NEW d \in Dir, Flush(w, d) PROVE Handoff'
    BY <2>10 DEF Flush, Having
  <2>11. ASSUME NEW d \in Dir, Reserve(w, d) PROVE Handoff'
    BY <2>11 DEF Reserve, Having
  <2>12. ASSUME NEW d \in Dir, Push(w, d) PROVE Handoff'
    BY <2>12 DEF Push, Having
  <2>13. ASSUME NEW d \in Dir, Complete(w, d) PROVE Handoff'
    <3>1. /\ Holds(w, d) /\ pc[w] = "complete" /\ pc' = [pc EXCEPT ![w] = "after"]
          /\ Move({d}, "done", NoWorker)
      BY <2>13 DEF Complete, CompleteDir
    <3>2. \A c \in Dir : at[c] \in {"found", "reserved"} => by[c] # w
      BY <3>1
    <3>3. \A c \in Dir : at'[c] \in {"found", "reserved"} => at'[c] = at[c] /\ by'[c] = by[c]
      BY <3>1
    <3>4. \A v \in Worker, e \in Dir : v # w /\ Holds(v, e) => Holds(v, e)' /\ pc'[v] = pc[v]
      BY <3>1
    <3> HIDE DEF Holds, Move, TypeOK, OneHeld
    <3> QED
      BY <3>2, <3>3, <3>4
  <2> QED
    BY <1>1, <2>1, <2>2, <2>3, <2>4, <2>5, <2>6, <2>7, <2>8, <2>9, <2>10, <2>11, <2>12, <2>13
       DEF Computation
<1>2. ASSUME NEW w \in Worker, NEW d \in Dir, Syscall(w, d) PROVE Handoff'
  <2>1. CASE OpenOK(w, d)
    BY <2>1 DEF OpenOK
  <2>2. CASE OpenVanished(w, d)
    BY <2>2 DEF OpenVanished
  <2>3. CASE OpenFails(w, d)
    BY <2>3 DEF OpenFails
  <2>4. CASE ReadBatch(w, d)
    <3>1. PICK new \in SUBSET (Contents[d] \cap Dir) :
            /\ Move(new, "found", w)
            /\ \A c \in new : at[c] = "unseen" /\ c \in listed'[w]
            /\ \A v \in Worker : listed[v] \subseteq listed'[v]
      BY <2>4, FoundChildren
    <3>2. Holds(w, d) /\ pc[w] = "read" /\ pc' = [pc EXCEPT ![w] = "check"]
      BY <2>4 DEF ReadBatch
    <3> QED
      BY <3>1, <3>2
  <2>5. CASE EndOfDir(w, d)
    BY <2>5 DEF EndOfDir
  <2>6. CASE ReadFails(w, d)
    BY <2>6 DEF ReadFails
  <2>7. CASE LimiterStops(w, d)
    BY <2>7 DEF LimiterStops
  <2> QED
    BY <1>2, <2>1, <2>2, <2>3, <2>4, <2>5, <2>6, <2>7 DEF Syscall
<1>3. ASSUME NEW t \in Target, StartTarget(t) \/ Probe(t) \/ Supervise(t) PROVE Handoff'
  <2>1. CASE StartTarget(t)
    BY <2>1 DEF StartTarget
  <2>2. CASE ProbeOK(t)
    <3>1. at[Root[t]] = "unseen"
      BY <2>2 DEF ProbeOK
    <3> QED
      BY <2>2, <3>1 DEF ProbeOK
  <2>3. CASE ProbeRefused(t)
    BY <2>3 DEF ProbeRefused
  <2>4. CASE WalkDone(t)
    BY <2>4 DEF WalkDone
  <2>5. CASE DeadlineSeen(t)
    BY <2>5 DEF DeadlineSeen
  <2>6. CASE GiveUp(t)
    BY <2>6 DEF GiveUp, Abandon
  <2>7. CASE Decide(t)
    BY <2>7 DEF Decide, AskRoot, AskScan, AskTotals, Conclude, GoOn
  <2>8. CASE Report(t)
    BY <2>8 DEF Report
  <2> QED
    BY <1>3, <2>1, <2>2, <2>3, <2>4, <2>5, <2>6, <2>7, <2>8 DEF Probe, Supervise
<1>4. CASE ClosePool
  BY <1>4 DEF ClosePool, Deque
<1>5. CASE DrainDone \/ DrainTimer
  BY <1>5 DEF DrainDone, DrainTimer
<1>6. CASE Environment
  BY <1>6 DEF Environment, Expire, Shutdown, Vanish
<1>7. CASE Finished \/ UNCHANGED vars
  BY <1>7 DEF Finished, vars
<1> QED
  BY <1>1, <1>2, <1>3, <1>4, <1>5, <1>6, <1>7 DEF Next

\* References are made only by listing a directory or accepting a root.
LEMMA FreshStep == TypeOK /\ OneHeld /\ Handoff /\ Fresh /\ NotStarted /\ [Next]_vars => Fresh'
<1> SUFFICES ASSUME TypeOK, OneHeld, Handoff, Fresh, NotStarted, [Next]_vars PROVE Fresh'
  OBVIOUS
<1> USE ConstantsAssumption, TreeAssumption
   DEF ConstantsAssumption, TreeAssumption, OneHeld, Handoff, Fresh, NotStarted, Phases,
      Steps, Places, Holds, Goto, Move, TypeOK
<1>1. ASSUME NEW w \in Worker, Computation(w) PROVE Fresh'
  <2>1. CASE LeaveClosed(w)
    BY <2>1 DEF LeaveClosed
  <2>2. CASE GoShared(w)
    BY <2>2 DEF GoShared
  <2>3. CASE LeaveParked(w)
    BY <2>3 DEF LeaveParked
  <2>4. CASE After(w)
    BY <2>4 DEF After
  <2>5. ASSUME NEW d \in Dir, PopLocal(w, d) PROVE Fresh'
    BY <2>5 DEF PopLocal, Having
  <2>6. ASSUME NEW d \in Dir, PopShared(w, d) PROVE Fresh'
    BY <2>6 DEF PopShared, Deque
  <2>7. ASSUME NEW d \in Dir, Discard(w, d) PROVE Fresh'
    BY <2>7 DEF Discard, CompleteDir
  <2>8. ASSUME NEW d \in Dir, Dispatch(w, d) PROVE Fresh'
    BY <2>8 DEF Dispatch
  <2>9. ASSUME NEW d \in Dir, CheckStop(w, d) PROVE Fresh'
    BY <2>9 DEF CheckStop
  <2>10. ASSUME NEW d \in Dir, Flush(w, d) PROVE Fresh'
    BY <2>10 DEF Flush, Having
  <2>11. ASSUME NEW d \in Dir, Reserve(w, d) PROVE Fresh'
    BY <2>11 DEF Reserve, Having
  <2>12. ASSUME NEW d \in Dir, Push(w, d) PROVE Fresh'
    BY <2>12 DEF Push, Having
  <2>13. ASSUME NEW d \in Dir, Complete(w, d) PROVE Fresh'
    BY <2>13 DEF Complete, CompleteDir
  <2> QED
    BY <1>1, <2>1, <2>2, <2>3, <2>4, <2>5, <2>6, <2>7, <2>8, <2>9, <2>10, <2>11, <2>12, <2>13
       DEF Computation
<1>2. ASSUME NEW w \in Worker, NEW d \in Dir, Syscall(w, d) PROVE Fresh'
  <2>1. CASE OpenOK(w, d)
    BY <2>1 DEF OpenOK
  <2>2. CASE OpenVanished(w, d)
    BY <2>2 DEF OpenVanished
  <2>3. CASE OpenFails(w, d)
    BY <2>3 DEF OpenFails
  <2>4. CASE ReadBatch(w, d)
    <3>1. PICK new \in SUBSET (Contents[d] \cap Dir) :
            /\ Move(new, "found", w)
            /\ \A c \in new : at[c] = "unseen" /\ c \in listed'[w]
            /\ \A v \in Worker : listed[v] \subseteq listed'[v]
      BY <2>4, FoundChildren
    <3>2. Holds(w, d) /\ pc[w] = "read" /\ pc' = [pc EXCEPT ![w] = "check"]
      BY <2>4 DEF ReadBatch
    <3> QED
      BY <3>1, <3>2
  <2>5. CASE EndOfDir(w, d)
    BY <2>5 DEF EndOfDir
  <2>6. CASE ReadFails(w, d)
    BY <2>6 DEF ReadFails
  <2>7. CASE LimiterStops(w, d)
    BY <2>7 DEF LimiterStops
  <2> QED
    BY <1>2, <2>1, <2>2, <2>3, <2>4, <2>5, <2>6, <2>7 DEF Syscall
<1>3. ASSUME NEW t \in Target, StartTarget(t) \/ Probe(t) \/ Supervise(t) PROVE Fresh'
  <2>1. CASE StartTarget(t)
    BY <2>1 DEF StartTarget
  <2>2. CASE ProbeOK(t)
    BY <2>2 DEF ProbeOK
  <2>3. CASE ProbeRefused(t)
    BY <2>3 DEF ProbeRefused
  <2>4. CASE WalkDone(t)
    BY <2>4 DEF WalkDone
  <2>5. CASE DeadlineSeen(t)
    BY <2>5 DEF DeadlineSeen
  <2>6. CASE GiveUp(t)
    BY <2>6 DEF GiveUp, Abandon
  <2>7. CASE Decide(t)
    BY <2>7 DEF Decide, AskRoot, AskScan, AskTotals, Conclude, GoOn
  <2>8. CASE Report(t)
    BY <2>8 DEF Report
  <2> QED
    BY <1>3, <2>1, <2>2, <2>3, <2>4, <2>5, <2>6, <2>7, <2>8 DEF Probe, Supervise
<1>4. CASE ClosePool
  BY <1>4 DEF ClosePool, Deque
<1>5. CASE DrainDone \/ DrainTimer
  BY <1>5 DEF DrainDone, DrainTimer
<1>6. CASE Environment
  BY <1>6 DEF Environment, Expire, Shutdown, Vanish
<1>7. CASE Finished \/ UNCHANGED vars
  BY <1>7 DEF Finished, vars
<1> QED
  BY <1>1, <1>2, <1>3, <1>4, <1>5, <1>6, <1>7 DEF Next

\* A target whose root is not accepted yet stays out of the pool.
LEMMA NotStartedStep == TypeOK /\ Handoff /\ Fresh /\ NotStarted /\ [Next]_vars => NotStarted'
<1> SUFFICES ASSUME TypeOK, Handoff, Fresh, NotStarted, [Next]_vars PROVE NotStarted'
  OBVIOUS
<1> USE ConstantsAssumption, TreeAssumption
   DEF ConstantsAssumption, TreeAssumption, Handoff, Fresh, NotStarted, Phases, Steps,
      Places, Holds, Goto, Move, TypeOK
<1>1. ASSUME NEW w \in Worker, Computation(w) PROVE NotStarted'
  <2>1. CASE LeaveClosed(w)
    BY <2>1 DEF LeaveClosed
  <2>2. CASE GoShared(w)
    BY <2>2 DEF GoShared
  <2>3. CASE LeaveParked(w)
    BY <2>3 DEF LeaveParked
  <2>4. CASE After(w)
    BY <2>4 DEF After
  <2>5. ASSUME NEW d \in Dir, PopLocal(w, d) PROVE NotStarted'
    BY <2>5 DEF PopLocal, Having
  <2>6. ASSUME NEW d \in Dir, PopShared(w, d) PROVE NotStarted'
    BY <2>6 DEF PopShared, Deque
  <2>7. ASSUME NEW d \in Dir, Discard(w, d) PROVE NotStarted'
    BY <2>7 DEF Discard, CompleteDir
  <2>8. ASSUME NEW d \in Dir, Dispatch(w, d) PROVE NotStarted'
    BY <2>8 DEF Dispatch
  <2>9. ASSUME NEW d \in Dir, CheckStop(w, d) PROVE NotStarted'
    BY <2>9 DEF CheckStop
  <2>10. ASSUME NEW d \in Dir, Flush(w, d) PROVE NotStarted'
    BY <2>10 DEF Flush, Having
  <2>11. ASSUME NEW d \in Dir, Reserve(w, d) PROVE NotStarted'
    BY <2>11 DEF Reserve, Having
  <2>12. ASSUME NEW d \in Dir, Push(w, d) PROVE NotStarted'
    BY <2>12 DEF Push, Having
  <2>13. ASSUME NEW d \in Dir, Complete(w, d) PROVE NotStarted'
    BY <2>13 DEF Complete, CompleteDir
  <2> QED
    BY <1>1, <2>1, <2>2, <2>3, <2>4, <2>5, <2>6, <2>7, <2>8, <2>9, <2>10, <2>11, <2>12, <2>13
       DEF Computation
<1>2. ASSUME NEW w \in Worker, NEW d \in Dir, Syscall(w, d) PROVE NotStarted'
  <2>1. CASE OpenOK(w, d)
    BY <2>1 DEF OpenOK
  <2>2. CASE OpenVanished(w, d)
    BY <2>2 DEF OpenVanished
  <2>3. CASE OpenFails(w, d)
    BY <2>3 DEF OpenFails
  <2>4. CASE ReadBatch(w, d)
    BY <2>4 DEF ReadBatch
  <2>5. CASE EndOfDir(w, d)
    BY <2>5 DEF EndOfDir
  <2>6. CASE ReadFails(w, d)
    BY <2>6 DEF ReadFails
  <2>7. CASE LimiterStops(w, d)
    BY <2>7 DEF LimiterStops
  <2> QED
    BY <1>2, <2>1, <2>2, <2>3, <2>4, <2>5, <2>6, <2>7 DEF Syscall
<1>3. ASSUME NEW t \in Target, StartTarget(t) \/ Probe(t) \/ Supervise(t) PROVE NotStarted'
  <2>1. CASE StartTarget(t)
    BY <2>1 DEF StartTarget
  <2>2. CASE ProbeOK(t)
    BY <2>2 DEF ProbeOK
  <2>3. CASE ProbeRefused(t)
    BY <2>3 DEF ProbeRefused
  <2>4. CASE WalkDone(t)
    BY <2>4 DEF WalkDone
  <2>5. CASE DeadlineSeen(t)
    BY <2>5 DEF DeadlineSeen
  <2>6. CASE GiveUp(t)
    BY <2>6 DEF GiveUp, Abandon
  <2>7. CASE Decide(t)
    BY <2>7 DEF Decide, AskRoot, AskScan, AskTotals, Conclude, GoOn
  <2>8. CASE Report(t)
    BY <2>8 DEF Report
  <2> QED
    BY <1>3, <2>1, <2>2, <2>3, <2>4, <2>5, <2>6, <2>7, <2>8 DEF Probe, Supervise
<1>4. CASE ClosePool
  BY <1>4 DEF ClosePool, Deque
<1>5. CASE DrainDone \/ DrainTimer
  BY <1>5 DEF DrainDone, DrainTimer
<1>6. CASE Environment
  BY <1>6 DEF Environment, Expire, Shutdown, Vanish
<1>7. CASE Finished \/ UNCHANGED vars
  BY <1>7 DEF Finished, vars
<1> QED
  BY <1>1, <1>2, <1>3, <1>4, <1>5, <1>6, <1>7 DEF Next


\* What one step does to the latch of target t: nothing to the count (and the
\* latch is released only by abandoning t), one directory completed, or some
\* directories reserved while the count is not zero or before it was first raised.
Unmoved(t) ==
    /\ Outstanding(t)' = Outstanding(t)
    /\ pending'[t] = pending[t]
    /\ \/ latch'[t] = latch[t] /\ abandoned'[t] = abandoned[t]
       \/ abandoned'[t]

Completed(t) ==
    /\ \E d \in Outstanding(t) : Outstanding(t)' = Outstanding(t) \ {d}
    /\ pending'[t] = pending[t] - 1
    /\ latch'[t] = (latch[t] \/ pending[t] = 1) /\ abandoned'[t] = abandoned[t]

Enlarged(t) ==
    /\ \E new \in SUBSET Dir :
        /\ new \cap Outstanding(t) = {}
        /\ Outstanding(t)' = Outstanding(t) \cup new
        /\ pending'[t] = pending[t] + Cardinality(new)
    /\ latch'[t] = latch[t] /\ abandoned'[t] = abandoned[t]
    /\ Outstanding(t) # {} \/ ~latch[t]

Accounted == \A t \in Target : Unmoved(t) \/ Completed(t) \/ Enlarged(t)

\* Every step moves references without changing a latch count, completes one
\* directory, or reserves children while their parent is still counted.
LEMMA AccountStep == TypeOK /\ Whereabouts /\ [Next]_vars => Accounted
<1> SUFFICES ASSUME TypeOK, Whereabouts, [Next]_vars PROVE Accounted
  OBVIOUS
<1> USE ConstantsAssumption
   DEF Outstanding, Unmoved, Accounted, Steps, Places, Holds, Goto, Move, TypeOK
<1>1. ASSUME NEW w \in Worker, Computation(w) PROVE Accounted
  <2>1. CASE LeaveClosed(w)
    BY <2>1 DEF LeaveClosed
  <2>2. CASE GoShared(w)
    BY <2>2 DEF GoShared
  <2>3. CASE LeaveParked(w)
    BY <2>3 DEF LeaveParked
  <2>4. CASE After(w)
    BY <2>4 DEF After
  <2>5. ASSUME NEW d \in Dir, PopLocal(w, d) PROVE Accounted
    BY <2>5 DEF PopLocal, Having
  <2>6. ASSUME NEW d \in Dir, PopShared(w, d) PROVE Accounted
    BY <2>6 DEF PopShared, Deque
  <2>7. ASSUME NEW d \in Dir, Discard(w, d) PROVE Accounted
    <3>1. d \in Outstanding(Owner[d]) /\ Owner[d] \in Target
      BY <2>7 DEF Discard, ConstantsAssumption
    <3>2. Completed(Owner[d])
      <4>1. Outstanding(Owner[d])' = Outstanding(Owner[d]) \ {d}
        BY <2>7, <3>1 DEF Discard, CompleteDir
      <4>2. pending'[Owner[d]] = pending[Owner[d]] - 1
        BY <2>7, <3>1 DEF Discard, CompleteDir
      <4>3. /\ latch'[Owner[d]] = (latch[Owner[d]] \/ pending[Owner[d]] = 1)
            /\ abandoned'[Owner[d]] = abandoned[Owner[d]]
        BY <2>7, <3>1 DEF Discard, CompleteDir, LastOne
      <4> HIDE DEF TypeOK, Outstanding
      <4> QED
        BY <3>1, <4>1, <4>2, <4>3 DEF Completed
    <3>3. \A u \in Target \ {Owner[d]} : Unmoved(u)
      BY <2>7 DEF Discard, CompleteDir
    <3> QED
      BY <3>2, <3>3
  <2>8. ASSUME NEW d \in Dir, Dispatch(w, d) PROVE Accounted
    BY <2>8 DEF Dispatch
  <2>9. ASSUME NEW d \in Dir, CheckStop(w, d) PROVE Accounted
    BY <2>9 DEF CheckStop
  <2>10. ASSUME NEW d \in Dir, Flush(w, d) PROVE Accounted
    BY <2>10 DEF Flush, Having
  <2>11. ASSUME NEW d \in Dir, Reserve(w, d) PROVE Accounted
    <3> DEFINE t == Owner[d]
               children == Having(w, "found")
    <3>1. d \in Outstanding(t) /\ t \in Target
      BY <2>11 DEF Reserve, ConstantsAssumption
    <3>2. \A c \in children : Owner[c] = t
      BY <2>11 DEF Reserve, Having, Whereabouts, Handoff, OneHeld, ConstantsAssumption
    <3>3. /\ children \in SUBSET Dir
          /\ children \cap Outstanding(t) = {}
          /\ Outstanding(t)' = Outstanding(t) \cup children
      BY <2>11, <3>2 DEF Reserve, Having
    <3>4. pending'[t] = pending[t] + Cardinality(children) /\ UNCHANGED <<latch, abandoned>>
      BY <2>11, <3>1 DEF Reserve, Reservation
    <3>5. Enlarged(t)
      BY <3>1, <3>3, <3>4 DEF Enlarged
    <3>6. \A u \in Target \ {t} : Unmoved(u)
      BY <2>11, <3>2 DEF Reserve, Having
    <3> QED
      BY <3>5, <3>6
  <2>12. ASSUME NEW d \in Dir, Push(w, d) PROVE Accounted
    BY <2>12 DEF Push, Having
  <2>13. ASSUME NEW d \in Dir, Complete(w, d) PROVE Accounted
    <3>1. d \in Outstanding(Owner[d]) /\ Owner[d] \in Target
      BY <2>13 DEF Complete, ConstantsAssumption
    <3>2. Completed(Owner[d])
      <4>1. Outstanding(Owner[d])' = Outstanding(Owner[d]) \ {d}
        BY <2>13, <3>1 DEF Complete, CompleteDir
      <4>2. pending'[Owner[d]] = pending[Owner[d]] - 1
        BY <2>13, <3>1 DEF Complete, CompleteDir
      <4>3. /\ latch'[Owner[d]] = (latch[Owner[d]] \/ pending[Owner[d]] = 1)
            /\ abandoned'[Owner[d]] = abandoned[Owner[d]]
        BY <2>13, <3>1 DEF Complete, CompleteDir, LastOne
      <4> HIDE DEF TypeOK, Outstanding
      <4> QED
        BY <3>1, <4>1, <4>2, <4>3 DEF Completed
    <3>3. \A u \in Target \ {Owner[d]} : Unmoved(u)
      BY <2>13 DEF Complete, CompleteDir
    <3> QED
      BY <3>2, <3>3
  <2> QED
    BY <1>1, <2>1, <2>2, <2>3, <2>4, <2>5, <2>6, <2>7, <2>8, <2>9, <2>10, <2>11, <2>12, <2>13
       DEF Computation
<1>2. ASSUME NEW w \in Worker, NEW d \in Dir, Syscall(w, d) PROVE Accounted
  <2>1. CASE OpenOK(w, d)
    BY <2>1 DEF OpenOK
  <2>2. CASE OpenVanished(w, d)
    BY <2>2 DEF OpenVanished
  <2>3. CASE OpenFails(w, d)
    BY <2>3 DEF OpenFails
  <2>4. CASE ReadBatch(w, d)
    <3>0. Fresh
      BY DEF Whereabouts
    <3>1. PICK new \in SUBSET (Contents[d] \cap Dir) :
            /\ Move(new, "found", w)
            /\ \A c \in new : at[c] = "unseen" /\ c \in listed'[w]
            /\ \A v \in Worker : listed[v] \subseteq listed'[v]
      <4> HIDE DEF TypeOK, Move
      <4> QED
        BY <2>4, <3>0, FoundChildren
    <3> QED
      BY <2>4, <3>1 DEF ReadBatch
  <2>5. CASE EndOfDir(w, d)
    BY <2>5 DEF EndOfDir
  <2>6. CASE ReadFails(w, d)
    BY <2>6 DEF ReadFails
  <2>7. CASE LimiterStops(w, d)
    BY <2>7 DEF LimiterStops
  <2> QED
    BY <1>2, <2>1, <2>2, <2>3, <2>4, <2>5, <2>6, <2>7 DEF Syscall
<1>3. ASSUME NEW t \in Target, StartTarget(t) \/ Probe(t) \/ Supervise(t) PROVE Accounted
  <2>1. CASE StartTarget(t)
    BY <2>1 DEF StartTarget
  <2>2. CASE ProbeOK(t)
    <3>1. at[Root[t]] = "unseen" /\ ~latch[t] /\ Root[t] \in Dir /\ Owner[Root[t]] = t
      BY <2>2 DEF ProbeOK, Whereabouts, NotStarted, ConstantsAssumption
    <3>2. /\ {Root[t]} \cap Outstanding(t) = {}
          /\ Outstanding(t)' = Outstanding(t) \cup {Root[t]}
      BY <2>2, <3>1 DEF ProbeOK
    <3>3. Cardinality({Root[t]}) = 1
      BY FS_Singleton
    <3>4. pending'[t] = pending[t] + Cardinality({Root[t]}) /\ UNCHANGED <<latch, abandoned>>
      BY <2>2, <3>3 DEF ProbeOK
    <3>5. Enlarged(t)
      BY <3>1, <3>2, <3>4 DEF Enlarged
    <3>6. \A u \in Target \ {t} : Unmoved(u)
      BY <2>2, <3>1 DEF ProbeOK
    <3> QED
      BY <3>5, <3>6
  <2>3. CASE ProbeRefused(t)
    BY <2>3 DEF ProbeRefused
  <2>4. CASE WalkDone(t)
    BY <2>4 DEF WalkDone
  <2>5. CASE DeadlineSeen(t)
    BY <2>5 DEF DeadlineSeen
  <2>6. CASE GiveUp(t)
    BY <2>6 DEF GiveUp, Abandon
  <2>7. CASE Decide(t)
    BY <2>7 DEF Decide, AskRoot, AskScan, AskTotals, Conclude, GoOn
  <2>8. CASE Report(t)
    BY <2>8 DEF Report
  <2> QED
    BY <1>3, <2>1, <2>2, <2>3, <2>4, <2>5, <2>6, <2>7, <2>8 DEF Probe, Supervise
<1>4. CASE ClosePool
  BY <1>4 DEF ClosePool, Deque
<1>5. CASE DrainDone \/ DrainTimer
  BY <1>5 DEF DrainDone, DrainTimer
<1>6. CASE Environment
  BY <1>6 DEF Environment, Expire, Shutdown, Vanish
<1>7. CASE Finished \/ UNCHANGED vars
  BY <1>7 DEF Finished, vars
<1> QED
  BY <1>1, <1>2, <1>3, <1>4, <1>5, <1>6, <1>7 DEF Next

\* The latch count stays exact and the latch stays honest over any such step.
LEMMA LatchStep ==
  ASSUME TypeOK, Whereabouts, LatchHonest, LatchMeansDone, [Next]_vars
  PROVE  LatchHonest' /\ LatchMeansDone'
<1> SUFFICES ASSUME NEW t \in Target
             PROVE  /\ pending'[t] = Cardinality(Outstanding(t)')
                    /\ latch'[t] /\ ~abandoned'[t] => Outstanding(t)' = {}
  BY DEF LatchHonest, LatchMeansDone, Outstanding
<1>1. Unmoved(t) \/ Completed(t) \/ Enlarged(t)
  BY AccountStep DEF Accounted
<1>2. /\ Outstanding(t) \in SUBSET Dir
      /\ IsFiniteSet(Outstanding(t)) /\ Cardinality(Outstanding(t)) \in Nat
      /\ pending[t] = Cardinality(Outstanding(t))
      /\ latch[t] /\ ~abandoned[t] => Outstanding(t) = {}
  BY DirsFinite DEF Outstanding, LatchHonest, LatchMeansDone
<1>3. CASE Unmoved(t)
  BY <1>2, <1>3 DEF Unmoved
<1>4. CASE Completed(t)
  <2>1. PICK d \in Outstanding(t) : Outstanding(t)' = Outstanding(t) \ {d}
    BY <1>4 DEF Completed
  <2>2. Cardinality(Outstanding(t) \ {d}) = Cardinality(Outstanding(t)) - 1
    BY <1>2, <2>1, FS_RemoveElement
  <2>3. pending'[t] = Cardinality(Outstanding(t)')
    BY <1>2, <1>4, <2>1, <2>2 DEF Completed
  <2>4. ASSUME pending[t] = 1 PROVE Outstanding(t)' = {}
    <3>1. IsFiniteSet(Outstanding(t) \ {d}) /\ Cardinality(Outstanding(t) \ {d}) = 0
      BY <1>2, <2>1, <2>2, <2>4, FS_RemoveElement
    <3> QED
      BY <2>1, <3>1, FS_EmptySet
  <2> QED
    BY <1>2, <1>4, <2>1, <2>3, <2>4 DEF Completed
<1>5. CASE Enlarged(t)
  <2>1. PICK new \in SUBSET Dir :
          /\ new \cap Outstanding(t) = {}
          /\ Outstanding(t)' = Outstanding(t) \cup new
          /\ pending'[t] = pending[t] + Cardinality(new)
    BY <1>5 DEF Enlarged
  <2>2. Cardinality(Outstanding(t) \cup new) = Cardinality(Outstanding(t)) + Cardinality(new)
    <3>1. IsFiniteSet(new) /\ Cardinality(new) \in Nat
      BY DirsFinite
    <3>2. Cardinality(Outstanding(t) \cup new) =
            Cardinality(Outstanding(t)) + Cardinality(new) - Cardinality(Outstanding(t) \cap new)
      BY <1>2, <3>1, FS_Union
    <3>3. Outstanding(t) \cap new = {}
      BY <2>1
    <3> QED
      <4>1. Cardinality(Outstanding(t) \cap new) = 0
        BY <3>3, FS_EmptySet
      <4> QED
        BY <1>2, <3>1, <3>2, <4>1
  <2>3. Outstanding(t) # {} \/ ~latch[t]
    BY <1>5 DEF Enlarged
  <2> QED
    BY <1>2, <1>5, <2>1, <2>2, <2>3 DEF Enlarged
<1> QED
  BY <1>1, <1>3, <1>4, <1>5

\* A supervisor decides once, and only with the latch of its target closed.
LEMMA SupervisedStep == TypeOK /\ Supervised /\ [Next]_vars => Supervised'
<1> SUFFICES ASSUME TypeOK, Supervised, [Next]_vars PROVE Supervised'
  OBVIOUS
<1> USE ConstantsAssumption DEF Supervised, TypeOK, Phases, Deciding, Outcomes, Move
<1>1. ASSUME NEW w \in Worker, Computation(w) PROVE Supervised'
  <2>1. CASE LeaveClosed(w)
    BY <2>1 DEF LeaveClosed
  <2>2. CASE GoShared(w)
    BY <2>2 DEF GoShared
  <2>3. CASE LeaveParked(w)
    BY <2>3 DEF LeaveParked
  <2>4. CASE After(w)
    BY <2>4 DEF After
  <2>5. ASSUME NEW d \in Dir, PopLocal(w, d) PROVE Supervised'
    BY <2>5 DEF PopLocal
  <2>6. ASSUME NEW d \in Dir, PopShared(w, d) PROVE Supervised'
    BY <2>6 DEF PopShared
  <2>7. ASSUME NEW d \in Dir, Discard(w, d) PROVE Supervised'
    BY <2>7 DEF Discard, CompleteDir, LastOne
  <2>8. ASSUME NEW d \in Dir, Dispatch(w, d) PROVE Supervised'
    BY <2>8 DEF Dispatch
  <2>9. ASSUME NEW d \in Dir, CheckStop(w, d) PROVE Supervised'
    BY <2>9 DEF CheckStop
  <2>10. ASSUME NEW d \in Dir, Flush(w, d) PROVE Supervised'
    BY <2>10 DEF Flush
  <2>11. ASSUME NEW d \in Dir, Reserve(w, d) PROVE Supervised'
    BY <2>11 DEF Reserve
  <2>12. ASSUME NEW d \in Dir, Push(w, d) PROVE Supervised'
    BY <2>12 DEF Push
  <2>13. ASSUME NEW d \in Dir, Complete(w, d) PROVE Supervised'
    BY <2>13 DEF Complete, CompleteDir, LastOne
  <2> QED
    BY <1>1, <2>1, <2>2, <2>3, <2>4, <2>5, <2>6, <2>7, <2>8, <2>9, <2>10, <2>11, <2>12, <2>13
       DEF Computation
<1>2. ASSUME NEW w \in Worker, NEW d \in Dir, Syscall(w, d) PROVE Supervised'
  <2>1. CASE OpenOK(w, d)
    BY <2>1 DEF OpenOK
  <2>2. CASE OpenVanished(w, d)
    BY <2>2 DEF OpenVanished
  <2>3. CASE OpenFails(w, d)
    BY <2>3 DEF OpenFails
  <2>4. CASE ReadBatch(w, d)
    BY <2>4 DEF ReadBatch
  <2>5. CASE EndOfDir(w, d)
    BY <2>5 DEF EndOfDir
  <2>6. CASE ReadFails(w, d)
    BY <2>6 DEF ReadFails
  <2>7. CASE LimiterStops(w, d)
    BY <2>7 DEF LimiterStops
  <2> QED
    BY <1>2, <2>1, <2>2, <2>3, <2>4, <2>5, <2>6, <2>7 DEF Syscall
<1>3. ASSUME NEW t \in Target, StartTarget(t) \/ Probe(t) \/ Supervise(t) PROVE Supervised'
  <2>1. CASE StartTarget(t)
    BY <2>1 DEF StartTarget
  <2>2. CASE ProbeOK(t)
    BY <2>2 DEF ProbeOK
  <2>3. CASE ProbeRefused(t)
    BY <2>3 DEF ProbeRefused
  <2>4. CASE WalkDone(t)
    BY <2>4 DEF WalkDone
  <2>5. CASE DeadlineSeen(t)
    BY <2>5 DEF DeadlineSeen
  <2>6. CASE GiveUp(t)
    BY <2>6 DEF GiveUp, Abandon
  <2>7. CASE Decide(t)
    BY <2>7 DEF Decide, AskRoot, AskScan, AskTotals, OutOfTime, Conclude, GoOn
  <2>8. CASE Report(t)
    BY <2>8 DEF Report
  <2> QED
    BY <1>3, <2>1, <2>2, <2>3, <2>4, <2>5, <2>6, <2>7, <2>8 DEF Probe, Supervise
<1>4. CASE ClosePool
  BY <1>4 DEF ClosePool, Deque
<1>5. CASE DrainDone \/ DrainTimer
  BY <1>5 DEF DrainDone, DrainTimer
<1>6. CASE Environment
  BY <1>6 DEF Environment, Expire, Shutdown, Vanish
<1>7. CASE Finished \/ UNCHANGED vars
  BY <1>7 DEF Finished, vars
<1> QED
  BY <1>1, <1>2, <1>3, <1>4, <1>5, <1>6, <1>7 DEF Next

\* Nobody holds a directory of target t.
Quiet(t) == \A d \in Dir : Owner[d] = t => at[d] # "held"

Frozen == \A t \in Target : outcome[t] = "complete" =>
             counted'[t] = counted[t] /\ faulty'[t] = faulty[t]

\* Totals change only under a worker that holds a directory of the target.
LEMMA FrozenStep ==
  TypeOK /\ Whereabouts /\ Supervised /\ LatchMeansDone /\ [Next]_vars => Frozen
<1> SUFFICES ASSUME TypeOK, Whereabouts, Supervised, LatchMeansDone, [Next]_vars PROVE Frozen
  OBVIOUS
<1>0. \A t \in Target : outcome[t] = "complete" => Quiet(t)
  BY DEF Supervised, LatchMeansDone, Outstanding, Quiet, TypeOK
<1> USE <1>0, ConstantsAssumption DEF Frozen, Quiet, TypeOK, Holds, ConstantsAssumption
<1>1. ASSUME NEW w \in Worker, Computation(w) PROVE Frozen
  <2>1. CASE LeaveClosed(w)
    BY <2>1 DEF LeaveClosed
  <2>2. CASE GoShared(w)
    BY <2>2 DEF GoShared
  <2>3. CASE LeaveParked(w)
    BY <2>3 DEF LeaveParked
  <2>4. CASE After(w)
    BY <2>4 DEF After
  <2>5. ASSUME NEW d \in Dir, PopLocal(w, d) PROVE Frozen
    BY <2>5 DEF PopLocal
  <2>6. ASSUME NEW d \in Dir, PopShared(w, d) PROVE Frozen
    BY <2>6 DEF PopShared
  <2>7. ASSUME NEW d \in Dir, Discard(w, d) PROVE Frozen
    BY <2>7 DEF Discard, CompleteDir, LastOne
  <2>8. ASSUME NEW d \in Dir, Dispatch(w, d) PROVE Frozen
    BY <2>8 DEF Dispatch
  <2>9. ASSUME NEW d \in Dir, CheckStop(w, d) PROVE Frozen
    BY <2>9 DEF CheckStop
  <2>10. ASSUME NEW d \in Dir, Flush(w, d) PROVE Frozen
    BY <2>10 DEF Flush
  <2>11. ASSUME NEW d \in Dir, Reserve(w, d) PROVE Frozen
    BY <2>11 DEF Reserve
  <2>12. ASSUME NEW d \in Dir, Push(w, d) PROVE Frozen
    BY <2>12 DEF Push
  <2>13. ASSUME NEW d \in Dir, Complete(w, d) PROVE Frozen
    BY <2>13 DEF Complete, CompleteDir, LastOne
  <2> QED
    BY <1>1, <2>1, <2>2, <2>3, <2>4, <2>5, <2>6, <2>7, <2>8, <2>9, <2>10, <2>11, <2>12, <2>13
       DEF Computation
<1>2. ASSUME NEW w \in Worker, NEW d \in Dir, Syscall(w, d) PROVE Frozen
  <2>1. CASE OpenOK(w, d)
    BY <2>1 DEF OpenOK
  <2>2. CASE OpenVanished(w, d)
    BY <2>2 DEF OpenVanished
  <2>3. CASE OpenFails(w, d)
    <3>1. outcome[Owner[d]] # "complete" /\ Owner[d] \in Target
      BY <2>3 DEF OpenFails
    <3>2. \A u \in Target : u # Owner[d] => faulty'[u] = faulty[u] /\ counted'[u] = counted[u]
      BY <2>3 DEF OpenFails
    <3> QED
      BY <3>1, <3>2
  <2>4. CASE ReadBatch(w, d)
    BY <2>4 DEF ReadBatch
  <2>5. CASE EndOfDir(w, d)
    BY <2>5 DEF EndOfDir
  <2>6. CASE ReadFails(w, d)
    BY <2>6 DEF ReadFails
  <2>7. CASE LimiterStops(w, d)
    BY <2>7 DEF LimiterStops
  <2> QED
    BY <1>2, <2>1, <2>2, <2>3, <2>4, <2>5, <2>6, <2>7 DEF Syscall
<1>3. ASSUME NEW t \in Target, StartTarget(t) \/ Probe(t) \/ Supervise(t) PROVE Frozen
  <2>1. CASE StartTarget(t)
    BY <2>1 DEF StartTarget
  <2>2. CASE ProbeOK(t)
    BY <2>2 DEF ProbeOK
  <2>3. CASE ProbeRefused(t)
    <3>1. outcome[t] = "none"
      BY <2>3 DEF ProbeRefused, Supervised
    <3>2. \A u \in Target : u # t => faulty'[u] = faulty[u] /\ counted'[u] = counted[u]
      BY <2>3 DEF ProbeRefused
    <3> QED
      BY <3>1, <3>2
  <2>4. CASE WalkDone(t)
    BY <2>4 DEF WalkDone
  <2>5. CASE DeadlineSeen(t)
    BY <2>5 DEF DeadlineSeen
  <2>6. CASE GiveUp(t)
    BY <2>6 DEF GiveUp, Abandon
  <2>7. CASE Decide(t)
    BY <2>7 DEF Decide, AskRoot, AskScan, AskTotals, Conclude, GoOn
  <2>8. CASE Report(t)
    BY <2>8 DEF Report
  <2> QED
    BY <1>3, <2>1, <2>2, <2>3, <2>4, <2>5, <2>6, <2>7, <2>8 DEF Probe, Supervise
<1>4. CASE ClosePool
  BY <1>4 DEF ClosePool
<1>5. CASE DrainDone \/ DrainTimer
  BY <1>5 DEF DrainDone, DrainTimer
<1>6. CASE Environment
  BY <1>6 DEF Environment, Expire, Shutdown, Vanish
<1>7. CASE Finished \/ UNCHANGED vars
  BY <1>7 DEF Finished, vars
<1> QED
  BY <1>1, <1>2, <1>3, <1>4, <1>5, <1>6, <1>7 DEF Next

-------------------------------------------------------------------------------
IInv == TypeOK /\ Whereabouts /\ LatchHonest /\ LatchMeansDone /\ Supervised

\* Nothing is queued, counted or decided when ScanAll begins.
LEMMA InitIInv == Init => IInv
<1> SUFFICES ASSUME Init PROVE IInv
  OBVIOUS
<1>1. \A t \in Target : Outstanding(t) = {}
  BY DEF Init, Outstanding
<1>2. LatchHonest /\ LatchMeansDone
  BY <1>1, FS_EmptySet DEF Init, LatchHonest, LatchMeansDone
<1>3. Whereabouts
  BY DEF Init, Whereabouts, OneHeld, Handoff, Fresh, NotStarted, Holds
<1>4. Supervised
  BY DEF Init, Supervised, Deciding
<1> QED
  BY <1>2, <1>3, <1>4, TypeInit DEF IInv

LEMMA StepIInv == IInv /\ [Next]_vars => IInv'
<1> SUFFICES ASSUME IInv, [Next]_vars PROVE IInv'
  OBVIOUS
<1>1. TypeOK /\ OneHeld /\ Handoff /\ Fresh /\ NotStarted /\ Supervised
  BY DEF IInv, Whereabouts
<1>2. Whereabouts'
  BY <1>1, OneHeldStep, HandoffStep, FreshStep, NotStartedStep DEF Whereabouts
<1>3. TypeOK' /\ Supervised'
  BY <1>1, TypeStep, SupervisedStep
<1>4. LatchHonest' /\ LatchMeansDone'
  BY LatchStep DEF IInv
<1> QED
  BY <1>2, <1>3, <1>4 DEF IInv

\* In every reachable state the latch counts exactly the directories that are
\* queued or in flight, for any number of workers, targets and trees.
THEOREM LatchIsHonest == Spec => []LatchHonest
<1>1. IInv => LatchHonest
  BY DEF IInv
<1> QED
  BY <1>1, InitIInv, StepIInv, PTL DEF Spec

\* A latch that is closed before its target was given up on means that nothing
\* of the target is queued or being read any more.
THEOREM LatchIsFinal == Spec => []LatchMeansDone
<1>1. IInv => LatchMeansDone
  BY DEF IInv
<1> QED
  BY <1>1, InitIInv, StepIInv, PTL DEF Spec

\* No worker changes the totals of a target after its walk was found complete.
THEOREM CompleteTotalsAreFrozen == Spec => CompleteIsFrozen
<1>1. IInv /\ [Next]_vars => Frozen
  BY FrozenStep DEF IInv
<1> QED
  BY <1>1, InitIInv, StepIInv, PTL DEF Spec, CompleteIsFrozen, Frozen
===============================================================================
